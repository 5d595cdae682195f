------------------------- MODULE Clipboard_proofs ---------------------------
(***************************************************************************)
(* Proofs about Clipboard, for any windows, directories and number of      *)
(* calls.  TypeInv says what a window has read by each place of its call;  *)
(* TurnInv what the keys hold while calls take turns; WaitInv why what was *)
(* handed to show is lost with its own load or before the module is there. *)
(* MoveInv follows each cut: who has it by now, that it was numbered anew  *)
(* and that what was moved is due to nobody else.                          *)
(***************************************************************************)
EXTENDS Clipboard, TLAPS

Reading == {"readCopy", "readCut", "show"}

TypeInv ==
    /\ ClipboardTypeOK
    /\ \A w \in Windows :
         /\ pc[w] = "readCut" => data[w].op = "copy"
         /\ pc[w] = "show" => data[w].op \in {"copy", "move"} /\ data[w].entry \in Entries

\* Where a cut or copy is, the keys are empty by now, and data what is to be there.
TurnOf(w) ==
    /\ pc[w] \in {"removeCopy", "removeCut", "removeCutAgain", "set"} => data[w] = last
    /\ pc[w] \in {"removeCut", "removeCutAgain", "set"} => COPY = NoEntry
    /\ pc[w] \in {"removeCutAgain", "set"} => CUT = NoEntry /\ last # Empty
    /\ pc[w] = "removeCutAgain" => last.op = "copy"
    /\ pc[w] \in {"readCopy", "readCut"} => Content = last

TurnInv ==
    /\ last = Empty \/ last \in [op : {"copy", "move"}, entry : Entries]
    /\ ~overlapped =>
         /\ \A v, w \in Windows : pc[v] # "idle" /\ pc[w] # "idle" => v = w
         /\ AtRest => Content = last
         /\ \A w \in Windows : TurnOf(w)

\* What was handed to fileop, or will be once the module is there.
Due == started \cup UNION {waiting[w] : w \in Windows}

\* A paste that has not come to show is a call of its own.
Unhanded ==
    \A v \in Windows : pc[v] \in Reading =>
        /\ call[v] \in (1..calls) \ handed
        /\ \A w \in Windows : pc[w] \in Reading /\ call[w] = call[v] => w = v

\* What is due is not lost, and each call is due once, in one place.
OnePlace ==
    /\ handed \subseteq 1..calls /\ failed \subseteq handed
    /\ \A s \in Due : s.call \in handed \ (early \cup failed)
    /\ \A s, t \in Due : s.call = t.call => s = t
    /\ \A v \in Windows : \A s \in waiting[v] : s.by = v /\ s \notin started

WaitInv ==
    /\ \A w \in Windows : waiting[w] # {} => Operation[w] \notin {"placeholder", "missed"}
    /\ \A c \in handed \ (early \cup failed) : \E s \in Due : s.call = c
    /\ Unhanded /\ OnePlace

-----------------------------------------------------------------------------
\* Every window is at rest and the keys are empty.
LEMMA InitTypeInv == Init => TypeInv
<1> SUFFICES ASSUME Init PROVE TypeInv
  OBVIOUS
<1>1. 1 \in Calls /\ calls \in 0..MaxCalls
  BY ClipboardAssumption DEF Init, Calls
<1>2. Empty \in [op : {"none", "copy", "move"}, entry : Entries \cup {NoEntry}]
  BY DEF Empty
<1>3. data \in [Windows -> [op : {"none", "copy", "move"}, entry : Entries \cup {NoEntry}]]
  BY <1>2 DEF Init
<1>4. ClipboardTypeOK
  BY <1>1, <1>3 DEF Init, ClipboardTypeOK
<1> QED
  BY <1>4 DEF Init, TypeInv

\* TypeInv is inductive: what readCut and show hold in data is what the steps before
\* them read from the store.
LEMMA NextTypeInv == TypeInv /\ [Next]_vars => TypeInv'
<1> SUFFICES ASSUME TypeInv, [Next]_vars PROVE TypeInv'
  OBVIOUS
<1> USE ClipboardAssumption DEF TypeInv, ClipboardTypeOK, buffer, history
<1>1. CASE UNCHANGED vars
  BY <1>1 DEF vars
<1>2. ASSUME NEW w \in Windows, Copy(w) \/ Cut(w) PROVE TypeInv'
  <2>1. PICK op \in {"copy", "move"} : Begin(w, op)
    BY <1>2 DEF Copy, Cut
  <2>2. calls' \in Calls /\ overlapped' \in BOOLEAN
    BY <2>1 DEF Begin, Count, MayCall, Calls
  <2>3. [id |-> calls', from |-> dirPath[w]] \in Entries
    BY <2>2 DEF Entries
  <2> QED
    BY <2>1, <2>2, <2>3 DEF Begin, Goto, Calls
<1>3. ASSUME NEW w \in Windows, Clear(w) \/ Paste(w) \/ ClearStorage(w) PROVE TypeInv'
  <2>1. MayCall(w) /\ Count
    BY <1>3 DEF Clear, Paste, ClearStorage
  <2>2. calls' \in Calls /\ calls' \in 0..MaxCalls /\ overlapped' \in BOOLEAN
    BY <2>1 DEF Count, MayCall, Calls
  <2> QED
    <3>1. CASE Clear(w)
      BY <2>2, <3>1 DEF Clear, Goto, Empty
    <3>2. CASE Paste(w)
      BY <2>2, <3>2 DEF Paste, Goto
    <3>3. CASE ClearStorage(w)
      BY <2>2, <3>3 DEF ClearStorage
    <3> QED
      BY <1>3, <3>1, <3>2, <3>3
<1>4. ASSUME NEW w \in Windows, NEW d \in Dirs, Navigate(w, d) PROVE TypeInv'
  BY <1>4 DEF Navigate
<1>5. ASSUME NEW w \in Windows, RemoveCopy(w) \/ RemoveCut(w) \/ RemoveCutAgain(w) \/ SetKey(w)
      PROVE  TypeInv'
  BY <1>5 DEF RemoveCopy, RemoveCut, RemoveCutAgain, SetKey, NextAfterClear, Goto
<1>6. ASSUME NEW w \in Windows, ReadCopy(w) PROVE TypeInv'
  BY <1>6 DEF ReadCopy, Goto
<1>7. ASSUME NEW w \in Windows, ReadCut(w) PROVE TypeInv'
  BY <1>7 DEF ReadCut, Refused, Goto, Empty
<1>8. ASSUME NEW w \in Windows, Show(w) PROVE TypeInv'
  <2>1. Start(w) \in Starts
    BY <1>8 DEF Show, Start, Starts
  <2>2. /\ waiting' \in [Windows -> SUBSET Starts] /\ started' \subseteq Starts
        /\ early' \subseteq early \cup {call[w]}
        /\ Operation' \in [Windows -> {"placeholder", "fetching", "missed", "covered",
                                       "initialising", "loaded", "ready"}]
    <3>1. CASE ShowAsks(w)
      BY <2>1, <3>1 DEF ShowAsks
    <3>2. CASE ShowCovers(w) \/ ShowTooEarly(w)
      BY <3>2 DEF ShowCovers, ShowTooEarly
    <3>3. CASE ShowPerforms(w)
      BY <2>1, <3>3 DEF ShowPerforms
    <3> QED
      BY <1>8, <3>1, <3>2, <3>3 DEF Show
  <2>3. /\ handed' = handed \cup {call[w]} /\ data' = [data EXCEPT ![w] = Empty]
        /\ pc' = [pc EXCEPT ![w] = "removeCopy"]
        /\ UNCHANGED <<COPY, CUT, dirPath, call, calls, failed, overlapped>>
    BY <1>8 DEF Show, AfterShow, Goto
  <2>4. early' \subseteq handed' /\ handed' \subseteq Calls
    BY <2>2, <2>3
  <2>5. data' \in [Windows -> [op : {"none", "copy", "move"}, entry : Entries \cup {NoEntry}]]
    BY <2>3 DEF Empty
  <2>6. \A v \in Windows :
          /\ pc'[v] = "readCut" => data'[v].op = "copy"
          /\ pc'[v] = "show" => data'[v].op \in {"copy", "move"} /\ data'[v].entry \in Entries
    BY <2>3
  <2>7. pc' \in [Windows -> {"idle", "removeCopy", "removeCut", "removeCutAgain", "set",
                             "readCopy", "readCut", "show"}]
    BY <2>3
  <2> HIDE DEF TypeInv
  <2> QED
    BY <2>2, <2>3, <2>4, <2>5, <2>6, <2>7 DEF TypeInv
<1>9. ASSUME NEW w \in Windows, ScriptLoads(w) \/ LoadAllEnds(w) PROVE TypeInv'
  BY <1>9 DEF ScriptLoads, LoadAllEnds, loadUnchanged
<1>10. ASSUME NEW w \in Windows, ScriptFails(w) PROVE TypeInv'
  <2>1. {s.call : s \in waiting[w]} \subseteq Calls
    BY DEF Starts
  <2> QED
    BY <1>10, <2>1 DEF ScriptFails, loadUnchanged
<1>11. ASSUME NEW w \in Windows, NEW s \in waiting[w], Accepted(w, s) \/ InitFails(w, s)
       PROVE  TypeInv'
  <2>1. s.call \in Calls /\ s \in Starts
    BY DEF Starts
  <2> QED
    BY <1>11, <2>1 DEF Accepted, InitFails, Awaited, loadUnchanged
<1> QED
  BY <1>1, <1>2, <1>3, <1>4, <1>5, <1>6, <1>7, <1>8, <1>9, <1>10, <1>11 DEF Next

\* Every variable keeps its type, and a window its place in the call.
THEOREM TypeCorrect == Spec => []ClipboardTypeOK
<1>1. TypeInv => ClipboardTypeOK
  BY DEF TypeInv
<1> QED
  BY InitTypeInv, NextTypeInv, <1>1, PTL DEF Spec

-----------------------------------------------------------------------------
(* The keys, while calls take turns.                                       *)

\* The keys are empty, as they were last set.
LEMMA InitTurnInv == Init => TurnInv
  BY DEF Init, TurnInv, TurnOf, Content, Empty, AtRest

\* Without overlap, the one window that is not at rest is the one that steps.
LEMMA CallsTurn ==
  ASSUME TypeInv, TurnInv, NEW w \in Windows, Count, MayCall(w)
  PROVE  ~overlapped' => ~overlapped /\ AtRest /\ Content = last
  BY DEF TurnInv, Count, AtRest

\* While no call overlaps another, each step of a cut or copy brings the keys nearer to
\* what it was called with, and the next call finds them there.
LEMMA NextTurnInv == TypeInv /\ TurnInv /\ [Next]_vars => TurnInv'
<1> SUFFICES ASSUME TypeInv, TurnInv, [Next]_vars PROVE TurnInv'
  OBVIOUS
<1> USE ClipboardAssumption DEF buffer, history
<1>1. CASE UNCHANGED vars
  BY <1>1 DEF vars, TurnInv, TurnOf, Content, AtRest
<1>2. ASSUME NEW w \in Windows, Copy(w) \/ Cut(w) PROVE TurnInv'
  <2>1. PICK op \in {"copy", "move"} : Begin(w, op)
    BY <1>2 DEF Copy, Cut
  <2>2. calls' \in Calls
    BY <2>1 DEF Begin, Count, MayCall, Calls, TypeInv, ClipboardTypeOK
  <2>3. [id |-> calls', from |-> dirPath[w]] \in Entries
    BY <2>2 DEF Entries, TypeInv, ClipboardTypeOK
  <2>4. last' = data'[w] /\ last' = [op |-> op, entry |-> [id |-> calls', from |-> dirPath[w]]]
    BY <2>1 DEF Begin, TypeInv, ClipboardTypeOK
  <2>5. last' \in [op : {"copy", "move"}, entry : Entries]
    BY <2>3, <2>4
  <2>6. ~overlapped' => AtRest
    BY <2>1, CallsTurn DEF Begin
  <2> QED
    BY <2>1, <2>4, <2>5, <2>6
       DEF Begin, Goto, TurnInv, TurnOf, AtRest, TypeInv, ClipboardTypeOK
<1>3. ASSUME NEW w \in Windows, Clear(w) PROVE TurnInv'
  <2>1. ~overlapped' => AtRest
    BY <1>3, CallsTurn DEF Clear
  <2> QED
    BY <1>3, <2>1 DEF Clear, Goto, TurnInv, TurnOf, AtRest, TypeInv, ClipboardTypeOK
<1>4. ASSUME NEW w \in Windows, Paste(w) PROVE TurnInv'
  <2>1. ~overlapped' => AtRest /\ Content = last
    BY <1>4, CallsTurn DEF Paste
  <2>2. Content' = Content /\ last' = last
    BY <1>4 DEF Paste, Content
  <2> QED
    BY <1>4, <2>1, <2>2 DEF Paste, Goto, TurnInv, TurnOf, AtRest, TypeInv, ClipboardTypeOK
<1>5. ASSUME NEW w \in Windows, ClearStorage(w) PROVE TurnInv'
  <2>1. ~overlapped' => AtRest
    BY <1>5, CallsTurn DEF ClearStorage
  <2> QED
    BY <1>5, <2>1 DEF ClearStorage, Content, TurnInv, TurnOf, AtRest
<1>6. ASSUME NEW w \in Windows, NEW d \in Dirs, Navigate(w, d) PROVE TurnInv'
  BY <1>6 DEF Navigate, TurnInv, TurnOf, Content, AtRest
<1>7. ASSUME NEW w \in Windows, RemoveCopy(w) PROVE TurnInv'
  BY <1>7 DEF RemoveCopy, Goto, TurnInv, TurnOf, AtRest, TypeInv, ClipboardTypeOK
<1>8. ASSUME NEW w \in Windows, RemoveCut(w) PROVE TurnInv'
  <2>1. CASE overlapped
    BY <1>8, <2>1 DEF RemoveCut, TurnInv
  <2>2. CASE ~overlapped
    <3>1. data[w] = last /\ COPY = NoEntry
      BY <1>8, <2>2 DEF RemoveCut, TurnInv, TurnOf
    <3>2. CASE last = Empty
      BY <1>8, <2>2, <3>1, <3>2
         DEF RemoveCut, NextAfterClear, Goto, Content, Empty, TurnInv, TurnOf, AtRest,
             TypeInv, ClipboardTypeOK
    <3>3. CASE last \in [op : {"copy", "move"}, entry : Entries]
      <4>1. last # Empty /\ last.op \in {"copy", "move"}
        BY <3>3 DEF Empty
      <4>2. pc' = [pc EXCEPT ![w] = IF last.op = "copy" THEN "removeCutAgain" ELSE "set"]
        BY <1>8, <3>1, <4>1 DEF RemoveCut, NextAfterClear, Goto
      <4> QED
        BY <1>8, <2>2, <3>1, <4>1, <4>2
           DEF RemoveCut, TurnInv, TurnOf, AtRest, TypeInv, ClipboardTypeOK
    <3> QED
      BY <3>2, <3>3 DEF TurnInv
  <2> QED
    BY <2>1, <2>2
<1>9. ASSUME NEW w \in Windows, RemoveCutAgain(w) PROVE TurnInv'
  BY <1>9 DEF RemoveCutAgain, Goto, TurnInv, TurnOf, AtRest, TypeInv, ClipboardTypeOK
<1>10. ASSUME NEW w \in Windows, SetKey(w) PROVE TurnInv'
  <2>1. CASE overlapped
    BY <1>10, <2>1 DEF SetKey, TurnInv
  <2>2. CASE ~overlapped
    <3>1. data[w] = last /\ COPY = NoEntry /\ CUT = NoEntry
          /\ last \in [op : {"copy", "move"}, entry : Entries]
      BY <1>10, <2>2 DEF SetKey, TurnInv, TurnOf
    <3>2. last.entry # NoEntry
          /\ last = [op |-> last.op, entry |-> last.entry]
      BY <3>1
    <3>3. Content' = last
      BY <1>10, <3>1, <3>2 DEF SetKey, Content
    <3>4. pc' = [pc EXCEPT ![w] = "idle"] /\ UNCHANGED <<data, last, overlapped>>
      BY <1>10 DEF SetKey, Goto
    <3> QED
      BY <2>2, <3>1, <3>3, <3>4, <1>10
         DEF SetKey, TurnInv, TurnOf, AtRest, TypeInv, ClipboardTypeOK
  <2> QED
    BY <2>1, <2>2
<1>11. ASSUME NEW w \in Windows, ReadCopy(w) \/ ReadCut(w) PROVE TurnInv'
  <2>1. Content' = Content /\ UNCHANGED <<COPY, CUT, last, overlapped>>
    BY <1>11 DEF ReadCopy, ReadCut, Content
  <2>2. /\ pc[w] \in {"readCopy", "readCut"}
        /\ \E label \in {"idle", "readCut", "show"} : pc' = [pc EXCEPT ![w] = label]
        /\ \E read : data' = [data EXCEPT ![w] = read]
    BY <1>11 DEF ReadCopy, ReadCut, Goto
  <2> QED
    BY <2>1, <2>2 DEF TurnInv, TurnOf, AtRest, TypeInv, ClipboardTypeOK
<1>12. ASSUME NEW w \in Windows, Show(w) PROVE TurnInv'
  BY <1>12 DEF Show, AfterShow, Goto, TurnInv, TurnOf, AtRest, TypeInv, ClipboardTypeOK
<1>13. ASSUME NEW w \in Windows,
              \/ ScriptLoads(w) \/ ScriptFails(w) \/ LoadAllEnds(w)
              \/ \E s \in waiting[w] : Accepted(w, s) \/ InitFails(w, s)
       PROVE  TurnInv'
  <2>1. UNCHANGED loadUnchanged
    BY <1>13 DEF ScriptLoads, ScriptFails, LoadAllEnds, Accepted, InitFails
  <2> QED
    BY <2>1 DEF loadUnchanged, TurnInv, TurnOf, Content, AtRest
<1> QED
  BY <1>1, <1>2, <1>3, <1>4, <1>5, <1>6, <1>7, <1>8, <1>9, <1>10, <1>11, <1>12, <1>13
     DEF Next

\* Calls that take turns leave in the buffer what was cut or copied last, however
\* many windows make them.
THEOREM HoldsLast == Spec => []BufferHoldsLast
<1>1. TurnInv => BufferHoldsLast
  BY DEF TurnInv, BufferHoldsLast
<1> QED
  BY InitTypeInv, NextTypeInv, InitTurnInv, NextTurnInv, <1>1, PTL DEF Spec

-----------------------------------------------------------------------------
(* What show of the placeholder waits for.                                 *)

\* No window is pasting.
LEMMA InitWaitInv == Init => WaitInv
<1> SUFFICES ASSUME Init PROVE WaitInv
  OBVIOUS
<1>1. Due = {}
  BY DEF Init, Due
<1> QED
  BY <1>1 DEF Init, WaitInv, Unhanded, OnePlace, Reading

\* A step that hands nothing to show and loads nothing: only a paste takes a number.
LEMMA WaitKept ==
  ASSUME TypeInv, WaitInv, UNCHANGED <<Operation, waiting, started, handed, early, failed>>,
         calls' \in Nat, calls <= calls', Unhanded'
  PROVE  WaitInv'
<1>1. Due' = Due /\ calls \in Nat
  BY ClipboardAssumption DEF Due, TypeInv, ClipboardTypeOK
<1>2. 1..calls \subseteq 1..calls'
  BY <1>1
<1>3. OnePlace'
  BY <1>1, <1>2 DEF WaitInv, OnePlace
<1> QED
  BY <1>1, <1>3 DEF WaitInv

\* A call in the buffer keeps its number.
LEMMA UnhandedKept ==
  ASSUME TypeInv, WaitInv, NEW w \in Windows, UNCHANGED <<call, calls, handed>>,
         NEW label, pc' = [pc EXCEPT ![w] = label],
         label \in Reading => pc[w] \in Reading
  PROVE  Unhanded'
<1>1. \A v \in Windows : pc'[v] \in Reading => pc[v] \in Reading
  BY DEF TypeInv, ClipboardTypeOK
<1> QED
  BY <1>1 DEF WaitInv, Unhanded

\* A paste that comes to show waits with a load of its own, is performed or is lost.
LEMMA ShowWaits ==
  ASSUME TypeInv, WaitInv, NEW w \in Windows, Show(w)
  PROVE  WaitInv'
<1>1. /\ pc[w] = "show" /\ pc' = [pc EXCEPT ![w] = "removeCopy"]
      /\ handed' = handed \cup {call[w]} /\ UNCHANGED <<call, calls, failed>>
  BY DEF Show, AfterShow, Goto
<1>2. /\ call[w] \in (1..calls) \ handed
      /\ \A v \in Windows \ {w} : pc[v] \in Reading => call[v] # call[w]
  BY <1>1 DEF WaitInv, Unhanded, Reading
<1>3. /\ pc'[w] \notin Reading /\ \A v \in Windows \ {w} : pc'[v] = pc[v]
  BY <1>1 DEF TypeInv, ClipboardTypeOK, Reading
<1>4. Unhanded'
  BY <1>1, <1>2, <1>3 DEF WaitInv, Unhanded
<1>5. \A s \in Due : s.call \in handed \ (early \cup failed) /\ s.call # call[w]
  BY <1>2 DEF WaitInv, OnePlace
<1>6. Start(w).call = call[w] /\ Start(w).by = w
  BY DEF Start
<1>7. waiting \in [Windows -> SUBSET Starts] /\ early \subseteq handed
  BY DEF TypeInv, ClipboardTypeOK
<1>9. CASE ShowCovers(w) \/ ShowTooEarly(w)
  <2>1. /\ early' = early \cup {call[w]} /\ UNCHANGED <<waiting, started>>
        /\ \A v \in Windows : Operation'[v] \in {"placeholder", "missed"} =>
                              Operation[v] \in {"placeholder", "missed"}
    BY <1>9 DEF ShowCovers, ShowTooEarly, TypeInv, ClipboardTypeOK
  <2>2. Due' = Due
    BY <2>1 DEF Due
  <2>3. OnePlace'
    BY <1>1, <1>2, <1>5, <2>1, <2>2 DEF WaitInv, OnePlace
  <2> QED
    BY <1>1, <1>4, <2>1, <2>2, <2>3 DEF WaitInv
<1>10. CASE ShowAsks(w) \/ ShowPerforms(w)
  <2>1. /\ UNCHANGED early
        /\ \A v \in Windows : Operation'[v] \in {"placeholder", "missed"} =>
                              Operation[v] \in {"placeholder", "missed"} /\ v # w
    BY <1>10 DEF ShowAsks, ShowPerforms, Performs, TypeInv, ClipboardTypeOK
  <2>2. \/ /\ started' = started \cup {Start(w)} /\ waiting' = waiting
        \/ /\ started' = started
           /\ waiting'[w] = waiting[w] \cup {Start(w)}
           /\ \A v \in Windows \ {w} : waiting'[v] = waiting[v]
    BY <1>7, <1>10 DEF ShowAsks, ShowPerforms
  <2>3. Due' = Due \cup {Start(w)}
    BY <2>2 DEF Due
  <2>4. \A v \in Windows \ {w} : waiting'[v] = waiting[v]
    BY <2>2
  <2>5. Start(w) \notin Due
    BY <1>5, <1>6
  <2>6. \A v \in Windows : \A s \in waiting'[v] : s.by = v /\ s \notin started'
    BY <1>6, <2>2, <2>5 DEF WaitInv, OnePlace, Due
  <2>7. call[w] \notin failed'
    BY <1>1, <1>2 DEF WaitInv, OnePlace
  <2>8. OnePlace'
    <3>1. handed' \subseteq 1..calls' /\ failed' \subseteq handed'
      BY <1>1, <1>2 DEF WaitInv, OnePlace
    <3>2. \A s \in Due' : s.call \in handed' \ (early' \cup failed')
      BY <1>1, <1>2, <1>5, <1>6, <1>7, <2>1, <2>3, <2>7
    <3>3. \A s, t \in Due' : s.call = t.call => s = t
      BY <1>5, <1>6, <2>3 DEF WaitInv, OnePlace
    <3> QED
      BY <2>6, <3>1, <3>2, <3>3 DEF OnePlace
  <2> QED
    BY <1>1, <1>4, <1>6, <2>1, <2>3, <2>4, <2>8 DEF WaitInv
<1> QED
  BY <1>9, <1>10 DEF Show

\* A load that ends drops or serves what waited for it and nothing else.
LEMMA LoadWaits ==
  ASSUME TypeInv, WaitInv, NEW w \in Windows,
         \/ ScriptLoads(w) \/ ScriptFails(w) \/ LoadAllEnds(w)
         \/ \E s \in waiting[w] : Accepted(w, s) \/ InitFails(w, s)
  PROVE  WaitInv'
<1> USE DEF history
<1>1. UNCHANGED <<pc, call, calls, handed, early>>
  BY DEF ScriptLoads, ScriptFails, LoadAllEnds, Accepted, InitFails, loadUnchanged
<1>2. Unhanded'
  BY <1>1 DEF WaitInv, Unhanded
<1>3. waiting \in [Windows -> SUBSET Starts]
  BY DEF TypeInv, ClipboardTypeOK
<1>4. CASE ScriptLoads(w) \/ LoadAllEnds(w)
  <2>1. UNCHANGED <<waiting, started, failed>>
    BY <1>4 DEF ScriptLoads, LoadAllEnds
  <2>2. Due' = Due
    BY <2>1 DEF Due
  <2>3. \A v \in Windows : Operation'[v] \in {"placeholder", "missed"} =>
                           Operation[v] \in {"placeholder", "missed"}
    BY <1>4 DEF ScriptLoads, LoadAllEnds, TypeInv, ClipboardTypeOK
  <2> QED
    BY <1>1, <1>2, <2>1, <2>2, <2>3 DEF WaitInv, OnePlace
<1>5. CASE \E s \in waiting[w] : Accepted(w, s)
  <2>1. PICK s \in waiting[w] : Accepted(w, s)
    BY <1>5
  <2>2. /\ started' = started \cup {s} /\ UNCHANGED failed
        /\ waiting'[w] = waiting[w] \ {s} /\ \A v \in Windows \ {w} : waiting'[v] = waiting[v]
    BY <1>3, <2>1 DEF Accepted, Awaited
  <2>3. Due' = Due
    BY <2>2 DEF Due
  <2>4. \A v \in Windows : \A t \in waiting'[v] : t.by = v /\ t \notin started'
    <3> SUFFICES ASSUME NEW v \in Windows, NEW t \in waiting'[v] PROVE t.by = v /\ t \notin started'
      OBVIOUS
    <3>1. t \in waiting[v] /\ t.by = v /\ t \notin started /\ s.by = w
      BY <2>2 DEF WaitInv, OnePlace
    <3> QED
      BY <2>2, <3>1
  <2>5. \A v \in Windows : Operation'[v] \in {"placeholder", "missed"} =>
                           Operation[v] \in {"placeholder", "missed"} /\ v # w
    BY <2>1 DEF Accepted, TypeInv, ClipboardTypeOK
  <2> QED
    BY <1>1, <1>2, <2>2, <2>3, <2>4, <2>5 DEF WaitInv, OnePlace
<1>6. ASSUME NEW lost \in SUBSET waiting[w], ScriptFails(w) \/ UNCHANGED Operation,
             waiting' = [waiting EXCEPT ![w] = waiting[w] \ lost],
             failed' = failed \cup {s.call : s \in lost}, UNCHANGED started,
             ScriptFails(w) => lost = waiting[w]
      PROVE  WaitInv'
  <2>1. waiting'[w] = waiting[w] \ lost /\ \A v \in Windows \ {w} : waiting'[v] = waiting[v]
    BY <1>3, <1>6
  <2>2. \A s \in lost : s \in Due /\ s.by = w /\ s \notin started
    BY DEF WaitInv, OnePlace, Due
  <2>3. Due' = Due \ lost
    <3>1. \A v \in Windows : waiting'[v] = waiting[v] \ lost
      BY <2>1, <2>2 DEF WaitInv, OnePlace
    <3> QED
      BY <1>6, <2>2, <3>1 DEF Due
  <2>4. \A s \in Due' : s.call \in handed' \ (early' \cup failed')
    <3> SUFFICES ASSUME NEW s \in Due \ lost PROVE s.call \in handed \ (early \cup failed')
      BY <1>1, <2>3
    <3>1. \A t \in lost : t.call # s.call
      BY <2>2 DEF WaitInv, OnePlace
    <3> QED
      BY <1>6, <3>1 DEF WaitInv, OnePlace
  <2>5. OnePlace'
    <3>1. handed' \subseteq 1..calls' /\ failed' \subseteq handed'
      <4>1. \A s \in lost : s.call \in handed
        BY <2>2 DEF WaitInv, OnePlace
      <4>2. {s.call : s \in lost} \subseteq handed
        BY <4>1
      <4>3. failed' = failed \cup {s.call : s \in lost}
        BY <1>6
      <4>4. handed \subseteq 1..calls /\ failed \subseteq handed
        BY DEF WaitInv, OnePlace
      <4> QED
        BY <1>1, <4>2, <4>3, <4>4
    <3>2. \A s, t \in Due' : s.call = t.call => s = t
      BY <2>3 DEF WaitInv, OnePlace
    <3>3. \A v \in Windows : \A s \in waiting'[v] : s.by = v /\ s \notin started'
      BY <1>6, <2>1 DEF WaitInv, OnePlace
    <3> QED
      BY <2>4, <3>1, <3>2, <3>3 DEF OnePlace
  <2>6. \A c \in handed' \ (early' \cup failed') : \E s \in Due' : s.call = c
    BY <1>1, <1>6, <2>3 DEF WaitInv
  <2>7. \A v \in Windows : waiting'[v] # {} => Operation'[v] \notin {"placeholder", "missed"}
    <3> SUFFICES ASSUME NEW v \in Windows, waiting'[v] # {}
                 PROVE  Operation'[v] \notin {"placeholder", "missed"}
      OBVIOUS
    <3>1. Operation[v] \notin {"placeholder", "missed"}
      BY <2>1 DEF WaitInv
    <3>2. CASE UNCHANGED Operation
      BY <3>1, <3>2
    <3>3. CASE ScriptFails(w)
      BY <1>6, <2>1, <3>1, <3>3 DEF ScriptFails, TypeInv, ClipboardTypeOK
    <3> QED
      BY <1>6, <3>2, <3>3
  <2> QED
    BY <1>2, <2>5, <2>6, <2>7 DEF WaitInv
<1>7. CASE ScriptFails(w)
  <2>1. /\ waiting' = [waiting EXCEPT ![w] = waiting[w] \ waiting[w]] /\ UNCHANGED started
        /\ failed' = failed \cup {s.call : s \in waiting[w]}
    BY <1>7 DEF ScriptFails
  <2> QED
    BY <1>6, <1>7, <2>1
<1>8. CASE ~ScriptFails(w) /\ \E s \in waiting[w] : InitFails(w, s)
  <2>1. PICK s \in waiting[w] : InitFails(w, s)
    BY <1>8
  <2>2. /\ waiting' = [waiting EXCEPT ![w] = waiting[w] \ {s}] /\ UNCHANGED <<started, Operation>>
        /\ failed' = failed \cup {t.call : t \in {s}}
    BY <2>1 DEF InitFails
  <2> QED
    BY <1>6, <1>8, <2>2
<1> QED
  BY <1>4, <1>5, <1>7, <1>8

\* WaitInv is inductive.
LEMMA NextWaitInv == TypeInv /\ WaitInv /\ [Next]_vars => WaitInv'
<1> SUFFICES ASSUME TypeInv, WaitInv, [Next]_vars PROVE WaitInv'
  OBVIOUS
<1> USE DEF buffer, history
<1>0. calls \in Nat /\ call \in [Windows -> Calls]
      /\ \A v \in Windows : pc[v] \in Reading => call[v] <= calls
  BY ClipboardAssumption DEF TypeInv, ClipboardTypeOK, WaitInv, Unhanded
<1>1. CASE UNCHANGED vars
  BY <1>0, <1>1, WaitKept DEF vars, WaitInv, Unhanded
<1>2. ASSUME NEW w \in Windows, Copy(w) \/ Cut(w) \/ Clear(w) \/ ClearStorage(w) \/ Paste(w)
      PROVE  WaitInv'
  <2>1. /\ UNCHANGED <<Operation, waiting, started, handed, early, failed>>
        /\ pc[w] = "idle" /\ calls' = calls + 1
        /\ \/ pc' = [pc EXCEPT ![w] = "removeCopy"] /\ call' = [call EXCEPT ![w] = calls']
           \/ UNCHANGED <<pc, call>>
           \/ pc' = [pc EXCEPT ![w] = "readCopy"] /\ call' = [call EXCEPT ![w] = calls']
    BY <1>2 DEF Copy, Cut, Begin, Clear, ClearStorage, Paste, Count, MayCall, Goto
  <2>2. \A v \in Windows \ {w} : pc'[v] = pc[v] /\ call'[v] = call[v]
    BY <2>1 DEF TypeInv, ClipboardTypeOK
  <2>3. pc'[w] \in Reading => call'[w] = calls + 1
    BY <2>1 DEF TypeInv, ClipboardTypeOK, Reading
  <2>4. handed \subseteq 1..calls
    BY DEF WaitInv, OnePlace
  <2>5. \A v \in Windows \ {w} : pc[v] \in Reading => call[v] \in (1..calls) \ handed
    BY DEF WaitInv, Unhanded
  <2>6. Unhanded'
    <3> SUFFICES ASSUME NEW v \in Windows, pc'[v] \in Reading
                 PROVE  /\ call'[v] \in (1..calls') \ handed'
                        /\ \A u \in Windows : pc'[u] \in Reading /\ call'[u] = call'[v] => u = v
      BY DEF Unhanded
    <3>1. CASE v = w
      <4>1. call'[v] = calls + 1 /\ call'[v] \notin handed
        BY <1>0, <2>3, <2>4, <3>1
      <4>2. \A u \in Windows \ {w} : pc'[u] \in Reading => call'[u] # calls + 1
        BY <1>0, <2>2, <2>5
      <4> QED
        BY <1>0, <2>1, <3>1, <4>1, <4>2
    <3>2. CASE v # w
      <4>1. call'[v] \in (1..calls) \ handed
        BY <2>2, <2>5, <3>2
      <4>2. \A u \in Windows \ {w} : pc'[u] \in Reading /\ call'[u] = call'[v] => u = v
        BY <2>2, <3>2 DEF WaitInv, Unhanded
      <4>3. pc'[w] \in Reading => call'[w] # call'[v]
        BY <1>0, <2>3, <4>1
      <4> QED
        BY <1>0, <2>1, <4>1, <4>2, <4>3
    <3> QED
      BY <3>1, <3>2
  <2> QED
    BY <1>0, <2>1, <2>6, WaitKept
<1>3. ASSUME NEW w \in Windows, NEW d \in Dirs, Navigate(w, d) PROVE WaitInv'
  BY <1>0, <1>3, WaitKept DEF Navigate, WaitInv, Unhanded
<1>4. ASSUME NEW w \in Windows,
             \/ RemoveCopy(w) \/ RemoveCut(w) \/ RemoveCutAgain(w) \/ SetKey(w)
             \/ ReadCopy(w) \/ ReadCut(w)
      PROVE  WaitInv'
  <2>1. UNCHANGED <<Operation, waiting, started, handed, early, failed, call, calls>>
    BY <1>4 DEF RemoveCopy, RemoveCut, RemoveCutAgain, SetKey, ReadCopy, ReadCut
  <2>2. \E label : pc' = [pc EXCEPT ![w] = label] /\ (label \in Reading => pc[w] \in Reading)
    BY <1>4 DEF RemoveCopy, RemoveCut, RemoveCutAgain, SetKey, ReadCopy, ReadCut,
                NextAfterClear, Goto, Reading
  <2>3. PICK label : pc' = [pc EXCEPT ![w] = label] /\ (label \in Reading => pc[w] \in Reading)
    BY <2>2
  <2>4. Unhanded'
    BY <2>1, <2>3, UnhandedKept
  <2> QED
    BY <1>0, <2>1, <2>4, WaitKept
<1>5. ASSUME NEW w \in Windows, Show(w) PROVE WaitInv'
  BY <1>5, ShowWaits
<1>6. ASSUME NEW w \in Windows,
             \/ ScriptLoads(w) \/ ScriptFails(w) \/ LoadAllEnds(w)
             \/ \E s \in waiting[w] : Accepted(w, s) \/ InitFails(w, s)
      PROVE  WaitInv'
  BY <1>6, LoadWaits
<1> QED
  BY <1>1, <1>2, <1>3, <1>4, <1>5, <1>6 DEF Next

\* A paste that empties the buffer leads to an operation, now or once the module is
\* there, unless its load fails or another one's is under way; what is lost stays lost.
THEOREM PasteStarts == Spec => []PasteStartsOperation
<1>1. WaitInv => PasteStartsOperation
  <2> SUFFICES ASSUME WaitInv PROVE PasteStartsOperation
    OBVIOUS
  <2>1. \A c \in handed \ (early \cup failed) :
          \/ \E s \in started : s.call = c
          \/ \E w \in Windows : \E s \in waiting[w] : s.call = c
    BY DEF WaitInv, Due
  <2>2. \A s \in started : s.call \notin early \cup failed
    BY DEF WaitInv, OnePlace, Due
  <2> QED
    BY <2>1, <2>2 DEF WaitInv, PasteStartsOperation
<1> QED
  BY InitTypeInv, NextTypeInv, InitWaitInv, NextWaitInv, <1>1, PTL DEF Spec

-----------------------------------------------------------------------------
(* What was cut is moved once.                                             *)

\* Window w is about to put e under CUT; is about to move it; has had it moved.
Cutting(w, e) ==
    /\ pc[w] \in {"removeCopy", "removeCut", "set"}
    /\ data[w].op = "move" /\ data[w].entry = e
Pasting(w, e) == pc[w] = "show" /\ data[w].op = "move" /\ data[w].entry = e
Moved(w, e) == \E s \in Due : s.by = w /\ s.op = "move" /\ s.entry = e

Concerns(v, w) == v = w \/ ~overlapped

Places ==
    \A w \in Windows :
        /\ pc[w] = "removeCutAgain" => data[w].op = "copy"
        /\ pc[w] = "set" => data[w].op \in {"copy", "move"}

\* What is cut was never cut before.
Numbered ==
    /\ CUT # NoEntry => CUT.id <= calls
    /\ \A s \in Due : s.op = "move" => s.entry.id <= calls
    /\ \A w \in Windows, e \in Entries : Cutting(w, e) \/ Pasting(w, e) => e.id <= calls

\* What is being cut is in no other place yet.
CutIsNew ==
    \A v \in Windows, e \in Entries : Cutting(v, e) =>
        /\ CUT # e
        /\ \A w \in Windows :
             ~Moved(w, e) /\ ~Pasting(w, e) /\ (Cutting(w, e) => v = w)

\* What a window has moved is gone from CUT when its paste ends, and nobody whom the
\* move concerns is going to move it again.
MovedIsGone ==
    /\ \A v \in Windows, e \in Entries :
         Moved(v, e) /\ CUT = e => pc[v] \in {"removeCopy", "removeCut"}
    /\ \A v, w \in Windows, e \in Entries :
         Pasting(w, e) /\ Concerns(v, w) => ~Moved(v, e)

Once ==
    \A a, b \in Due :
        /\ a.op = "move" /\ b.op = "move" /\ a.entry = b.entry
        /\ Concerns(a.by, b.by)
        => a = b

MoveInv == Places /\ Numbered /\ CutIsNew /\ MovedIsGone /\ Once

\* Nothing was cut.
LEMMA InitMoveInv == Init => MoveInv
<1> SUFFICES ASSUME Init PROVE MoveInv
  OBVIOUS
<1>1. Due = {}
  BY DEF Init, Due
<1> QED
  BY <1>1 DEF Init, MoveInv, Places, Numbered, CutIsNew, MovedIsGone, Once, Cutting, Pasting, Moved

\* A step that cuts, reads and moves nothing.
LEMMA MoveKept ==
  ASSUME MoveInv, Due' \subseteq Due, calls \in Nat, calls' \in Nat, calls <= calls', Places',
         overlapped => overlapped', CUT \in Entries \cup {NoEntry}, Due \subseteq Starts,
         \A w \in Windows, e \in Entries :
             (Cutting(w, e)' => Cutting(w, e)) /\ (Pasting(w, e)' => Pasting(w, e)),
         CUT' \in {CUT, NoEntry},
         \A w \in Windows : pc[w] \in {"removeCopy", "removeCut"} /\ CUT' # NoEntry =>
             pc'[w] \in {"removeCopy", "removeCut"}
  PROVE  MoveInv'
<1>1. \A e \in Entries : e.id \in Nat /\ e # NoEntry
  BY ClipboardAssumption DEF Entries, Calls
<1>2. \A v \in Windows, e \in Entries : Moved(v, e)' => Moved(v, e)
  BY DEF Moved
<1>3. \A v, w : Concerns(v, w)' => Concerns(v, w)
  BY DEF Concerns
<1>4. \A s \in Due : s.entry \in Entries
  BY DEF Starts
<1>5. Numbered'
  BY <1>1, <1>4 DEF MoveInv, Numbered
<1>6. CutIsNew'
  BY <1>1, <1>2 DEF MoveInv, CutIsNew
<1>7. MovedIsGone'
  BY <1>1, <1>2, <1>3 DEF MoveInv, MovedIsGone
<1>8. Once'
  BY <1>3 DEF MoveInv, Once
<1> QED
  BY <1>5, <1>6, <1>7, <1>8 DEF MoveInv

\* What is known of the variables MoveInv is about.
LEMMA MoveTypes ==
  ASSUME TypeInv
  PROVE  /\ pc \in [Windows -> {"idle", "removeCopy", "removeCut", "removeCutAgain", "set",
                                "readCopy", "readCut", "show"}]
         /\ data \in [Windows -> [op : {"none", "copy", "move"},
                                  entry : Entries \cup {NoEntry}]]
         /\ CUT \in Entries \cup {NoEntry} /\ Due \subseteq Starts
         /\ calls \in Nat /\ overlapped \in BOOLEAN
  BY ClipboardAssumption DEF TypeInv, ClipboardTypeOK, Due

\* A cut is of an entry with a number of its own.
LEMMA CutMoves ==
  ASSUME TypeInv, TypeInv', MoveInv, NEW w \in Windows, Cut(w)
  PROVE  MoveInv'
<1> DEFINE c == [id |-> calls', from |-> dirPath[w]]
<1>1. /\ calls' = calls + 1 /\ calls' \in Calls /\ (overlapped => overlapped')
      /\ c \in Entries /\ c.id = calls'
  BY DEF Cut, Begin, Count, MayCall, TypeInv, ClipboardTypeOK, Entries, Calls
<1>2. /\ data' = [data EXCEPT ![w] = [op |-> "move", entry |-> c]]
      /\ pc' = [pc EXCEPT ![w] = "removeCopy"] /\ pc[w] = "idle"
      /\ UNCHANGED <<CUT, started, waiting>>
  BY DEF Cut, Begin, Goto, MayCall, buffer
<1> HIDE DEF c
<1>3. Due' = Due
  BY <1>2 DEF Due
<1>4. /\ data'[w].op = "move" /\ data'[w].entry = c /\ pc'[w] = "removeCopy"
      /\ \A v \in Windows \ {w} : data'[v] = data[v] /\ pc'[v] = pc[v]
  BY <1>2, MoveTypes
<1>5. \A v \in Windows, e \in Entries :
        /\ Cutting(v, e)' => Cutting(v, e) \/ (v = w /\ e = c)
        /\ Pasting(v, e)' => Pasting(v, e)
        /\ ~(Cutting(w, e) \/ Pasting(w, e))
  BY <1>2, <1>4 DEF Cutting, Pasting
<1>6. /\ calls \in Nat /\ Due \subseteq Starts /\ CUT \in Entries \cup {NoEntry}
      /\ \A e \in Entries : e.id \in Nat /\ e # NoEntry
  BY MoveTypes, ClipboardAssumption DEF Entries, Calls
<1>7. \A e \in Entries : e.id <= calls => e # c
  BY <1>1, <1>6
<1>8. \A s \in Due : s.entry \in Entries
  BY <1>6 DEF Starts
<1>9. Places'
  BY <1>4 DEF MoveInv, Places
<1>10. Numbered'
  BY <1>1, <1>2, <1>3, <1>5, <1>6, <1>8 DEF MoveInv, Numbered
<1>11. \A v \in Windows, e \in Entries : Moved(v, e)' = Moved(v, e)
  BY <1>3 DEF Moved
<1>12. CUT # c /\ \A v \in Windows : ~Moved(v, c) /\ ~Pasting(v, c) /\ ~Cutting(v, c)
  BY <1>1, <1>6, <1>7, <1>8 DEF MoveInv, Numbered, Moved
<1>13. CutIsNew'
  BY <1>2, <1>5, <1>11, <1>12 DEF MoveInv, CutIsNew
<1>14. MovedIsGone'
  BY <1>1, <1>2, <1>4, <1>5, <1>11 DEF MoveInv, MovedIsGone, Concerns
<1>15. Once'
  BY <1>1, <1>3 DEF MoveInv, Once, Concerns
<1> QED
  BY <1>9, <1>10, <1>13, <1>14, <1>15 DEF MoveInv

\* What is put under CUT was put there never before.
LEMMA SetMoves ==
  ASSUME TypeInv, MoveInv, NEW w \in Windows, SetKey(w), data[w].op = "move"
  PROVE  MoveInv'
<1>1. /\ CUT' = data[w].entry /\ pc' = [pc EXCEPT ![w] = "idle"] /\ pc[w] = "set"
      /\ UNCHANGED <<data, started, waiting, calls, overlapped>>
  BY DEF SetKey, Goto, history
<1>2. Due' = Due
  BY <1>1 DEF Due
<1>3. pc'[w] = "idle" /\ \A v \in Windows \ {w} : pc'[v] = pc[v]
  BY <1>1, MoveTypes
<1>4. \A v \in Windows, e \in Entries :
        /\ Cutting(v, e)' <=> Cutting(v, e) /\ v # w
        /\ Pasting(v, e)' <=> Pasting(v, e) /\ v # w
        /\ Moved(v, e)' = Moved(v, e)
  BY <1>1, <1>2, <1>3 DEF Cutting, Pasting, Moved
<1>5. CUT' \in Entries => Cutting(w, CUT')
  BY <1>1 DEF Cutting
<1>6. CUT' \in Entries \cup {NoEntry} /\ NoEntry \notin Entries
  BY <1>1, MoveTypes, ClipboardAssumption
<1>7. Places'
  BY <1>1, <1>3 DEF MoveInv, Places
<1>8. Numbered'
  BY <1>1, <1>2, <1>4, <1>5, <1>6 DEF MoveInv, Numbered
<1>9. CutIsNew'
  BY <1>4, <1>5, <1>6 DEF MoveInv, CutIsNew
<1>10. MovedIsGone'
  BY <1>1, <1>4, <1>5, <1>6 DEF MoveInv, MovedIsGone, CutIsNew, Concerns
<1>11. Once'
  BY <1>1, <1>2 DEF MoveInv, Once, Concerns
<1> QED
  BY <1>7, <1>8, <1>9, <1>10, <1>11 DEF MoveInv

\* What is read from CUT was not moved by this window, nor by any if calls take turns.
LEMMA ReadMoves ==
  ASSUME TypeInv, TurnInv, MoveInv, NEW w \in Windows, ReadCut(w)
  PROVE  MoveInv'
<1>1. /\ UNCHANGED <<CUT, started, waiting, calls, overlapped>> /\ pc[w] = "readCut"
      /\ \E label \in {"idle", "show"} : pc' = [pc EXCEPT ![w] = label]
  BY DEF ReadCut, Goto, history, buffer
<1>2. PICK read : data' = [data EXCEPT ![w] = read] /\ (read.op = "move" => read.entry = CUT)
  <2>1. data[w].op = "copy" /\ Empty.op # "move"
    BY <1>1 DEF TypeInv, Empty
  <2>2. CASE data[w].entry # NoEntry
    BY <2>1, <2>2 DEF ReadCut
  <2>3. CASE data[w].entry = NoEntry /\ CUT # NoEntry
    <3>1. data' = [data EXCEPT ![w] = [op |-> "move", entry |-> CUT]]
      BY <2>3 DEF ReadCut
    <3>2. [op |-> "move", entry |-> CUT].entry = CUT
      OBVIOUS
    <3> QED
      BY <3>1, <3>2
  <2>4. CASE data[w].entry = NoEntry /\ CUT = NoEntry
    BY <2>1, <2>4 DEF ReadCut
  <2> QED
    BY <2>2, <2>3, <2>4
<1>3. Due' = Due
  BY <1>1 DEF Due
<1>4. /\ data'[w] = read /\ pc'[w] \in {"idle", "show"}
      /\ \A v \in Windows \ {w} : pc'[v] = pc[v] /\ data'[v] = data[v]
  BY <1>1, <1>2, MoveTypes
<1>5. \A v \in Windows, e \in Entries :
        /\ Cutting(v, e)' => Cutting(v, e)
        /\ Pasting(v, e)' => Pasting(v, e) \/ (v = w /\ e = CUT)
        /\ Moved(v, e)' = Moved(v, e)
  BY <1>2, <1>3, <1>4 DEF Cutting, Pasting, Moved
<1>6. \A v \in Windows, e \in Entries : Concerns(v, w) /\ e = CUT => ~Moved(v, e)
  <2> SUFFICES ASSUME NEW v \in Windows, NEW e \in Entries, Concerns(v, w), e = CUT, Moved(v, e)
               PROVE  FALSE
    OBVIOUS
  <2>1. pc[v] \in {"removeCopy", "removeCut"}
    BY DEF MoveInv, MovedIsGone
  <2> QED
    BY <1>1, <2>1 DEF Concerns, TurnInv
<1>7. \A e \in Entries : e.id \in Nat /\ e # NoEntry
  BY ClipboardAssumption DEF Entries, Calls
<1>8. Places'
  BY <1>4 DEF MoveInv, Places
<1>9. Numbered'
  BY <1>1, <1>3, <1>5, <1>7 DEF MoveInv, Numbered
<1>10. CutIsNew'
  BY <1>1, <1>5 DEF MoveInv, CutIsNew
<1>11. MovedIsGone'
  BY <1>1, <1>4, <1>5, <1>6 DEF MoveInv, MovedIsGone, Concerns
<1>12. Once'
  BY <1>1, <1>3 DEF MoveInv, Once, Concerns
<1> QED
  BY <1>8, <1>9, <1>10, <1>11, <1>12 DEF MoveInv

\* What is handed to the module was not moved before.
LEMMA ShowMoves ==
  ASSUME TypeInv, TurnInv, MoveInv, NEW w \in Windows, Show(w)
  PROVE  MoveInv'
<1> DEFINE start == Start(w)
<1>0. start.by = w /\ start.op = data[w].op /\ start.entry = data[w].entry
  BY DEF Start
<1>1. /\ UNCHANGED <<CUT, calls, overlapped>> /\ pc[w] = "show"
      /\ pc' = [pc EXCEPT ![w] = "removeCopy"] /\ data' = [data EXCEPT ![w] = Empty]
  BY DEF Show, AfterShow, Goto, buffer
<1>2. started' \subseteq started \cup {start} /\ started \subseteq started'
  BY DEF Show, ShowAsks, ShowCovers, ShowTooEarly, ShowPerforms
<1>3. waiting' \in {waiting, [waiting EXCEPT ![w] = @ \cup {start}]}
  BY DEF Show, ShowAsks, ShowCovers, ShowTooEarly, ShowPerforms
<1>e. Empty.op # "move" /\ data[w].op \in {"copy", "move"} /\ data[w].entry \in Entries
  BY <1>1 DEF Empty, TypeInv
<1> HIDE DEF start
<1>4. Due' \subseteq Due \cup {start} /\ Due \subseteq Due'
  <2>1. waiting \in [Windows -> SUBSET Starts]
    BY DEF TypeInv, ClipboardTypeOK
  <2>2. \A v \in Windows : /\ waiting'[v] \subseteq waiting[v] \cup {start}
                            /\ waiting[v] \subseteq waiting'[v]
    BY <1>3, <2>1
  <2> QED
    BY <1>2, <2>2 DEF Due
<1>5. /\ data'[w] = Empty /\ pc'[w] = "removeCopy"
      /\ \A v \in Windows \ {w} : pc'[v] = pc[v] /\ data'[v] = data[v]
  BY <1>1, MoveTypes
<1>6. \A v \in Windows, e \in Entries :
        /\ Cutting(v, e)' => Cutting(v, e)
        /\ Pasting(v, e)' => Pasting(v, e) /\ v # w
        /\ Moved(v, e)' => Moved(v, e) \/ (v = w /\ Pasting(w, e))
  BY <1>0, <1>1, <1>4, <1>5, <1>e DEF Cutting, Pasting, Moved
<1>7. calls \in Nat /\ \A e \in Entries : e.id \in Nat /\ e # NoEntry
  BY MoveTypes, ClipboardAssumption DEF Entries, Calls
<1>8. Places'
  BY <1>5 DEF MoveInv, Places
<1>9. start.op = "move" => Pasting(w, start.entry)
  BY <1>0, <1>1 DEF Pasting
<1>10. Numbered'
  BY <1>0, <1>1, <1>4, <1>6, <1>7, <1>9, <1>e DEF MoveInv, Numbered
<1>11. CutIsNew'
  BY <1>1, <1>6 DEF MoveInv, CutIsNew
<1>12. MovedIsGone'
  <2>1. ASSUME NEW v \in Windows, NEW e \in Entries, Moved(v, e)', CUT' = e
        PROVE  pc'[v] \in {"removeCopy", "removeCut"}
    BY <1>1, <1>5, <1>6, <2>1 DEF MoveInv, MovedIsGone
  <2>2. ASSUME NEW u \in Windows, NEW v \in Windows, NEW e \in Entries, Pasting(v, e)',
               Concerns(u, v)'
        PROVE  ~Moved(u, e)'
    <3>1. Pasting(v, e) /\ v # w /\ Concerns(u, v)
      BY <1>1, <1>6, <2>2 DEF Concerns
    <3>2. ~Moved(u, e)
      BY <3>1 DEF MoveInv, MovedIsGone
    <3>3. u # w
      <4>1. overlapped
        BY <1>1, <3>1 DEF Pasting, TurnInv
      <4> QED
        BY <3>1, <4>1 DEF Concerns
    <3> QED
      BY <1>6, <3>2, <3>3
  <2> QED
    BY <2>1, <2>2 DEF MovedIsGone
<1>13. Once'
  <2> SUFFICES ASSUME NEW a \in Due', NEW b \in Due', a.op = "move", b.op = "move",
                      a.entry = b.entry, Concerns(a.by, b.by)
               PROVE  a = b
    BY <1>1 DEF Once, Concerns
  <2>1. CASE a \in Due /\ b \in Due
    BY <2>1 DEF MoveInv, Once
  <2>2. ASSUME NEW s \in Due, s.op = "move", start.op = "move", s.entry = start.entry,
               Concerns(s.by, w)
        PROVE  FALSE
    <3>1. s.by \in Windows
      BY MoveTypes DEF Starts
    <3>2. Moved(s.by, start.entry)
      BY <2>2 DEF Moved
    <3> QED
      BY <1>0, <1>9, <1>e, <2>2, <3>1, <3>2 DEF MoveInv, MovedIsGone
  <2> QED
    BY <1>0, <1>4, <2>1, <2>2 DEF Concerns
<1> QED
  BY <1>8, <1>10, <1>11, <1>12, <1>13 DEF MoveInv

\* MoveInv is inductive.
LEMMA NextMoveInv == TypeInv /\ TurnInv /\ MoveInv /\ [Next]_vars => MoveInv'
<1> SUFFICES ASSUME TypeInv, TurnInv, MoveInv, [Next]_vars PROVE MoveInv'
  OBVIOUS
<1>1. TypeInv'
  BY NextTypeInv
<1>2. /\ calls \in Nat /\ CUT \in Entries \cup {NoEntry} /\ Due \subseteq Starts
      /\ calls' \in Nat
  BY <1>1, MoveTypes, ClipboardAssumption DEF TypeInv, ClipboardTypeOK
<1> USE DEF buffer, history
<1>3. ASSUME Due' \subseteq Due, calls <= calls', Places', overlapped => overlapped',
             \A w \in Windows, e \in Entries :
                 (Cutting(w, e)' => Cutting(w, e)) /\ (Pasting(w, e)' => Pasting(w, e)),
             CUT' \in {CUT, NoEntry},
             \A w \in Windows : pc[w] \in {"removeCopy", "removeCut"} /\ CUT' # NoEntry =>
                 pc'[w] \in {"removeCopy", "removeCut"}
      PROVE  MoveInv'
  BY <1>2, <1>3, MoveKept
<1>4. CASE UNCHANGED vars
  BY <1>2, <1>3, <1>4 DEF vars, Due, Places, MoveInv, Cutting, Pasting
<1>5. ASSUME NEW w \in Windows, Copy(w) \/ Clear(w) PROVE MoveInv'
  <2>1. /\ calls' = calls + 1 /\ (overlapped => overlapped') /\ pc[w] = "idle"
        /\ UNCHANGED <<CUT, started, waiting>>
        /\ pc' = [pc EXCEPT ![w] = "removeCopy"]
    BY <1>5 DEF Copy, Begin, Clear, Count, MayCall, Goto
  <2>2. PICK d : data' = [data EXCEPT ![w] = d] /\ d.op # "move"
    <3>1. CASE Copy(w)
      <4>1. data' = [data EXCEPT ![w] = [op |-> "copy",
                                        entry |-> [id |-> calls', from |-> dirPath[w]]]]
        BY <3>1 DEF Copy, Begin
      <4>2. [op |-> "copy", entry |-> [id |-> calls', from |-> dirPath[w]]].op # "move"
        OBVIOUS
      <4> QED
        BY <4>1, <4>2
    <3>2. CASE Clear(w)
      <4>1. data' = [data EXCEPT ![w] = Empty] /\ Empty.op # "move"
        BY <3>2 DEF Clear, Empty
      <4> QED
        BY <4>1
    <3> QED
      BY <1>5, <3>1, <3>2
  <2> QED
    BY <1>2, <1>3, <2>1, <2>2, MoveTypes DEF Due, Places, MoveInv, Cutting, Pasting
<1>6. ASSUME NEW w \in Windows, Cut(w) PROVE MoveInv'
  BY <1>1, <1>6, CutMoves
<1>7. ASSUME NEW w \in Windows, ClearStorage(w) PROVE MoveInv'
  <2>1. /\ UNCHANGED <<pc, data, started, waiting>> /\ CUT' = NoEntry
        /\ calls' = calls + 1 /\ (overlapped => overlapped')
    BY <1>7 DEF ClearStorage, Count
  <2> QED
    BY <1>2, <1>3, <2>1 DEF Due, Places, MoveInv, Cutting, Pasting
<1>8. ASSUME NEW w \in Windows, Paste(w) PROVE MoveInv'
  BY <1>2, <1>3, <1>8, MoveTypes
     DEF Paste, MayCall, Goto, Count, Due, Places, MoveInv, Cutting, Pasting
<1>9. ASSUME NEW w \in Windows, NEW d \in Dirs, Navigate(w, d) PROVE MoveInv'
  BY <1>2, <1>3, <1>9 DEF Navigate, Due, Places, MoveInv, Cutting, Pasting
<1>10. ASSUME NEW w \in Windows, RemoveCopy(w) PROVE MoveInv'
  BY <1>2, <1>3, <1>10, MoveTypes
     DEF RemoveCopy, Goto, Due, Places, MoveInv, Cutting, Pasting
<1>11. ASSUME NEW w \in Windows, RemoveCut(w) \/ RemoveCutAgain(w) PROVE MoveInv'
  BY <1>2, <1>3, <1>11, MoveTypes
     DEF RemoveCut, RemoveCutAgain, NextAfterClear, Goto, Due, Places, MoveInv, Cutting, Pasting
<1>12. ASSUME NEW w \in Windows, SetKey(w) PROVE MoveInv'
  <2>1. CASE data[w].op = "move"
    BY <1>12, <2>1, SetMoves
  <2>2. CASE data[w].op = "copy"
    BY <1>2, <1>3, <1>12, <2>2, MoveTypes
       DEF SetKey, Goto, Due, Places, MoveInv, Cutting, Pasting
  <2> QED
    BY <1>12, <2>1, <2>2 DEF SetKey, MoveInv, Places
<1>13. ASSUME NEW w \in Windows, ReadCopy(w) PROVE MoveInv'
  BY <1>2, <1>3, <1>13, MoveTypes
     DEF ReadCopy, Goto, Due, Places, MoveInv, Cutting, Pasting
<1>14. ASSUME NEW w \in Windows, ReadCut(w) \/ Show(w) PROVE MoveInv'
  BY <1>14, ReadMoves, ShowMoves
<1>15. ASSUME NEW w \in Windows,
              \/ ScriptLoads(w) \/ ScriptFails(w) \/ LoadAllEnds(w)
              \/ \E s \in waiting[w] : Accepted(w, s) \/ InitFails(w, s)
       PROVE  MoveInv'
  <2>1. UNCHANGED loadUnchanged
    BY <1>15 DEF ScriptLoads, ScriptFails, LoadAllEnds, Accepted, InitFails
  <2>2. waiting \in [Windows -> SUBSET Starts]
    BY DEF TypeInv, ClipboardTypeOK
  <2>3. /\ waiting'[w] \subseteq waiting[w] /\ \A v \in Windows \ {w} : waiting'[v] = waiting[v]
        /\ started' \subseteq started \cup waiting[w]
    BY <1>15, <2>2 DEF ScriptLoads, ScriptFails, LoadAllEnds, Accepted, Awaited, InitFails
  <2>4. Due' \subseteq Due
    BY <2>3 DEF Due
  <2> QED
    BY <1>2, <1>3, <2>1, <2>4 DEF loadUnchanged, Places, MoveInv, Cutting, Pasting
<1> QED
  BY <1>4, <1>5, <1>6, <1>7, <1>8, <1>9, <1>10, <1>11, <1>12, <1>13, <1>14, <1>15
     DEF Next

\* One window never moves twice what was cut once, and two do so only when their calls
\* overlap, whether the module was there or they had to wait for it.
THEOREM MovesOnce == Spec => []MovedOnce
<1>1. MoveInv => MovedOnce
  BY DEF MoveInv, Once, Concerns, Due, MovedOnce
<1> QED
  BY InitTypeInv, NextTypeInv, InitTurnInv, NextTurnInv, InitMoveInv, NextMoveInv, <1>1, PTL
     DEF Spec
=============================================================================

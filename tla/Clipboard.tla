----------------------------- MODULE Clipboard ------------------------------
(***************************************************************************)
(* The buffer of cut and copied files (client/dom/buffer.js), which the    *)
(* windows of a user share through localStorage, and the module Operation  *)
(* that a paste hands it to, which each window loads when it is first used *)
(* (client/load-module.js, client/modules/operation/index.js).  A step is  *)
(* one access to localStorage or one answer of the server.                 *)
(***************************************************************************)
EXTENDS Naturals, FiniteSets

CONSTANTS
    Windows, Dirs,
    NoEntry,            \* what localStorage answers for a missing key
    MaxCalls            \* calls of cut, copy, clear and paste

Calls   == 1..MaxCalls
Entries == [id : Calls, from : Dirs]
Starts  == [by : Windows, call : Calls, op : {"copy", "move"}, entry : Entries, to : Dirs]

ASSUME ClipboardAssumption == MaxCalls \in Nat \ {0} /\ NoEntry \notin Entries

VARIABLES
    COPY, CUT,          \* the two keys of localStorage
    dirPath,            \* Info.dirPath of a window
    pc, call, data,     \* of the call of Buffer a window is in
    Operation,          \* how far a window has loaded the module
    waiting,            \* calls of its show that wait for that
    started,            \* the operations handed to fileop
    handed, last, calls, \* history: the calls of show; what the buffer should hold
    early,              \* history: those of them that came before Operation was there
    failed,             \* history: those of them whose load of it failed
    overlapped          \* history: did a call begin during one of another window?

vars == <<COPY, CUT, dirPath, pc, call, data, Operation, waiting, started, handed,
          last, calls, early, failed, overlapped>>
buffer == <<COPY, CUT>>
history == <<handed, last, calls, early, failed, overlapped>>

Empty == [op |-> "none", entry |-> NoEntry]

Init ==
    /\ COPY = NoEntry /\ CUT = NoEntry
    /\ dirPath \in [Windows -> Dirs]
    /\ pc = [w \in Windows |-> "idle"]
    /\ call = [w \in Windows |-> 1]
    /\ data = [w \in Windows |-> Empty]
    /\ Operation = [w \in Windows |-> "placeholder"]
    /\ waiting = [w \in Windows |-> {}]
    /\ started = {} /\ handed = {} /\ early = {} /\ failed = {}
    /\ last = Empty /\ calls = 0 /\ overlapped = FALSE

-----------------------------------------------------------------------------
(* The user.                                                               *)

AtRest == \A w \in Windows : pc[w] = "idle"

MayCall(w) == pc[w] = "idle" /\ calls < MaxCalls

Count == calls' = calls + 1 /\ overlapped' = (overlapped \/ ~AtRest)

Goto(w, label) == pc' = [pc EXCEPT ![w] = label]

\* getNames and Info.dirPath are read first; clear comes next.  (Without names,
\* a cut or copy is a Clear.)
Begin(w, op) ==
    /\ MayCall(w)
    /\ Count
    /\ call' = [call EXCEPT ![w] = calls']
    /\ data' = [data EXCEPT ![w] =
                  [op |-> op, entry |-> [id |-> calls', from |-> dirPath[w]]]]
    /\ last' = data'[w]
    /\ Goto(w, "removeCopy")
    /\ UNCHANGED <<buffer, dirPath, Operation, waiting, started, handed, early,
                   failed>>

Copy(w) == Begin(w, "copy")
Cut(w)  == Begin(w, "move")

Clear(w) ==
    /\ MayCall(w)
    /\ Count
    /\ call' = [call EXCEPT ![w] = calls']
    /\ data' = [data EXCEPT ![w] = Empty]
    /\ last' = Empty
    /\ Goto(w, "removeCopy")
    /\ UNCHANGED <<buffer, dirPath, Operation, waiting, started, handed, early,
                   failed>>

\* Ctrl+D: storage.clear empties localStorage, whatever else was in it, at once.
ClearStorage(w) ==
    /\ MayCall(w)
    /\ Count
    /\ COPY' = NoEntry /\ CUT' = NoEntry
    /\ last' = Empty
    /\ UNCHANGED <<dirPath, pc, call, data, Operation, waiting, started, handed, early,
                   failed>>

Paste(w) ==
    /\ MayCall(w)
    /\ Count
    /\ call' = [call EXCEPT ![w] = calls']
    /\ Goto(w, "readCopy")
    /\ UNCHANGED <<buffer, dirPath, data, Operation, waiting, started, handed, early,
                   failed, last>>

Navigate(w, d) ==
    /\ pc[w] = "idle" /\ d # dirPath[w]
    /\ dirPath' = [dirPath EXCEPT ![w] = d]
    /\ UNCHANGED <<buffer, pc, call, data, Operation, waiting, started, history>>

-----------------------------------------------------------------------------
(* Buffer.                                                                 *)

RemoveCopy(w) ==
    /\ pc[w] = "removeCopy"
    /\ COPY' = NoEntry
    /\ Goto(w, "removeCut")
    /\ UNCHANGED <<CUT, dirPath, call, data, Operation, waiting, started, history>>

\* Mutant of NextAfterClear: a cut or copy only clears.
ClearEnds(w) == "idle"

NextAfterClear(w) ==
    CASE data[w].op = "copy" -> "removeCutAgain"
      [] data[w].op = "move" -> "set"
      [] OTHER -> "idle"

RemoveCut(w) ==
    /\ pc[w] = "removeCut"
    /\ CUT' = NoEntry
    /\ Goto(w, NextAfterClear(w))
    /\ UNCHANGED <<COPY, dirPath, call, data, Operation, waiting, started, history>>

RemoveCutAgain(w) ==
    /\ pc[w] = "removeCutAgain"
    /\ CUT' = NoEntry
    /\ Goto(w, "set")
    /\ UNCHANGED <<COPY, dirPath, call, data, Operation, waiting, started, history>>

SetKey(w) ==
    /\ pc[w] = "set"
    /\ IF data[w].op = "copy"
         THEN COPY' = data[w].entry /\ UNCHANGED CUT
         ELSE CUT' = data[w].entry /\ UNCHANGED COPY
    /\ Goto(w, "idle")
    /\ UNCHANGED <<dirPath, call, data, Operation, waiting, started, history>>

ReadCopy(w) ==
    /\ pc[w] = "readCopy"
    /\ data' = [data EXCEPT ![w] = [op |-> "copy", entry |-> COPY]]
    /\ Goto(w, "readCut")
    /\ UNCHANGED <<buffer, dirPath, call, Operation, waiting, started, history>>

\* "Buffer is empty!" or "Path is same!"
Refused(read, to) == read = Empty \/ read.entry.from = to

\* If there is something to copy, it is what is pasted.
ReadCut(w) ==
    LET read == IF data[w].entry # NoEntry THEN data[w]
                ELSE IF CUT # NoEntry THEN [op |-> "move", entry |-> CUT]
                ELSE Empty
    IN  /\ pc[w] = "readCut"
        /\ data' = [data EXCEPT ![w] = read]
        /\ Goto(w, IF Refused(read, dirPath[w]) THEN "idle" ELSE "show")
        /\ UNCHANGED <<buffer, dirPath, call, Operation, waiting, started, history>>

\* Mutant of AfterShow: the buffer can be pasted again.
AfterShowKeeps == "idle"

AfterShow == "removeCopy"

\* show of the module returns while it is not Loaded, and throws in nobody's hands
\* while there is no copyFn.
Performs(w) == Operation[w] = "ready"

Start(w) == [by |-> w, call |-> call[w], op |-> data[w].op, entry |-> data[w].entry,
             to |-> dirPath[w]]

\* show of the placeholder asks for the script, also when it has been asked for.
ShowAsks(w) ==
    /\ Operation[w] \in {"placeholder", "fetching", "missed"}
    /\ Operation' = [Operation EXCEPT ![w] = "fetching"]
    /\ waiting' = [waiting EXCEPT ![w] = @ \cup {Start(w)}]
    /\ UNCHANGED <<started, early>>

\* load.js may take a script that was asked for before for one that is there: then the
\* placeholder covers itself with a module that has neither init nor anything to show.
ShowCovers(w) ==
    /\ Operation[w] \in {"fetching", "missed"}
    /\ Operation' = [Operation EXCEPT ![w] = "covered"]
    /\ early' = early \cup {call[w]}
    /\ UNCHANGED <<waiting, started>>

ShowTooEarly(w) ==
    /\ Operation[w] \in {"covered", "initialising", "loaded"}
    /\ early' = early \cup {call[w]}
    /\ UNCHANGED <<Operation, waiting, started>>

ShowPerforms(w) ==
    /\ Performs(w)
    /\ started' = started \cup {Start(w)}
    /\ UNCHANGED <<Operation, waiting, early>>

\* Nobody awaits show: the buffer is cleared whatever becomes of it.
Show(w) ==
    /\ pc[w] = "show"
    /\ ShowAsks(w) \/ ShowCovers(w) \/ ShowTooEarly(w) \/ ShowPerforms(w)
    /\ handed' = handed \cup {call[w]}
    /\ last' = Empty
    /\ data' = [data EXCEPT ![w] = Empty]
    /\ Goto(w, AfterShow)
    /\ UNCHANGED <<buffer, dirPath, call, calls, failed, overlapped>>

-----------------------------------------------------------------------------
(* load-module and init of Operation.                                      *)

loadUnchanged == <<buffer, dirPath, pc, call, data, handed, last, calls, early,
                   overlapped>>

Fetching(w) == Operation[w] \in {"fetching", "covered"} /\ waiting[w] # {}

\* The script replaces the placeholder by its exports; each show that asked for it
\* begins an init.
ScriptLoads(w) ==
    /\ Fetching(w)
    /\ Operation' = [Operation EXCEPT ![w] = "initialising"]
    /\ UNCHANGED <<loadUnchanged, waiting, started, failed>>

\* show logs the error of the script and forgets what it was called with.
ScriptFails(w) ==
    /\ Fetching(w)
    /\ Operation' = [Operation EXCEPT ![w] = IF @ = "fetching" THEN "missed" ELSE @]
    /\ waiting' = [waiting EXCEPT ![w] = {}]
    /\ failed' = failed \cup {s.call : s \in waiting[w]}
    /\ UNCHANGED <<loadUnchanged, started>>

\* loadAll: Loaded is set before the socket of fileop is there.
LoadAllEnds(w) ==
    /\ Operation[w] = "initialising" /\ waiting[w] # {}
    /\ Operation' = [Operation EXCEPT ![w] = "loaded"]
    /\ UNCHANGED <<loadUnchanged, waiting, started, failed>>

\* Mutant of Awaited: the placeholder does not await init.
NotAwaited(s) == {}

\* What the placeholder shows once init has ended.
Awaited(s) == {s}

\* The server accepts: setOperations, then the show that waited for this init is served.
Accepted(w, s) ==
    /\ Operation[w] \in {"loaded", "ready"} /\ s \in waiting[w]
    /\ Operation' = [Operation EXCEPT ![w] = "ready"]
    /\ started' = started \cup Awaited(s)
    /\ waiting' = [waiting EXCEPT ![w] = @ \ {s}]
    /\ UNCHANGED <<loadUnchanged, failed>>

\* There is no socket, no fileop or no access: init rejects or is never done, and the
\* module stays as far as it came.
InitFails(w, s) ==
    /\ Operation[w] \in {"initialising", "loaded", "ready"} /\ s \in waiting[w]
    /\ waiting' = [waiting EXCEPT ![w] = @ \ {s}]
    /\ failed' = failed \cup {s.call}
    /\ UNCHANGED <<loadUnchanged, Operation, started>>

Next ==
    \E w \in Windows :
        \/ Copy(w) \/ Cut(w) \/ Clear(w) \/ ClearStorage(w) \/ Paste(w)
        \/ \E d \in Dirs : Navigate(w, d)
        \/ RemoveCopy(w) \/ RemoveCut(w) \/ RemoveCutAgain(w) \/ SetKey(w)
        \/ ReadCopy(w) \/ ReadCut(w) \/ Show(w)
        \/ ScriptLoads(w) \/ ScriptFails(w) \/ LoadAllEnds(w)
        \/ \E s \in waiting[w] : Accepted(w, s) \/ InitFails(w, s)

Spec == Init /\ [][Next]_vars

-----------------------------------------------------------------------------
Content == IF COPY # NoEntry THEN [op |-> "copy", entry |-> COPY]
           ELSE IF CUT # NoEntry THEN [op |-> "move", entry |-> CUT] ELSE Empty

ClipboardTypeOK ==
    /\ COPY \in Entries \cup {NoEntry} /\ CUT \in Entries \cup {NoEntry}
    /\ dirPath \in [Windows -> Dirs]
    /\ pc \in [Windows -> {"idle", "removeCopy", "removeCut", "removeCutAgain", "set",
                           "readCopy", "readCut", "show"}]
    /\ call \in [Windows -> Calls]
    /\ data \in [Windows -> [op : {"none", "copy", "move"},
                             entry : Entries \cup {NoEntry}]]
    /\ Operation \in [Windows -> {"placeholder", "fetching", "missed", "covered",
                                  "initialising", "loaded", "ready"}]
    /\ waiting \in [Windows -> SUBSET Starts] /\ started \subseteq Starts
    /\ handed \subseteq Calls /\ early \subseteq handed /\ failed \subseteq Calls
    /\ calls \in 0..MaxCalls /\ overlapped \in BOOLEAN

\* As long as calls do not overlap, whatever window they come from, the buffer
\* holds what was cut or copied last and neither cleared nor pasted since.
BufferHoldsLast == ~overlapped /\ AtRest => Content = last

\* What was cut is moved once, since the second time its files are elsewhere: one
\* window never does it twice, and two do so only when their calls overlap.
MovedOnce ==
    \A a, b \in started :
        /\ a.op = "move" /\ b.op = "move" /\ a.entry = b.entry
        /\ a.by = b.by \/ ~overlapped
        => a = b

\* HELP.md:177, "paste from buffer": a paste that empties the buffer leads to an
\* operation, or to one that waits for a load under way.  Lost are those whose load
\* failed and those made after the script was asked for and before the server accepted.
PasteStartsOperation ==
    /\ \A c \in handed \ (early \cup failed) :
         \/ \E s \in started : s.call = c
         \/ \E w \in Windows :
              /\ Operation[w] \notin {"placeholder", "missed"}
              /\ \E s \in waiting[w] : s.call = c
    /\ \A s \in started : s.call \notin early \cup failed
=============================================================================

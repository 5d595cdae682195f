----------------------------- MODULE Transfers ------------------------------
(***************************************************************************)
(* What changes many files at once: copy, move, delete, pack and extract,  *)
(* which the server does and reports over the socket of fileop             *)
(* (client/modules/operation), and uploads, a series of PUT requests       *)
(* (client/dom/upload-files.js, directory.js, load.js).  Each may fail     *)
(* part of the way, be aborted from its dialogs while the server goes on,  *)
(* and must leave a panel that was read again after its last change.       *)
(*                                                                         *)
(* The server's part is external: a worker takes the names one by one,     *)
(* reports each, waits after an error for continue or abort, and reports   *)
(* its end once.  It dies with its session; the page's password is then    *)
(* good for no socket of the next one.                                     *)
(***************************************************************************)
EXTENDS Naturals, Sequences

CONSTANTS
    Ops,                \* the transfers of this page
    MaxNames            \* bound on the files of one

ASSUME TransfersAssumption == MaxNames \in Nat \ {0}

\* A move is asked for and done as a copy is, an extraction as packing is.
Archives   == {"pack"}
Operations == {"copy", "delete"} \cup Archives
Uploads    == {"files", "entries"}

VARIABLES
    op,                 \* of a transfer: its place in the client's code
    worker,             \* of an operation: the server's part of it
    down, up,           \* its messages from and to the server, in order
    accepted,           \* does the server listen to this page's fileop socket?
    refresh,            \* of a transfer: how far the reading is that it asked for
    unread,             \* history: transfers with changes that the panel does not show
    missed,             \* history: those with changes a read on its way does not have
    told                \* history: the operations the user told to stop

wires == <<worker, down, up>>
panel == <<refresh, unread, missed>>
vars  == <<op, wires, accepted, panel, told>>

NoOp == [kind |-> "none", step |-> "free", left |-> 0, progress |-> FALSE,
         done |-> FALSE, lastError |-> FALSE, confirm |-> FALSE, calls |-> 0]

Init ==
    /\ op = [o \in Ops |-> NoOp]
    /\ worker = [o \in Ops |-> "none"]
    /\ down = [o \in Ops |-> <<>>] /\ up = [o \in Ops |-> <<>>]
    /\ accepted = TRUE
    /\ refresh = [o \in Ops |-> "none"]
    /\ unread = {} /\ missed = [o \in Ops |-> {}]
    /\ told = {}

Step(o, s) == op' = [op EXCEPT ![o].step = s]

\* Files change: neither the panel nor a read that has been done shows it.
Changes(o) ==
    /\ unread' = unread \cup {o}
    /\ missed' = [q \in Ops |-> IF refresh[q] = "read" THEN missed[q] \cup {o} ELSE missed[q]]

MayChange(o) == Changes(o) \/ UNCHANGED <<unread, missed>>

\* CloudCmd.refresh is called.  Where a copy or a move awaits Storage.remove before,
\* no message comes between: that is synchronous (dom/storage.js:25).
AsksRefresh(o) == refresh' = [refresh EXCEPT ![o] = "asked"]

-----------------------------------------------------------------------------
(* modules/operation/index.js: what is asked before an operation begins. *)

\* F5 and F6 ask where to (confirmCopy and confirmMove are on), F8 whether to;
\* a paste and an archive go at once.
Operate(o, kind, n, asks) ==
    /\ op[o].step = "free"
    /\ kind \in Archives => ~asks
    /\ op' = [op EXCEPT ![o] = [NoOp EXCEPT !.kind = kind, !.left = n,
                                            !.step = IF asks THEN "prompt" ELSE "sent"]]
    /\ UNCHANGED <<wires, accepted, panel, told>>

\* ask(newTo): when a file of the first name is there, go() waits for an answer.
Answer(o, exists) ==
    /\ op[o].step = "prompt"
    /\ exists => op[o].kind = "copy"
    /\ Step(o, IF exists THEN "exists" ELSE "sent")
    /\ UNCHANGED <<wires, accepted, panel, told>>

Overwrite(o) ==
    /\ op[o].step = "exists"
    /\ Step(o, "sent")
    /\ UNCHANGED <<wires, accepted, panel, told>>

\* Without an answer `go' is never called: nothing has begun.
Dismiss(o) ==
    /\ op[o].step \in {"prompt", "exists", "choosing"}
    /\ op' = [op EXCEPT ![o] = NoOp]
    /\ UNCHANGED <<wires, accepted, panel, told>>

\* operator.copy(...).then(listen): the progress dialog appears, the worker starts.
Listen(o) ==
    /\ op[o].step = "sent" /\ accepted
    /\ op' = [op EXCEPT ![o].step = "running", ![o].progress = TRUE]
    /\ worker' = [worker EXCEPT ![o] = "works"]
    /\ UNCHANGED <<down, up, accepted, panel, told>>

-----------------------------------------------------------------------------
(* The worker. *)

Report(o, event) == down' = [down EXCEPT ![o] = Append(@, event)]

\* A name is done.  The percentage is rounded: with many names the last but one may
\* be reported as 100 too.
NameDone(o) ==
    /\ worker[o] = "works" /\ op[o].left > 0
    /\ op' = [op EXCEPT ![o].left = @ - 1]
    /\ Changes(o) /\ UNCHANGED refresh
    /\ \/ Report(o, "100") /\ op[o].left \in {1, 2}
       \/ Report(o, "progress") /\ op[o].left # 1
    /\ UNCHANGED <<worker, up, accepted, told>>

\* A name fails, which may have changed something.  An archive ends with that.
NameFails(o) ==
    /\ worker[o] = "works" /\ op[o].left > 0
    /\ op' = [op EXCEPT ![o].left = @ - 1]
    /\ MayChange(o) /\ UNCHANGED refresh
    /\ worker' = [worker EXCEPT ![o] = IF op[o].kind \in Archives THEN "over" ELSE "waits"]
    /\ \/ Report(o, "error")
       \/ op[o].kind \in Archives /\ down' = [down EXCEPT ![o] = @ \o <<"error", "end">>]
    /\ UNCHANGED <<up, accepted, told>>

WorkEnds(o) ==
    /\ worker[o] = "works" /\ op[o].left = 0
    /\ worker' = [worker EXCEPT ![o] = "over"]
    /\ Report(o, "end")
    /\ UNCHANGED <<op, up, accepted, panel, told>>

Obey(o) ==
    /\ up[o] # <<>>
    /\ up' = [up EXCEPT ![o] = Tail(@)]
    /\ IF worker[o] \notin {"works", "waits"} THEN UNCHANGED <<worker, down>>
       ELSE IF Head(up[o]) = "abort"
         THEN worker' = [worker EXCEPT ![o] = "over"] /\ Report(o, "end")
         ELSE worker' = [worker EXCEPT ![o] = "works"] /\ UNCHANGED down
    /\ UNCHANGED <<op, accepted, panel, told>>

\* The session ends, or the API launches another one: what was under way is lost,
\* and _initAuth rejects the password this page has in its configuration.
BackendDies ==
    /\ accepted
    /\ accepted' = FALSE
    /\ worker' = [o \in Ops |-> IF worker[o] \in {"works", "waits"} THEN "lost" ELSE worker[o]]
    /\ up' = [o \in Ops |-> <<>>]
    /\ UNCHANGED <<op, down, panel, told>>

-----------------------------------------------------------------------------
(* modules/operation/set-listeners.js *)

Event(o, event) ==
    /\ down[o] # <<>> /\ Head(down[o]) = event
    /\ down' = [down EXCEPT ![o] = Tail(@)]

Send(o, message) == up' = [up EXCEPT ![o] = IF accepted THEN Append(@, message) ELSE @]

\* The listeners are removed at the end.
Listening(o) == op[o].step = "running"

Unheard(o) ==
    /\ ~Listening(o) /\ down[o] # <<>>
    /\ down' = [down EXCEPT ![o] = Tail(@)]
    /\ UNCHANGED <<op, worker, up, accepted, panel, told>>

OnProgress(o) ==
    /\ Listening(o)
    /\ \E event \in {"progress", "100"} :
         /\ Event(o, event)
         /\ op' = [op EXCEPT ![o].done = event = "100"]
    /\ UNCHANGED <<worker, up, accepted, panel, told>>

\* Mutant of CallsBack: an operation that was aborted does not.
CallsBackWhenDone(done, lastError) == done

CallsBack(done, lastError) == done \/ lastError

AfterEnd == "ended"

\* listeners.end; every callback asks for the directory on display again.  After it
\* only an error's dialog that is still open reads `done', and nobody lastError.
Finish(o, lastError) ==
    LET calls == CallsBack(op[o].done, lastError) IN
    /\ op' = [op EXCEPT ![o].step = AfterEnd, ![o].progress = FALSE, ![o].lastError = FALSE,
                        ![o].done = @ /\ op[o].confirm,
                        ![o].calls = IF calls THEN @ + 1 ELSE @]
    /\ IF calls THEN AsksRefresh(o) ELSE UNCHANGED refresh
    /\ UNCHANGED <<unread, missed>>

OnEnd(o) ==
    /\ Listening(o) /\ Event(o, "end")
    /\ Finish(o, op[o].lastError)
    /\ UNCHANGED <<worker, up, accepted, told>>

\* noContinue
OnArchiveError(o) ==
    /\ Listening(o) /\ op[o].kind \in Archives /\ Event(o, "error")
    /\ Finish(o, TRUE)
    /\ UNCHANGED <<worker, up, accepted, told>>

OnError(o) ==
    /\ Listening(o) /\ op[o].kind \notin Archives /\ Event(o, "error")
    /\ op' = [op EXCEPT ![o].lastError = TRUE, ![o].confirm = TRUE]
    /\ UNCHANGED <<worker, up, accepted, panel, told>>

\* Mutant of Reply: the answer is taken for its opposite.
ReplySwapped(done, cancel) == IF done \/ ~cancel THEN "abort" ELSE "continue"

\* "Continue?": the answer counts only while 100 has not been reported.
Reply(done, cancel) == IF done \/ cancel THEN "abort" ELSE "continue"

\* Mutant of SendReply: a refusal only takes the dialog away.
SendContinue(o, reply) ==
    up' = [up EXCEPT ![o] = IF accepted /\ reply = "continue" THEN Append(@, reply) ELSE @]

SendReply(o, reply) == Send(o, reply)

AnswerError(o, cancel) ==
    LET reply == Reply(op[o].done, cancel) IN
    /\ op[o].confirm
    /\ SendReply(o, reply)
    /\ op' = [op EXCEPT ![o].confirm = FALSE, ![o].progress = @ /\ reply = "continue"]
    /\ told' = IF cancel THEN told \cup {o} ELSE told
    /\ UNCHANGED <<worker, down, accepted, panel>>

\* onAbort: the progress dialog is cancelled, which it can be once.
Abort(o) ==
    /\ op[o].progress /\ op[o].kind \in Operations
    /\ Send(o, "abort")
    /\ op' = [op EXCEPT ![o].progress = FALSE, ![o].lastError = TRUE]
    /\ told' = told \cup {o}
    /\ UNCHANGED <<worker, down, accepted, panel>>

-----------------------------------------------------------------------------
(* dom/upload-files.js and dom/directory.js: one PUT at a time. *)

Upload(o, from, kind, n) ==
    /\ op[o].step = from
    /\ op' = [op EXCEPT ![o] = [NoOp EXCEPT !.kind = kind, !.left = n, !.step = "uploading",
                                            !.progress = kind = "entries"]]
    /\ UNCHANGED <<wires, accepted, panel, told>>

\* upload.js: the dialog with its button; the files chosen there are sent at once.
ShowUpload(o) ==
    /\ op[o].step = "free"
    /\ op' = [op EXCEPT ![o].kind = "files", ![o].step = "choosing"]
    /\ UNCHANGED <<wires, accepted, panel, told>>

ChooseFiles(o, n) == Upload(o, "choosing", "files", n)

\* onDrop: files of the system are uploaded, as entries where the browser knows
\* them; names of a panel are copied or moved, after the prompt of F5 and F6.
Drop(o, n) ==
    \/ \E kind \in Uploads : Upload(o, "free", kind, n)
    \/ Operate(o, "copy", n, TRUE)

AfterUpload(left) == IF left > 0 THEN "uploading" ELSE "refresh"

\* `end': the next file, or the end of the series.  The file is there before its answer.
PutEnds(o) ==
    LET next == AfterUpload(op[o].left - 1) IN
    /\ op[o].step = "uploading"
    /\ op' = [op EXCEPT ![o].left = @ - 1, ![o].progress = @ /\ next = "uploading",
                        ![o].step = IF next = "refresh" THEN "ended" ELSE next,
                        ![o].calls = IF next = "refresh" THEN @ + 1 ELSE @]
    /\ Changes(o)
    /\ IF next = "refresh" THEN AsksRefresh(o) ELSE UNCHANGED refresh
    /\ UNCHANGED <<wires, accepted, told>>

\* `error': an alert, or nothing; the callback is tied to `end' alone.
PutFails(o) ==
    /\ op[o].step = "uploading"
    /\ Step(o, "stuck")
    /\ MayChange(o) /\ UNCHANGED refresh
    /\ UNCHANGED <<wires, accepted, told>>

\* "Upload aborted": the file on its way may arrive; what philip reports then is its
\* own affair.
AbortUpload(o) ==
    /\ op[o].step \in {"uploading", "stuck"} /\ op[o].progress
    /\ (op[o].step = "uploading" /\ Changes(o)) \/ UNCHANGED <<unread, missed>>
    /\ \/ /\ op' = [op EXCEPT ![o].progress = FALSE, ![o].step = "stuck"]
          /\ UNCHANGED refresh
       \/ /\ op' = [op EXCEPT ![o].progress = FALSE, ![o].step = "ended", ![o].calls = @ + 1]
          /\ AsksRefresh(o)
    /\ told' = told \cup {o}
    /\ UNCHANGED <<wires, accepted>>

-----------------------------------------------------------------------------
(* client.js: the panel is read again. *)

Refreshes(o, here, there) ==
    /\ refresh[o] = here
    /\ refresh' = [refresh EXCEPT ![o] = there]
    /\ UNCHANGED <<op, wires, accepted, told>>

\* The server reads the directory.  A copy's two panels are read by two requests,
\* taken as one here.
ReadDir(o) ==
    /\ Refreshes(o, "asked", "read")
    /\ UNCHANGED <<unread, missed>>

\* Or fails to, or its answer is lost: an alert, and the old table stays.
RefreshFails(o) ==
    /\ Refreshes(o, "asked", "alerted")
    /\ UNCHANGED <<unread, missed>>

\* createFileTable, which may put an older table in the place of a newer one.
ShowTable(o) ==
    /\ refresh[o] = "read"
    /\ refresh' = [q \in Ops |->
                    IF q = o THEN "shown"
                    ELSE IF refresh[q] = "shown" /\ q \in missed[o] THEN "overtaken" ELSE refresh[q]]
    /\ unread' = missed[o] /\ missed' = [missed EXCEPT ![o] = {}]
    /\ UNCHANGED <<op, wires, accepted, told>>

-----------------------------------------------------------------------------
Work(o)   == NameDone(o) \/ NameFails(o) \/ WorkEnds(o) \/ Obey(o)
Hear(o)   == Unheard(o) \/ OnProgress(o) \/ OnEnd(o) \/ OnArchiveError(o) \/ OnError(o)
React(o)  == \E cancel \in BOOLEAN : AnswerError(o, cancel)
Put(o)    == PutEnds(o) \/ PutFails(o)
Reread(o) == ReadDir(o) \/ RefreshFails(o) \/ ShowTable(o)

Next ==
    \/ \E o \in Ops :
         \/ \E n \in 1..MaxNames, asks \in BOOLEAN, kind \in Operations :
               Operate(o, kind, n, asks)
         \/ \E n \in 1..MaxNames : Drop(o, n) \/ ChooseFiles(o, n)
         \/ ShowUpload(o)
         \/ \E exists \in BOOLEAN : Answer(o, exists)
         \/ Overwrite(o) \/ Dismiss(o) \/ Listen(o)
         \/ Work(o) \/ Hear(o) \/ React(o) \/ Abort(o)
         \/ Put(o) \/ AbortUpload(o) \/ Reread(o)
    \/ BackendDies

Spec == Init /\ [][Next]_vars

\* The server works and its answers come; messages arrive; and the user answers a dialog
\* that is in the way, be it yes or no.
Serves(o) == Listen(o) \/ Work(o) \/ Put(o) \/ Reread(o)

Fairness == \A o \in Ops : WF_vars(Serves(o)) /\ WF_vars(Hear(o)) /\ WF_vars(React(o))

FairSpec == Spec /\ Fairness

-----------------------------------------------------------------------------
\* Types; a transfer calls back at most once, and has no progress dialog at its end.
TransfersTypeOK ==
    /\ op \in [Ops -> [kind : {"none"} \cup Operations \cup Uploads,
                       step : {"free", "prompt", "exists", "choosing", "sent", "running", "uploading",
                               "stuck", "ended"},
                       left : 0..MaxNames, progress : BOOLEAN, done : BOOLEAN,
                       lastError : BOOLEAN, confirm : BOOLEAN, calls : 0..1]]
    /\ worker \in [Ops -> {"none", "works", "waits", "over", "lost"}]
    /\ \A o \in Ops : op[o].step = "ended" => ~op[o].progress
    /\ refresh \in [Ops -> {"none", "asked", "read", "shown", "overtaken", "alerted"}]
    /\ missed \in [Ops -> SUBSET Ops]
    /\ accepted \in BOOLEAN /\ unread \subseteq Ops /\ told \subseteq Ops

\* However it came to its end - done, with names that failed, aborted from either
\* dialog while the server went on - the directory is asked for again, and the table
\* that comes has all that the transfer changed (set-listeners.js:60,
\* upload-files.js:36): the read is never too early.
ChangesShown ==
    \A o \in Ops :
        /\ op[o].step = "ended" /\ o \in unread => refresh[o] # "none"
        /\ refresh[o] = "shown" => o \notin unread

\* Names are left out only because the user said so: an operation that ended with
\* some left was told to stop (set-listeners.js:74, "Continue?"), unless it is an
\* archive, which never goes on after an error.
LeavesOutOnlyWhenTold ==
    \A o \in Ops :
        op[o].step = "ended" /\ op[o].kind \notin Archives /\ op[o].left > 0 => o \in told

\* Every operation that the server listened to ends, with its dialogs answered
\* either way, and its table comes or the user is told that it does not, unless the
\* server is lost.
OperationEnds ==
    \A o \in Ops :
        op[o].step = "running" ~> \/ refresh[o] \in {"shown", "overtaken", "alerted"}
                                 \/ worker[o] = "lost"
=============================================================================

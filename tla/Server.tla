------------------------------- MODULE Server -------------------------------
(***************************************************************************)
(* The requests of one backend on their way through its middleware         *)
(* (server/cloudcmd.js): the configuration, the user menu, the REST        *)
(* interface with its file operations, the pages and the static files.     *)
(* What a request awaits, a body, the file system, an emitter or a worker, *)
(* ends well or not, in any order among the requests.                      *)
(*                                                                         *)
(* The emitters (copymitter, move-files, jaguar, onezip, inly) are         *)
(* external: they deal with a name at a time, report one error at most and *)
(* may or may not end after it.                                            *)
(***************************************************************************)
EXTENDS Integers, Sequences

CONSTANTS
    Requests,           \* requests under way
    Names               \* the names one operation is about

Operations == {"move", "copy", "pack", "extract"}
Puts       == Operations \cup {"rename", "unknown"}
Api        == Puts \cup {"info", "download", "markdown", "config", "userMenu", "defaultMenu"}
Paths      == Api \cup {"page", "static"}
Methods    == {"GET", "PUT", "PATCH", "DELETE"}

VARIABLES
    method, path,       \* of a request
    at,                 \* the middleware it has reached, or what it awaits
    answers,            \* what has been sent for it
    left,               \* the names its operation has not dealt with
    failed              \* history: something it awaited has failed, or was refused

requestVars == <<method, path>>
serverVars  == <<requestVars, at, answers, left, failed>>

Init ==
    /\ method \in [Requests -> Methods] /\ path \in [Requests -> Paths]
    /\ at = [r \in Requests |-> "config"]
    /\ answers = [r \in Requests |-> <<>>]
    /\ left = [r \in Requests |-> Names]
    /\ failed = [r \in Requests |-> FALSE]

-----------------------------------------------------------------------------
Moves(r, here, there) == at[r] = here /\ at' = [at EXCEPT ![r] = there]

Sends(r, answer) == answers' = [answers EXCEPT ![r] = Append(@, answer)]

\* The callback of rest: sendError or send.
Answers(r, here, answer) == Moves(r, here, "done") /\ Sends(r, answer)

Fails(r) == failed' = [failed EXCEPT ![r] = TRUE]

PassesOn(r, here, there) ==
    /\ Moves(r, here, there)
    /\ UNCHANGED <<requestVars, answers, left, failed>>

AnswersWell(r, here) ==
    /\ Answers(r, here, "ok")
    /\ UNCHANGED <<requestVars, left, failed>>

AnswersError(r, here) ==
    /\ Answers(r, here, "error") /\ Fails(r)
    /\ UNCHANGED <<requestVars, left>>

-----------------------------------------------------------------------------
\* config.js: PATCH is refused since configDialog is off.
ConfigMiddle(r) ==
    IF path[r] # "config" \/ method[r] \notin {"GET", "PATCH"} THEN PassesOn(r, "config", "userMenu")
    ELSE IF method[r] = "GET" THEN AnswersWell(r, "config") ELSE AnswersError(r, "config")

\* user-menu.js
UserMenu(r) ==
    IF path[r] \notin {"userMenu", "defaultMenu"} \/ method[r] # "GET"
      THEN PassesOn(r, "userMenu", "rest")
    ELSE IF path[r] = "defaultMenu" THEN AnswersWell(r, "userMenu")
    ELSE PassesOn(r, "userMenu", "find")

\* findUp, then readFile: where there is no file the default menu is sent.
FindsMenu(r) == PassesOn(r, "find", "read") \/ AnswersError(r, "find")

ReadsMenu(r) ==
    PassesOn(r, "read", "transpile") \/ AnswersWell(r, "read") \/ AnswersError(r, "read")

\* A menu that does not parse is sent as a script that throws.
TranspilesMenu(r) == AnswersWell(r, "transpile")

-----------------------------------------------------------------------------
(* rest/index.js *)

\* sendData: nobody answers another method; GET of a command is not found.  Markdown
\* answers another method with nothing; if ponse throws on that, nobody catches it.
Rest(r) ==
    \/ path[r] \notin Api /\ PassesOn(r, "rest", "route")
    \/ /\ path[r] = "markdown"
       /\ \/ method[r] = "GET" /\ PassesOn(r, "rest", "parse")
          \/ method[r] = "PUT" /\ PassesOn(r, "rest", "body")
          \/ /\ method[r] \notin {"GET", "PUT"}
             /\ (AnswersWell(r, "rest") \/ PassesOn(r, "rest", "forgotten"))
    \/ /\ path[r] \in Api \ {"markdown"}
       /\ \/ method[r] = "PUT" /\ PassesOn(r, "rest", "body")
          \/ method[r] \notin {"GET", "PUT"} /\ PassesOn(r, "rest", "forgotten")
          \/ method[r] = "GET" /\ path[r] = "download" /\ PassesOn(r, "rest", "stream")
          \/ method[r] = "GET" /\ path[r] = "info" /\ AnswersWell(r, "rest")
          \/ method[r] = "GET" /\ path[r] \notin {"download", "info"} /\ AnswersError(r, "rest")

\* Mutant of BodyFails: without the catch of sendData.
BodyFailsUncaught(r) == at[r] = "body" /\ PassesOn(r, "body", "forgotten")

\* The body does not come, is not JSON, or lacks a field: an error, thrown or given to
\* the callback.
BodyFails(r) == AnswersError(r, "body")

OnPutRename(r) == path[r] = "rename" /\ PassesOn(r, "body", "rename")

\* Mutant of OnPut: extract falls through to default.
OnPutFallsThrough(r) ==
    \/ OnPutRename(r)
    \/ /\ at[r] = "body" /\ path[r] = "extract"
       /\ Sends(r, "ok") /\ Moves(r, "body", "emit")
       /\ UNCHANGED <<requestVars, left, failed>>

\* onPUT of a body with all its fields.  A command there is none of is answered with
\* nothing; if ponse throws on that, with the error.
OnPut(r) ==
    \/ OnPutRename(r)
    \/ path[r] \in Operations /\ PassesOn(r, "body", "emit")
    \/ path[r] = "markdown" /\ PassesOn(r, "body", "parse")
    \/ /\ path[r] \in Api \ ({"rename", "markdown"} \cup Operations)
       /\ (AnswersWell(r, "body") \/ AnswersError(r, "body"))

\* fs.rename
Renames(r) ==
    \/ /\ Answers(r, "rename", "ok")
       /\ left' = [left EXCEPT ![r] = {}]
       /\ UNCHANGED <<requestVars, failed>>
    \/ AnswersError(r, "rename")

DealsWith(r, n) ==
    /\ at[r] \in {"emit", "stream"} /\ n \in left[r]
    /\ left' = [left EXCEPT ![r] = @ \ {n}]
    /\ UNCHANGED <<requestVars, at, answers, failed>>

\* What on('error') and on('end') give the callback: swap, fn, fn(null, msg).
OnError == "error"
OnEnd   == "ok"

\* on('error', fn); the callback of a download does nothing.
EmitsError(r) ==
    /\ left[r] # {} /\ ~failed[r]
    /\ \/ at[r] = "emit" /\ Sends(r, OnError)
       \/ at[r] = "stream" /\ UNCHANGED answers
    /\ Fails(r)
    /\ UNCHANGED <<requestVars, at, left>>

\* on('end'); the archive of a download ends the response.
EmitsEnd(r) ==
    /\ left[r] = {} \/ failed[r]
    /\ Answers(r, IF path[r] = "download" THEN "stream" ELSE "emit", OnEnd)
    /\ UNCHANGED <<requestVars, left, failed>>

Parses(r) == AnswersWell(r, "parse") \/ AnswersError(r, "parse")

-----------------------------------------------------------------------------
\* route.js: a directory, a file piped to the response, or an error; next, if the
\* pipe breaks.  What is no path of files is a static file, or is not there.
Route(r) ==
    \/ path[r] = "page" /\ (AnswersWell(r, "route") \/ AnswersError(r, "route"))
    \/ PassesOn(r, "route", "static")

Static(r) == AnswersWell(r, "static") \/ AnswersError(r, "static")

-----------------------------------------------------------------------------
Handles(r) ==
    \/ ConfigMiddle(r) \/ UserMenu(r) \/ FindsMenu(r) \/ ReadsMenu(r) \/ TranspilesMenu(r)
    \/ Rest(r) \/ BodyFails(r) \/ OnPut(r) \/ Renames(r) \/ Parses(r)
    \/ (\E n \in Names : DealsWith(r, n)) \/ EmitsError(r)
    \/ ~failed[r] /\ EmitsEnd(r)
    \/ Route(r) \/ Static(r)

Next == \E r \in Requests : Handles(r) \/ EmitsEnd(r)

\* What a request awaits ends some day, well or not; an emitter need not end after
\* its error.
Spec == Init /\ [][Next]_serverVars /\ \A r \in Requests : WF_serverVars(Handles(r))

-----------------------------------------------------------------------------
\* The first answer says what has become of the request: an operation is reported
\* done only when all its names have been dealt with and nothing has failed
\* (rest/index.js:211, :232, :327, :340).  It is the only answer, unless an emitter
\* has ended after its error: rest/index.js:216 answers that twice.
AnswerTells ==
    \A r \in Requests : answers[r] # <<>> =>
        /\ Head(answers[r]) = "ok" /\ method[r] = "PUT" /\ path[r] \in Operations \cup {"rename"}
             => left[r] = {} /\ ~failed[r]
        /\ Len(answers[r]) = 1 \/ (Len(answers[r]) = 2 /\ path[r] \in Operations /\ failed[r])

\* Every request is answered, but for a download that fails on the way, which leaves
\* its response open (rest/index.js:154), and for the methods of /api/v1 that
\* rest/index.js:98 and markdown/index.js:27 have no case for.
RequestsAnswered ==
    \A r \in Requests :
        (path[r] \in Api => method[r] \in {"GET", "PUT"} \/ (path[r] = "config" /\ method[r] = "PATCH"))
          => <>(answers[r] # <<>> \/ (path[r] = "download" /\ failed[r]))
=============================================================================

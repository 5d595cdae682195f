------------------------------ MODULE Gateway -------------------------------
(***************************************************************************)
(* The way of a request to a file manager: the browser of a user, whose    *)
(* jar holds the cloudcmd cookie of the last response of the API, the      *)
(* reverse proxy (src/backend-proxy/main.go), which reads the port file    *)
(* for each request, and the authentication of the backend that listens on *)
(* that port when the connection arrives (cloudcmd's server/auth.js).      *)
(* Composes with Supervisor, which owns the files and the backends.        *)
(***************************************************************************)
EXTENDS Supervisor

VARIABLES
    cookies, jar,       \* the users whose browser has a cookie; its password
    portOf,             \* the port a backend listens on, named by its first user
    hop                 \* the request on its way through the proxy

gatewayVars == <<vars, cookies, jar, portOf, hop>>

NoHop == [step |-> "idle", user |-> NoUser, password |-> NoPassword,
          port |-> NoPid, status |-> 0, by |-> NoPid]

GatewayInit ==
    /\ Init
    /\ cookies = {}
    /\ jar = [u \in Users |-> NoPassword]
    /\ portOf = [p \in Pids |-> p]
    /\ hop = NoHop

Listening(p) == phase[p] \in {"serving", "portless"}

-----------------------------------------------------------------------------
\* The response of the API that some thread's step hands to the browser of u.
Received(u) == {answer[t] : t \in {s \in Requests : /\ who[s] = u
                                                    /\ pc[s] = "answered"
                                                    /\ pc'[s] = "idle"}}

\* Mutant of KeepCookies: an old cookie is not replaced.
KeepFirstCookies ==
    /\ cookies' = cookies \cup {u \in Users : \E a \in Received(u) : a.cookie = "set"}
    /\ jar' = [u \in Users |->
                 IF u \notin cookies /\ \E a \in Received(u) : a.cookie = "set"
                   THEN (CHOOSE a \in Received(u) : a.cookie = "set").password
                 ELSE jar[u]]

KeepCookies ==
    /\ cookies' = {u \in Users : \/ \E a \in Received(u) : a.cookie = "set"
                                 \/ /\ u \in cookies
                                    /\ \A a \in Received(u) : a.cookie # "clear"}
    /\ jar' = [u \in Users |->
                 IF \E a \in Received(u) : a.cookie = "set"
                   THEN (CHOOSE a \in Received(u) : a.cookie = "set").password
                 ELSE IF \E a \in Received(u) : a.cookie = "clear" THEN NoPassword
                 ELSE jar[u]]

\* listen(0): a port of its own, or one nobody listens on any more.
TakePort ==
    \E q \in Pids :
        LET fresh == {p \in Pids : phase[p] = "ready" /\ phase'[p] \in {"serving", "portless"}}
            idle  == {portOf[p] : p \in {r \in Pids : phase[r] \in {"zombie", "gone"}}}
                       \ {portOf[p] : p \in {r \in Pids : Listening(r)}}
        IN  /\ q \in idle \cup fresh \/ fresh = {}
            /\ portOf' = [p \in Pids |-> IF p \notin fresh THEN portOf[p]
                                         ELSE IF q \in idle THEN q ELSE p]

SupervisorStep == Next /\ KeepCookies /\ TakePort /\ UNCHANGED hop

-----------------------------------------------------------------------------
Respond(status, by) ==
    hop' = [hop EXCEPT !.step = "done", !.status = status, !.by = by]

unmoved == <<vars, cookies, jar, portOf>>

\* The referer's host contains the proxy's; Firefox may leave it out of a GET.
GoodOrigin(method, referer) ==
    \/ referer = "same"
    \/ referer = "none" /\ method = "GET"

\* The cookies of the model are those the API writes (app.rb:106), user:password: the index
\* of main.go:100 is never out of range.
HasCredentials(u) == u \in cookies

Send(u, method, referer) ==
    LET status == IF ~GoodOrigin(method, referer) THEN 403
                  ELSE IF ~HasCredentials(u) THEN 401 ELSE 0
    IN  /\ hop.step = "idle"
        /\ hop' = [hop EXCEPT !.user = u, !.password = jar[u], !.status = status,
                              !.step = IF status = 0 THEN "lookup" ELSE "done"]
        /\ UNCHANGED unmoved

\* Mutant of LookUpPort: forwards to whatever the file says.
LookUpPortUnchecked ==
    /\ hop.step = "lookup"
    /\ hop' = [hop EXCEPT !.step = "forward",
                         !.port = IF PortReady(hop.user) THEN portOf[portFile[hop.user]]
                                  ELSE NoPid]
    /\ UNCHANGED unmoved

LookUpPort ==
    /\ hop.step = "lookup"
    /\ IF PortReady(hop.user)
         THEN hop' = [hop EXCEPT !.step = "forward", !.port = portOf[portFile[hop.user]]]
         ELSE Respond(500, NoPid)
    /\ UNCHANGED unmoved

\* Mutant of Accepts: only looks whether a password was given.
AcceptsAnyPassword(p, u, password) == password # NoPassword

Accepts(p, u, password) ==
    password # NoPassword /\ u = owner[p] /\ password = own[p]

\* Whoever listens on the port by now; nobody: the reverse proxy answers 502.
Forward ==
    /\ hop.step = "forward"
    /\ \/ \E p \in Pids :
            /\ Listening(p) /\ portOf[p] = hop.port
            /\ Respond(IF Accepts(p, hop.user, hop.password) THEN 200 ELSE 401, p)
       \/ /\ \A p \in Pids : Listening(p) => portOf[p] # hop.port
          /\ Respond(502, NoPid)
    /\ UNCHANGED unmoved

Done == hop.step = "done" /\ hop' = NoHop /\ UNCHANGED unmoved

GatewayNext ==
    \/ SupervisorStep
    \/ \E u \in Users, method \in {"GET", "other"}, referer \in {"same", "else", "none"} :
          Send(u, method, referer)
    \/ LookUpPort \/ Forward \/ Done

GatewaySpec == GatewayInit /\ [][GatewayNext]_gatewayVars

-----------------------------------------------------------------------------
GatewayTypeOK ==
    /\ TypeOK
    /\ cookies \subseteq Users /\ jar \in [Users -> Nat]
    /\ portOf \in [Pids -> Pids]
    /\ \A p, q \in Pids : Listening(p) /\ Listening(q) /\ portOf[p] = portOf[q] => p = q
    /\ hop \in [step : {"idle", "lookup", "forward", "done"},
                user : Users \cup {NoUser}, password : Nat,
                port : Pids \cup {NoPid}, by : Pids \cup {NoPid},
                status : {0, 200, 401, 403, 500, 502}]
    /\ hop.step = "forward" => hop.port # NoPid

\* However stale the port file or the cookie and whoever listens on the port by
\* now, only a backend of the user in the cookie serves a request: with root as
\* the root of every file manager, any other would act as the wrong user.
ServedByOwnBackend == hop.status = 200 => owner[hop.by] = hop.user

\* While no request to the API is pending, the cookie in the jar opens the live
\* backend of its user by way of the port file: the proxy's credentials are "the
\* correct credentials for that process" (src/backend-proxy/README.md:9).
CookieStaysGood ==
    \A u \in cookies, p \in Pids :
        /\ sup = "up" /\ u \notin {who[t] : t \in Requests}
        /\ Alive(p) /\ owner[p] = u /\ p \notin signalled
        => Listening(p) /\ portFile[u] = p /\ Accepts(p, u, jar[u])
=============================================================================

------------------------------ MODULE Launcher ------------------------------
(***************************************************************************)
(* How a page of the React client gets connected: the hook useFileManager  *)
(* (src/client/src/useFileManager.js), the asset caches of utils.js, the   *)
(* entry point of the cloudcmd client (client/cloudcmd.js), which replaces *)
(* itself by a client (client/client.js), and the start of that client.    *)
(* The hook's state belongs to a mount of the page; the caches, the tags   *)
(* and window.CloudCmd belong to the window and outlive it.  A new service *)
(* worker makes the scripts load and a new client start under the page.    *)
(***************************************************************************)
EXTENDS Naturals, FiniteSets

CONSTANTS
    MaxMounts,          \* how often the page is mounted in one window
    MaxClients,         \* how often the entry point is called
    MayFail             \* may a request fail?

ASSUME LauncherAssumption ==
    MaxMounts \in Nat \ {0} /\ MaxClients \in Nat \ {0} /\ MayFail \in BOOLEAN

Mounts  == 1..MaxMounts
Clients == 1..MaxClients
Scripts == {"common", "cloudcmd"}
Assets  == Scripts \cup {"css"}

VARIABLES
    mounted,            \* the mount on display, 0 if the user is elsewhere
    mounts,             \* how many mounts there have been
    state,              \* the hook's state of a mount; "none" before it
    waits,              \* the assets and the config a mount still waits for
    rejected,           \* the mounts one of whose promises was rejected
    cache,              \* scriptCache and cssCache
    tag,                \* of an asset: [load, by]; by is the mount that waits
    CloudCmd,           \* window.CloudCmd
    initiator,          \* the mount that called it
    client,             \* the client that window.CloudCmd and window.DOM are
    step,               \* of a client, what the call that made it awaits
    on,                 \* the client whose init it called
    keys,               \* the clients whose key listener is on
    listening,          \* the clients that listen for an update
    update,             \* the client whose DOM an update under way remembers
    crowded             \* history: an update had two listeners, or met a slow init

page         == <<mounted, mounts, state, waits, rejected>>
tags         == <<cache, tag>>
start        == <<step, on, keys, listening, update, crowded>>
window       == <<tags, CloudCmd, initiator, client, start>>
launcherVars == <<page, window>>

Init ==
    /\ mounted = 0 /\ mounts = 0
    /\ state = [m \in Mounts |-> "none"]
    /\ waits = [m \in Mounts |-> {}]
    /\ rejected = {}
    /\ cache = {}
    /\ tag = [a \in Assets |-> [load |-> "none", by |-> 0]]
    /\ CloudCmd = "undefined"
    /\ initiator = 0 /\ client = 0
    /\ step = [c \in Clients |-> "none"] /\ on = [c \in Clients |-> 0]
    /\ keys = {} /\ listening = {} /\ update = [c \in Clients |-> 0]
    /\ crowded = FALSE

\* setState of an unmounted page does nothing.
SetState(m, s) ==
    state' = IF m = mounted THEN [state EXCEPT ![m] = s] ELSE state

-----------------------------------------------------------------------------
Mount ==
    /\ mounted = 0 /\ mounts < MaxMounts
    /\ mounts' = mounts + 1
    /\ mounted' = mounts'
    /\ state' = [state EXCEPT ![mounts'] = "launching"]
    /\ UNCHANGED <<waits, rejected, window>>

\* The user follows a link: React unmounts the page, its promises live on.
Leave ==
    /\ mounted # 0
    /\ mounted' = 0
    /\ UNCHANGED <<mounts, state, waits, rejected, window>>

\* Mutant of Missing: a tag is cached once it has loaded.
MissingUnlessLoaded == {a \in Assets : tag[a].load # "loaded"}

\* What the caches do not know yet: a tag counts from its insertion on, whether
\* it has loaded, is loading or has failed.
Missing == Assets \ cache

\* (useFetch aborts the request of a page that is unmounted.)
SessionLaunched(m) ==
    /\ m = mounted /\ state[m] = "launching"
    /\ SetState(m, "retrieving")
    /\ waits' = [waits EXCEPT ![m] = Missing \cup {"config"}]
    /\ tag' = [a \in Assets |-> IF a \in Missing THEN [load |-> "loading", by |-> m]
                                                 ELSE tag[a]]
    /\ cache' = cache \cup Missing
    /\ UNCHANGED <<mounted, mounts, rejected, CloudCmd, initiator, client, start>>

SessionRefused(m) ==
    /\ MayFail
    /\ m = mounted /\ state[m] = "launching"
    /\ SetState(m, "failed")
    /\ UNCHANGED <<mounted, mounts, waits, rejected, window>>

\* Mutant of Settles: Promise.race.
SettlesFirst(m, a) == TRUE

\* Promise.all resolves with the last of its promises.
Settles(m, a) == waits[m] = {a} /\ m \notin rejected

Resolve(m, a) ==
    /\ waits' = [waits EXCEPT ![m] = @ \ {a}]
    /\ IF Settles(m, a)
         THEN SetState(m, "retrieved") ELSE UNCHANGED state

\* Nothing catches a rejection of Promise.all: the state stays "retrieving".
Reject(m, a) ==
    /\ waits' = [waits EXCEPT ![m] = @ \ {a}]
    /\ rejected' = rejected \cup {m}
    /\ UNCHANGED state

ConfigLoads(m) ==
    /\ "config" \in waits[m]
    /\ Resolve(m, "config")
    /\ UNCHANGED <<mounted, mounts, rejected, window>>

ConfigFails(m) ==
    /\ MayFail /\ "config" \in waits[m]
    /\ Reject(m, "config")
    /\ UNCHANGED <<mounted, mounts, window>>

\* cloudcmd.js runs once both chunks are there and exports its entry point.
TagLoads(a) ==
    /\ tag[a].load = "loading"
    /\ tag' = [tag EXCEPT ![a].load = "loaded"]
    /\ Resolve(tag[a].by, a)
    /\ CloudCmd' = IF a \in Scripts /\ \A s \in Scripts : tag'[s].load = "loaded"
                     THEN "function" ELSE CloudCmd
    /\ UNCHANGED <<mounted, mounts, rejected, cache, initiator, client, start>>

TagFails(a) ==
    /\ MayFail /\ tag[a].load = "loading"
    /\ tag' = [tag EXCEPT ![a].load = "failed"]
    /\ Reject(tag[a].by, a)
    /\ UNCHANGED <<mounted, mounts, cache, CloudCmd, initiator, client, start>>

-----------------------------------------------------------------------------
(* The entry point, and client.js. *)

\* Mutant of Called: window.CloudCmd is set after the await of its first call.
CalledTwice == "function"

\* Its own call replaces the function by the client before the first await.
Called == "object"

Calls ==
    /\ CloudCmd' = Called
    /\ client' = client + 1
    /\ step' = [step EXCEPT ![client'] = "register"]

\* The effect on "retrieved" runs for the page on display.
Connect(m) ==
    /\ m = mounted /\ state[m] = "retrieved" /\ CloudCmd = "function"
    /\ SetState(m, "connecting")
    /\ client < MaxClients /\ Calls
    /\ initiator' = m
    /\ UNCHANGED <<mounted, mounts, waits, rejected, tags>>
    /\ UNCHANGED <<on, keys, listening, update, crowded>>

AlreadyConnected(m) ==
    /\ m = mounted /\ state[m] = "retrieved" /\ CloudCmd = "object"
    /\ SetState(m, "connected")
    /\ UNCHANGED <<mounted, mounts, waits, rejected, window>>

\* addListener of undefined: an error in an effect takes the React tree down.
NoCloudCmd(m) ==
    /\ m = mounted /\ state[m] = "retrieved" /\ CloudCmd = "undefined"
    /\ SetState(m, "crashed")
    /\ UNCHANGED <<mounted, mounts, waits, rejected, window>>

\* Mutant of Connected: the page does not wait for the promise.
ConnectedUnheard(s) == FALSE

Connected(s) == s = "ready"

\* An await ends: the init goes on, or it ends and the page that called it hears of
\* it.  (Nothing catches the rejection of a failed one.)
Goes(c, s) ==
    /\ step' = [step EXCEPT ![c] = s]
    /\ IF c = 1 /\ s \in {"ready", "failed"} /\ Connected(s)
         THEN SetState(initiator, "connected") ELSE UNCHANGED state
    /\ UNCHANGED <<mounted, mounts, waits, rejected, tags, CloudCmd, initiator, client>>

\* initModules begins with Key.bind.
BindsKeys(c) == keys' = keys \cup {c}

\* registerSW resolves with a registration or without one; window.CloudCmd.init is
\* then that of the client of this moment.  A browser without
\* scrollIntoViewIfNeeded loads a polyfill first.
Registers(c) ==
    /\ step[c] = "register"
    /\ listening' \in {listening, listening \cup {c}}
    /\ on' = [on EXCEPT ![c] = client]
    /\ \/ BindsKeys(client) /\ Goes(c, "modules")
       \/ Goes(c, "polyfill") /\ UNCHANGED keys
    /\ UNCHANGED <<update, crowded>>

PolyfillLoads(c) ==
    /\ step[c] = "polyfill"
    /\ BindsKeys(on[c])
    /\ Goes(c, "modules")
    /\ UNCHANGED <<on, listening, update, crowded>>

\* Without the list of modules init goes on and there are none; what baseInit reads
\* from the store is the name of the current file.
Loads(c) ==
    /\ \/ step[c] = "modules" /\ Goes(c, "name")
       \/ step[c] = "name" /\ Goes(c, "style")
       \/ step[c] = "style" /\ Goes(c, "ready")
    /\ UNCHANGED <<on, keys, listening, update, crowded>>

LoadFails(c) ==
    /\ MayFail /\ step[c] \in {"polyfill", "style"}
    /\ Goes(c, "failed")
    /\ UNCHANGED <<on, keys, listening, update, crowded>>

\* updatefound, for every listener of the registration: onUpdateFound remembers the
\* DOM and loads both scripts again.
UpdateFound ==
    /\ listening # {} /\ \A c \in Clients : update[c] = 0
    /\ update' = [c \in Clients |-> IF c \in listening THEN client ELSE 0]
    /\ crowded' = (\/ crowded \/ Cardinality(listening) > 1
                   \/ \E c \in Clients : step[c] \in {"register", "polyfill"})
    /\ UNCHANGED <<page, tags, CloudCmd, initiator, client, step, on, keys, listening>>

\* Mutant of Removed: the listeners of the client that was there stay.
RemovedNone(c) == {}

\* DOM.Events.removeAll of the DOM it remembers.
Removed(c) == {update[c]}

\* The scripts have run, which makes window.CloudCmd a function, and it is called.
UpdateLoads(c) ==
    /\ update[c] # 0 /\ client < MaxClients
    /\ keys' = keys \ Removed(c)
    /\ Calls
    /\ update' = [update EXCEPT ![c] = 0]
    /\ UNCHANGED <<page, tags, initiator, on, listening, crowded>>

UpdateFails(c) ==
    /\ MayFail /\ update[c] # 0
    /\ update' = [update EXCEPT ![c] = 0]
    /\ UNCHANGED <<page, tags, CloudCmd, initiator, client, step, on, keys, listening, crowded>>

Progress(m) ==
    \/ SessionLaunched(m) \/ SessionRefused(m) \/ ConfigLoads(m) \/ ConfigFails(m)
    \/ Connect(m) \/ AlreadyConnected(m) \/ NoCloudCmd(m)

Load(a) == TagLoads(a) \/ TagFails(a)

Starts(c) == Registers(c) \/ PolyfillLoads(c) \/ Loads(c) \/ LoadFails(c)

Next ==
    \/ Mount \/ Leave \/ (\E m \in Mounts : Progress(m)) \/ (\E a \in Assets : Load(a))
    \/ UpdateFound \/ (\E c \in Clients : Starts(c) \/ UpdateLoads(c) \/ UpdateFails(c))

\* Every request is answered some day, well or not.
Fairness == /\ \A m \in Mounts : WF_launcherVars(Progress(m))
            /\ \A a \in Assets : WF_launcherVars(Load(a))
            /\ \A c \in Clients : WF_launcherVars(Starts(c))

Spec == Init /\ [][Next]_launcherVars /\ Fairness

-----------------------------------------------------------------------------
LauncherTypeOK ==
    /\ mounted \in 0..mounts /\ mounts \in 0..MaxMounts
    /\ state \in [Mounts -> {"none", "launching", "retrieving", "retrieved",
                             "connecting", "connected", "failed", "crashed"}]
    /\ waits \in [Mounts -> SUBSET (Assets \cup {"config"})]
    /\ rejected \subseteq Mounts /\ cache \subseteq Assets
    /\ tag \in [Assets -> [load : {"none", "loading", "loaded", "failed"},
                           by : 0..MaxMounts]]
    /\ CloudCmd \in {"undefined", "function", "object"}
    /\ initiator \in 0..MaxMounts /\ client \in 0..MaxClients
    /\ step \in [Clients -> {"none", "register", "polyfill", "modules", "name", "style",
                             "ready", "failed"}]
    /\ on \in [Clients -> 0..MaxClients] /\ update \in [Clients -> 0..MaxClients]
    /\ keys \subseteq 1..client /\ listening \subseteq 1..client /\ crowded \in BOOLEAN
    /\ \A m \in Mounts : \A a \in waits[m] \cap Assets : tag[a] = [load |-> "loading", by |-> m]

\* useFileManager.js:52, "`retrieved`: asssets retrieved", and :54, "`connected`:
\* file manager process is connected".  The effect of the one finds what it uses, on
\* the first page of a window; the actions of the other call into a client that has
\* been initialised, if this page called the entry point.  (A later page takes tags
\* that are still loading for loaded, and the object it finds for an initialised one.)
StatesHold ==
    /\ state[1] = "retrieved" => \A a \in Assets : tag[a].load = "loaded"
    /\ initiator # 0 /\ state[initiator] = "connected" => step[1] = "ready"

\* Every key is taken by one client at most, however often the scripts are loaded
\* under the page: onUpdateFound (cloudcmd.js:63) removes the listeners of the client
\* it replaces before the new one binds its own.  (Not so if the update is found before
\* the client to be replaced has bound its keys, nor for a second update, for which
\* the replaced client still listens as well.)
KeysOfOneClient == ~crowded => Cardinality(keys) <= 1

\* As long as no promise is rejected, a page that is left alone gets connected,
\* says that something went wrong, or crashes as a later page may.  (Nothing
\* catches a rejection: after one the page may be stuck.)
ConnectsUnlessRejected ==
    \A m \in Mounts :
        mounted = m ~> \/ mounted # m \/ state[m] \in {"connected", "failed"}
                       \/ m \in rejected \/ step[1] = "failed"
                       \/ m > 1 /\ state[m] = "crashed"

\* The pages of a window call the entry point once, whatever is mounted, left and
\* updated meanwhile.
InitialisedOnce == [][initiator # 0 => initiator' = initiator]_launcherVars
=============================================================================

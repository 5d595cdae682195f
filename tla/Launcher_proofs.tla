--------------------------- MODULE Launcher_proofs ---------------------------
(***************************************************************************)
(* Proofs about Launcher, for any number of visits of the page and of      *)
(* calls of the entry point, whether requests may fail or not.  PageInv is *)
(* about the visits and the tags they share, EntryInv about the call of    *)
(* the entry point that one of them makes.                                 *)
(***************************************************************************)
EXTENDS Launcher, FiniteSetTheorems, TLAPS

States  == {"none", "launching", "retrieving", "retrieved", "connecting", "connected",
            "failed", "crashed"}
Stages  == {"none", "loading", "loaded", "failed"}
Steps   == {"none", "register", "polyfill", "modules", "name", "style", "ready", "failed"}
MountNo == 0..MaxMounts

TypeInv ==
    /\ mounts \in Nat /\ mounts <= MaxMounts /\ (mounted = 0 \/ mounted = mounts)
    /\ state \in [Mounts -> States]
    /\ waits \in [Mounts -> SUBSET (Assets \cup {"config"})]
    /\ rejected \subseteq Mounts /\ cache \subseteq Assets
    /\ tag \in [Assets -> [load : Stages, by : MountNo]]
    /\ CloudCmd \in {"undefined", "function", "object"}
    /\ \A a \in Assets : tag[a].load = "loading" => tag[a].by \in Mounts

ClientTypeInv ==
    /\ client \in Nat /\ client <= MaxClients
    /\ step \in [Clients -> Steps]
    /\ on \in [Clients -> 0..MaxClients] /\ update \in [Clients -> 0..MaxClients]
    /\ keys \subseteq 1..client /\ listening \subseteq 1..client /\ crowded \in BOOLEAN
    /\ \A c \in Clients : step[c] # "none" => c <= client
    /\ \A c \in Clients : step[c] = "polyfill" => on[c] \in 1..client
    /\ \A c \in Clients : update[c] # 0 => client # 0

-----------------------------------------------------------------------------
\* Nothing is loaded and nobody there.
LEMMA InitTypeInv == Init => TypeInv /\ ClientTypeInv
<1> SUFFICES ASSUME Init PROVE TypeInv /\ ClientTypeInv
  OBVIOUS
<1>1. TypeInv
  BY LauncherAssumption
     DEF Init, TypeInv, States, Stages, MountNo, Mounts, Assets, Scripts
<1>2. ClientTypeInv
  <2>1. client = 0 /\ keys = {} /\ listening = {} /\ crowded = FALSE
    BY DEF Init
  <2>2. step = [c \in Clients |-> "none"] /\ update = [c \in Clients |-> 0]
    BY DEF Init
  <2>3. on \in [Clients -> 0..MaxClients] /\ update \in [Clients -> 0..MaxClients]
    BY LauncherAssumption DEF Init
  <2>4. step \in [Clients -> Steps]
    BY <2>2 DEF Steps
  <2> QED
    <3>1. client \in Nat /\ client <= MaxClients
      BY <2>1, LauncherAssumption
    <3>2. \A c \in Clients : step[c] = "none" /\ update[c] = 0
      BY <2>2
    <3> QED
      BY <2>1, <2>3, <2>4, <3>1, <3>2 DEF ClientTypeInv
<1> QED
  BY <1>1, <1>2

\* setState gives a page a state.
LEMMA SetStateType ==
  ASSUME TypeInv, NEW m, NEW s \in States, SetState(m, s)
  PROVE  state' \in [Mounts -> States]
  BY DEF TypeInv, SetState

\* A promise that resolves leaves pages and waits well formed.
LEMMA ResolveType ==
  ASSUME TypeInv, NEW m, NEW a, Resolve(m, a)
  PROVE  /\ state' \in [Mounts -> States]
         /\ waits' \in [Mounts -> SUBSET (Assets \cup {"config"})]
<1>1. "retrieved" \in States
  BY DEF States
<1> QED
  BY <1>1, SetStateType DEF Resolve, TypeInv

\* And so does one that is rejected.
LEMMA RejectType ==
  ASSUME TypeInv, NEW m \in Mounts, NEW a, Reject(m, a)
  PROVE  /\ state' \in [Mounts -> States] /\ rejected' \subseteq Mounts
         /\ waits' \in [Mounts -> SUBSET (Assets \cup {"config"})]
  BY DEF Reject, TypeInv

\* A tag goes on from loading.
LEMMA TagType ==
  ASSUME TypeInv, NEW a \in Assets, NEW s \in Stages \ {"loading"},
         tag' = [tag EXCEPT ![a].load = s]
  PROVE  /\ tag' \in [Assets -> [load : Stages, by : MountNo]]
         /\ tag'[a].load = s /\ tag'[a].by = tag[a].by
         /\ \A b \in Assets \ {a} : tag'[b] = tag[b]
         /\ \A b \in Assets : tag'[b].load = "loading" => tag'[b].by \in Mounts
<1>1. tag \in [Assets -> [load : Stages, by : MountNo]]
  BY DEF TypeInv
<1>2. tag' \in [Assets -> [load : Stages, by : MountNo]]
  BY <1>1
<1>3. tag'[a].load = s /\ tag'[a].by = tag[a].by /\ \A b \in Assets \ {a} : tag'[b] = tag[b]
  BY <1>1
<1> QED
  BY <1>2, <1>3 DEF TypeInv

\* The pages and the tags, whatever the clients do.
LEMMA NextTypeInv == TypeInv /\ [Next]_launcherVars => TypeInv'
<1> SUFFICES ASSUME TypeInv, [Next]_launcherVars PROVE TypeInv'
  OBVIOUS
<1>1. CASE UNCHANGED launcherVars
  BY <1>1 DEF launcherVars, page, window, tags, TypeInv
<1>2. CASE Mount \/ Leave
  <2>1. UNCHANGED <<waits, rejected, cache, tag, CloudCmd>>
    BY <1>2 DEF Mount, Leave, window, tags
  <2>2. /\ mounts' \in Nat /\ mounts' <= MaxMounts
        /\ mounted' = 0 \/ mounted' = mounts'
    BY <1>2, LauncherAssumption DEF Mount, Leave, TypeInv
  <2>3. state' \in [Mounts -> States]
    BY <1>2 DEF Mount, Leave, TypeInv, States
  <2> QED
    BY <2>1, <2>2, <2>3 DEF TypeInv
<1>3. ASSUME NEW m \in Mounts, SessionLaunched(m) PROVE TypeInv'
  <2>1. state' \in [Mounts -> States]
    BY <1>3, SetStateType DEF SessionLaunched, States
  <2>2. Missing \subseteq Assets
    BY DEF Missing
  <2>3. m \in MountNo /\ "loading" \in Stages
    BY LauncherAssumption DEF Mounts, MountNo, Stages
  <2>4. waits' \in [Mounts -> SUBSET (Assets \cup {"config"})]
    BY <1>3, <2>2 DEF SessionLaunched, TypeInv
  <2>5. /\ tag' = [a \in Assets |-> IF a \in Missing THEN [load |-> "loading", by |-> m]
                                                     ELSE tag[a]]
        /\ cache' = cache \cup Missing /\ UNCHANGED <<mounted, mounts, rejected, CloudCmd>>
    BY <1>3 DEF SessionLaunched
  <2>6. tag' \in [Assets -> [load : Stages, by : MountNo]]
    BY <2>3, <2>5 DEF TypeInv
  <2>7. \A a \in Assets : tag'[a].load = "loading" => tag'[a].by \in Mounts
    BY <2>5 DEF TypeInv
  <2> QED
    BY <2>1, <2>2, <2>4, <2>5, <2>6, <2>7 DEF TypeInv
<1>4. ASSUME NEW m \in Mounts, SessionRefused(m) \/ AlreadyConnected(m) \/ NoCloudCmd(m)
      PROVE TypeInv'
  <2>1. state' \in [Mounts -> States]
    BY <1>4, SetStateType DEF SessionRefused, AlreadyConnected, NoCloudCmd, States
  <2> QED
    BY <1>4, <2>1
       DEF SessionRefused, AlreadyConnected, NoCloudCmd, window, tags, TypeInv
<1>5. ASSUME NEW m \in Mounts, ConfigLoads(m) \/ ConfigFails(m) PROVE TypeInv'
  <2>1. /\ state' \in [Mounts -> States] /\ rejected' \subseteq Mounts
        /\ waits' \in [Mounts -> SUBSET (Assets \cup {"config"})]
    BY <1>5, ResolveType, RejectType DEF ConfigLoads, ConfigFails, TypeInv
  <2> QED
    BY <1>5, <2>1 DEF ConfigLoads, ConfigFails, window, tags, TypeInv
<1>6. ASSUME NEW m \in Mounts, Connect(m) PROVE TypeInv'
  <2>1. state' \in [Mounts -> States]
    BY <1>6, SetStateType DEF Connect, States
  <2> QED
    BY <1>6, <2>1 DEF Connect, Calls, Called, tags, TypeInv
<1>7. ASSUME NEW a \in Assets, TagLoads(a) PROVE TypeInv'
  <2>1. /\ tag' \in [Assets -> [load : Stages, by : MountNo]]
        /\ \A b \in Assets : tag'[b].load = "loading" => tag'[b].by \in Mounts
    BY <1>7, TagType DEF TagLoads, Stages
  <2>2. /\ state' \in [Mounts -> States]
        /\ waits' \in [Mounts -> SUBSET (Assets \cup {"config"})]
    BY <1>7, ResolveType DEF TagLoads
  <2> QED
    BY <1>7, <2>1, <2>2 DEF TagLoads, TypeInv
<1>8. ASSUME NEW a \in Assets, TagFails(a) PROVE TypeInv'
  <2>1. /\ tag' \in [Assets -> [load : Stages, by : MountNo]]
        /\ \A b \in Assets : tag'[b].load = "loading" => tag'[b].by \in Mounts
    BY <1>8, TagType DEF TagFails, Stages
  <2>2. /\ state' \in [Mounts -> States] /\ rejected' \subseteq Mounts
        /\ waits' \in [Mounts -> SUBSET (Assets \cup {"config"})]
    BY <1>8, RejectType DEF TagFails, TypeInv
  <2> QED
    BY <1>8, <2>1, <2>2 DEF TagFails, TypeInv
<1>9. ASSUME NEW c \in Clients, Starts(c) PROVE TypeInv'
  <2>1. PICK s : Goes(c, s)
    BY <1>9 DEF Starts, Registers, PolyfillLoads, Loads, LoadFails
  <2>2. state' \in [Mounts -> States]
    BY <2>1, SetStateType DEF Goes, States, TypeInv
  <2> QED
    BY <2>1, <2>2 DEF Goes, tags, TypeInv
<1>10. ASSUME NEW c \in Clients, UpdateLoads(c) \/ UpdateFails(c) PROVE TypeInv'
  BY <1>10 DEF UpdateLoads, UpdateFails, Calls, Called, page, tags, TypeInv
<1>11. CASE UpdateFound
  BY <1>11 DEF UpdateFound, page, tags, TypeInv
<1> QED
  BY <1>1, <1>2, <1>3, <1>4, <1>5, <1>6, <1>7, <1>8, <1>9, <1>10, <1>11
     DEF Next, Progress, Load

\* The clients, their keys and listeners, whatever the pages do.
LEMMA NextClientType == TypeInv /\ ClientTypeInv /\ [Next]_launcherVars => ClientTypeInv'
<1> SUFFICES ASSUME TypeInv, ClientTypeInv, [Next]_launcherVars PROVE ClientTypeInv'
  OBVIOUS
<1>1. ASSUME UNCHANGED client, UNCHANGED start PROVE ClientTypeInv'
  BY <1>1 DEF start, ClientTypeInv
<1>2. ASSUME NEW m \in Mounts, Progress(m) PROVE ClientTypeInv'
  <2>1. CASE Connect(m)
    <3>1. /\ client < MaxClients /\ client' = client + 1
          /\ step' = [step EXCEPT ![client'] = "register"]
          /\ UNCHANGED <<on, keys, listening, update, crowded>>
      BY <2>1 DEF Connect, Calls
    <3>2. step' \in [Clients -> Steps]
      BY <3>1 DEF ClientTypeInv, Steps
    <3>3. client' \in Nat /\ client' <= MaxClients
      BY <3>1, LauncherAssumption DEF ClientTypeInv
    <3>4. keys' \subseteq 1..client' /\ listening' \subseteq 1..client'
      BY <3>1 DEF ClientTypeInv
    <3>5. \A c \in Clients : step'[c] # "none" => c <= client'
      BY <3>1 DEF ClientTypeInv, Clients
    <3>6. \A c \in Clients : step'[c] = "polyfill" => on'[c] \in 1..client'
      BY <3>1 DEF ClientTypeInv
    <3>7. \A c \in Clients : update'[c] # 0 => client' # 0
      BY <3>1 DEF ClientTypeInv
    <3> QED
      BY <3>1, <3>2, <3>3, <3>4, <3>5, <3>6, <3>7 DEF ClientTypeInv
  <2> QED
    BY <1>1, <1>2, <2>1
       DEF Progress, SessionLaunched, SessionRefused, ConfigLoads, ConfigFails,
           AlreadyConnected, NoCloudCmd, window
<1>3. ASSUME NEW c \in Clients, Starts(c) PROVE ClientTypeInv'
  <2>1. client' = client
    BY <1>3 DEF Starts, Registers, PolyfillLoads, Loads, LoadFails, Goes
  <2>2. step[c] # "none"
    BY <1>3 DEF Starts, Registers, PolyfillLoads, Loads, LoadFails
  <2>3. c \in 1..client /\ client \in 1..client
    BY <2>2, LauncherAssumption DEF ClientTypeInv, Clients
  <2>4. CASE Registers(c)
    <3>1. PICK s \in {"modules", "polyfill"} :
            /\ step[c] = "register" /\ step' = [step EXCEPT ![c] = s]
            /\ listening' \in {listening, listening \cup {c}}
            /\ on' = [on EXCEPT ![c] = client]
            /\ keys' = keys \/ keys' = keys \cup {client}
            /\ UNCHANGED <<update, crowded>>
      BY <2>4 DEF Registers, BindsKeys, Goes
    <3>2. step' \in [Clients -> Steps]
      BY <3>1 DEF ClientTypeInv, Steps
    <3>3. on' \in [Clients -> 0..MaxClients]
      BY <3>1, <2>3, LauncherAssumption DEF ClientTypeInv, Clients
    <3>4. keys' \subseteq 1..client' /\ listening' \subseteq 1..client'
      BY <3>1, <2>1, <2>3 DEF ClientTypeInv
    <3>5. \A d \in Clients : step'[d] # "none" => d <= client'
      BY <3>1, <2>1, <2>3 DEF ClientTypeInv
    <3>6. \A d \in Clients : step'[d] = "polyfill" => on'[d] \in 1..client'
      BY <3>1, <2>1, <2>3 DEF ClientTypeInv
    <3> QED
      BY <3>1, <3>2, <3>3, <3>4, <3>5, <3>6, <2>1 DEF ClientTypeInv
  <2>5. CASE PolyfillLoads(c) \/ Loads(c) \/ LoadFails(c)
    <3>1. PICK s \in Steps \ {"polyfill"} :
            /\ step' = [step EXCEPT ![c] = s]
            /\ keys' = keys \/ (step[c] = "polyfill" /\ keys' = keys \cup {on[c]})
            /\ UNCHANGED <<on, listening, update, crowded>>
      BY <2>5 DEF PolyfillLoads, Loads, LoadFails, BindsKeys, Goes, Steps
    <3>2. step' \in [Clients -> Steps]
      BY <3>1 DEF ClientTypeInv
    <3>3. keys' \subseteq 1..client'
      BY <3>1, <2>1 DEF ClientTypeInv
    <3>4. \A d \in Clients : step'[d] # "none" => d <= client'
      BY <3>1, <2>1, <2>3 DEF ClientTypeInv
    <3>5. \A d \in Clients : step'[d] = "polyfill" => on'[d] \in 1..client'
      BY <3>1, <2>1 DEF ClientTypeInv
    <3> QED
      BY <3>1, <3>2, <3>3, <3>4, <3>5, <2>1 DEF ClientTypeInv
  <2> QED
    BY <1>3, <2>4, <2>5 DEF Starts
<1>4. ASSUME NEW c \in Clients, UpdateLoads(c) PROVE ClientTypeInv'
  <2>1. /\ client < MaxClients /\ client' = client + 1
        /\ step' = [step EXCEPT ![client'] = "register"]
        /\ keys' \subseteq keys /\ update' = [update EXCEPT ![c] = 0]
        /\ UNCHANGED <<on, listening, crowded>>
    BY <1>4 DEF UpdateLoads, Calls
  <2>2. step' \in [Clients -> Steps]
    BY <2>1 DEF ClientTypeInv, Steps
  <2>3. client' \in Nat /\ client' <= MaxClients
    BY <2>1, LauncherAssumption DEF ClientTypeInv
  <2>4. keys' \subseteq 1..client' /\ listening' \subseteq 1..client'
    BY <2>1 DEF ClientTypeInv
  <2>5. \A d \in Clients : step'[d] # "none" => d <= client'
    BY <2>1 DEF ClientTypeInv, Clients
  <2>6. \A d \in Clients : step'[d] = "polyfill" => on'[d] \in 1..client'
    BY <2>1 DEF ClientTypeInv
  <2>7. \A d \in Clients : update'[d] # 0 => client' # 0
    BY <2>1 DEF ClientTypeInv
  <2>8. update' \in [Clients -> 0..MaxClients]
    BY <2>1, LauncherAssumption DEF ClientTypeInv
  <2> QED
    BY <2>1, <2>2, <2>3, <2>4, <2>5, <2>6, <2>7, <2>8 DEF ClientTypeInv
<1>5. ASSUME NEW c \in Clients, UpdateFails(c) PROVE ClientTypeInv'
  <2>1. /\ update' = [update EXCEPT ![c] = 0]
        /\ UNCHANGED <<client, step, on, keys, listening, crowded>>
    BY <1>5 DEF UpdateFails
  <2>2. update' \in [Clients -> 0..MaxClients]
    BY <2>1, LauncherAssumption DEF ClientTypeInv
  <2> QED
    BY <2>1, <2>2 DEF ClientTypeInv
<1>6. CASE UpdateFound
  <2>1. /\ listening # {}
        /\ update' = [c \in Clients |-> IF c \in listening THEN client ELSE 0]
        /\ crowded' \in BOOLEAN /\ UNCHANGED <<client, step, on, keys, listening>>
    BY <1>6 DEF UpdateFound, ClientTypeInv
  <2>2. client \in 1..MaxClients
    <3>1. PICK c \in 1..client : c \in listening
      BY <2>1 DEF ClientTypeInv
    <3>2. client \in Nat /\ client <= MaxClients
      BY DEF ClientTypeInv
    <3> QED
      BY <3>1, <3>2, LauncherAssumption
  <2> QED
    BY <2>1, <2>2, LauncherAssumption DEF ClientTypeInv
<1>7. CASE Mount \/ Leave \/ (\E a \in Assets : Load(a)) \/ UNCHANGED launcherVars
  BY <1>1, <1>7 DEF Mount, Leave, Load, TagLoads, TagFails, window, launcherVars
<1> QED
  BY <1>2, <1>3, <1>4, <1>5, <1>6, <1>7 DEF Next

-----------------------------------------------------------------------------
PageInv ==
    /\ \A m \in Mounts : m > mounts => waits[m] = {}
    /\ \A a \in Assets : tag[a].load # "none" => a \in cache
    /\ \A m \in Mounts : \A a \in waits[m] \cap Assets :
          tag[a].load = "loading" /\ tag[a].by = m
    /\ \A a \in Assets : tag[a].load = "loading" => a \in waits[tag[a].by]
    /\ \A m \in Mounts : waits[m] # {} => state[m] = "retrieving"
    /\ mounts = 0 => cache = {}
    /\ mounted = 1 /\ state[1] = "launching" => cache = {}
    /\ state[1] = "retrieving" =>
          /\ cache = Assets
          /\ \A a \in Assets : tag[a].load = "loaded" \/ a \in waits[1] \/ 1 \in rejected
    /\ state[1] = "retrieved" => \A a \in Assets : tag[a].load = "loaded"

\* No tag has been inserted, and no page mounted.
LEMMA InitPageInv == Init => PageInv
<1> SUFFICES ASSUME Init PROVE PageInv
  OBVIOUS
<1>1. 1 \in Mounts
  BY LauncherAssumption DEF Mounts
<1>2. state[1] = "none" /\ mounted = 0 /\ cache = {}
  BY <1>1 DEF Init
<1>3. \A m \in Mounts : waits[m] = {} /\ state[m] = "none"
  BY DEF Init
<1>4. \A a \in Assets : tag[a].load = "none"
  BY DEF Init
<1> QED
  BY <1>2, <1>3, <1>4 DEF PageInv

\* A promise of a visit settles, and its tag, if it is one, has loaded by then.
LEMMA ResolveKeeps ==
  ASSUME TypeInv, TypeInv', PageInv, NEW m \in Mounts, NEW a \in waits[m],
         Resolve(m, a), UNCHANGED <<mounted, mounts, rejected, cache>>,
         \A b \in Assets \ {a} : tag'[b] = tag[b],
         a \in Assets => tag'[a].load = "loaded" /\ tag[a].load = "loading" /\ tag[a].by = m
  PROVE  PageInv'
<1>1. waits' = [waits EXCEPT ![m] = @ \ {a}]
  BY DEF Resolve
<1>2. \A n \in Mounts : waits'[n] = IF n = m THEN waits[m] \ {a} ELSE waits[n]
  BY <1>1 DEF TypeInv
<1>3. \A n \in Mounts :
        state'[n] = state[n] \/ (state'[n] = "retrieved" /\ n = m /\ Settles(m, a))
  BY DEF Resolve, SetState, TypeInv
<1>4. 1 \in Mounts
  BY LauncherAssumption DEF Mounts
<1>5. \A n \in Mounts : n > mounts' => waits'[n] = {}
  BY <1>2 DEF PageInv
<1>6. \A b \in Assets : tag'[b].load # "none" => b \in cache'
  BY DEF PageInv
<1>7. \A n \in Mounts : \A b \in waits'[n] \cap Assets :
        tag'[b].load = "loading" /\ tag'[b].by = n
  BY <1>2 DEF PageInv
<1>8. \A n \in Mounts : waits'[n] # {} => state'[n] = "retrieving"
  BY <1>2, <1>3 DEF PageInv, Settles
<1>9. mounted' = 1 /\ state'[1] = "launching" => cache' = {}
  BY <1>3, <1>4 DEF PageInv
<1>10. \A b \in Assets : tag[b].load = "loaded" => tag'[b].load = "loaded"
  OBVIOUS
<1>11. state'[1] = "retrieving" =>
         /\ cache' = Assets
         /\ \A b \in Assets : tag'[b].load = "loaded" \/ b \in waits'[1] \/ 1 \in rejected'
  BY <1>2, <1>3, <1>4, <1>10 DEF PageInv
<1>12. state'[1] = "retrieved" => \A b \in Assets : tag'[b].load = "loaded"
  <2>1. CASE state[1] = "retrieved"
    BY <1>10, <2>1 DEF PageInv
  <2>2. CASE m = 1 /\ Settles(m, a)
    <3>1. state[1] = "retrieving"
      BY <2>2, <1>4 DEF PageInv
    <3>2. \A b \in Assets \ {a} : tag[b].load = "loaded"
      BY <3>1, <2>2 DEF PageInv, Settles
    <3> QED
      BY <1>10, <3>2
  <2> QED
    BY <1>3, <1>4, <2>1, <2>2
<1>13. \A b \in Assets : tag'[b].load = "loading" => b \in waits'[tag'[b].by]
  BY <1>2 DEF PageInv, TypeInv
<1> QED
  BY <1>5, <1>6, <1>7, <1>8, <1>9, <1>11, <1>12, <1>13 DEF PageInv

\* A promise of a visit is rejected, and its tag, if it is one, has failed.
LEMMA RejectKeeps ==
  ASSUME TypeInv, TypeInv', PageInv, NEW m \in Mounts, NEW a \in waits[m],
         Reject(m, a), UNCHANGED <<mounted, mounts, cache>>,
         \A b \in Assets \ {a} : tag'[b] = tag[b],
         a \in Assets => tag'[a].load = "failed" /\ tag[a].load = "loading" /\ tag[a].by = m
  PROVE  PageInv'
<1>1. waits' = [waits EXCEPT ![m] = @ \ {a}] /\ rejected' = rejected \cup {m} /\ state' = state
  BY DEF Reject
<1>2. \A n \in Mounts : waits'[n] = IF n = m THEN waits[m] \ {a} ELSE waits[n]
  BY <1>1 DEF TypeInv
<1>3. 1 \in Mounts
  BY LauncherAssumption DEF Mounts
<1>4. \A b \in Assets : tag[b].load = "loaded" => tag'[b].load = "loaded"
  OBVIOUS
<1>5. /\ \A n \in Mounts : n > mounts' => waits'[n] = {}
      /\ \A n \in Mounts : waits'[n] # {} => state'[n] = "retrieving"
  BY <1>1, <1>2 DEF PageInv
<1>6. \A b \in Assets : tag'[b].load # "none" => b \in cache'
  BY DEF PageInv
<1>7. \A n \in Mounts : \A b \in waits'[n] \cap Assets :
        tag'[b].load = "loading" /\ tag'[b].by = n
  BY <1>2 DEF PageInv
<1>8. state'[1] = "retrieving" =>
        /\ cache' = Assets
        /\ \A b \in Assets : tag'[b].load = "loaded" \/ b \in waits'[1] \/ 1 \in rejected'
  BY <1>1, <1>2, <1>3, <1>4 DEF PageInv
<1>9. state'[1] = "retrieved" => \A b \in Assets : tag'[b].load = "loaded"
  BY <1>1, <1>4 DEF PageInv
<1>10. \A b \in Assets : tag'[b].load = "loading" => b \in waits'[tag'[b].by]
  BY <1>2 DEF PageInv, TypeInv
<1> QED
  BY <1>1, <1>5, <1>6, <1>7, <1>8, <1>9, <1>10 DEF PageInv

-----------------------------------------------------------------------------
EntryInv ==
    /\ CloudCmd # "undefined" => \A s \in Scripts : tag[s].load = "loaded"
    /\ initiator = 0 => client = 0
    /\ initiator # 0 =>
          /\ CloudCmd = "object" /\ client # 0
          /\ initiator \in Mounts /\ initiator <= mounts
          /\ state[initiator] \in {"connecting", "connected"}
          /\ state[initiator] = "connected" => step[1] = "ready"

LaunchInv == TypeInv /\ ClientTypeInv /\ PageInv /\ EntryInv

\* Nobody has called the entry point.
LEMMA InitEntryInv == Init => EntryInv
  BY DEF Init, EntryInv

\* Before the entry point is called no client starts, listens or updates.
LEMMA Uncalled ==
  ASSUME ClientTypeInv, client = 0
  PROVE  /\ listening = {}
         /\ \A c \in Clients : step[c] = "none" /\ update[c] = 0
<1>1. 1..client = {}
  OBVIOUS
<1>2. \A c \in Clients : ~(c <= client)
  BY DEF Clients
<1> QED
  BY <1>1, <1>2 DEF ClientTypeInv

\* Whatever leaves the page as it is, and has no tag go back.
LEMMA SamePage ==
  ASSUME PageInv, UNCHANGED <<page, tags>> PROVE PageInv'
  BY DEF PageInv, page, tags

\* A visit that has called the entry point waits for nothing, and its tags are there.
LEMMA Called1 ==
  ASSUME LaunchInv, initiator # 0
  PROVE  /\ waits[initiator] = {} /\ initiator \in Mounts
         /\ \A s \in Scripts : tag[s].load = "loaded"
  BY DEF LaunchInv, EntryInv, PageInv

\* PageInv is inductive: a tag is loaded on behalf of one page, which waits for it.
LEMMA NextPage == LaunchInv /\ TypeInv' /\ [Next]_launcherVars => PageInv'
<1> SUFFICES ASSUME LaunchInv, TypeInv', [Next]_launcherVars PROVE PageInv'
  OBVIOUS
<1>1. TypeInv /\ PageInv /\ EntryInv /\ ClientTypeInv
  BY DEF LaunchInv
<1>2. 1 \in Mounts
  BY LauncherAssumption DEF Mounts
<1>3. CASE UNCHANGED launcherVars
  BY <1>1, <1>3, SamePage DEF launcherVars, window
<1>4. CASE Mount
  <2>1. /\ mounts' = mounts + 1 /\ mounted' = mounts' /\ mounts' \in Mounts
        /\ \A m \in Mounts : m # mounts' => state'[m] = state[m]
        /\ UNCHANGED <<waits, rejected, tag, cache>>
    BY <1>1, <1>4, LauncherAssumption DEF Mount, window, tags, TypeInv, Mounts
  <2>2. mounts \in Nat
    BY <1>1 DEF TypeInv
  <2>3. waits[mounts'] = {} /\ (mounts' = 1 => cache = {})
    BY <1>1, <2>1, <2>2 DEF PageInv
  <2>4. state'[1] \in {"retrieving", "retrieved"} => state'[1] = state[1]
    BY <1>1, <1>2, <1>4, <2>1 DEF Mount, TypeInv
  <2>5. /\ \A m \in Mounts : m > mounts' => waits'[m] = {}
        /\ \A m \in Mounts : waits'[m] # {} => state'[m] = "retrieving"
    BY <1>1, <2>1, <2>2, <2>3 DEF PageInv, Mounts
  <2>6. mounts' # 0 /\ (mounted' = 1 => cache' = {})
    BY <2>1, <2>2, <2>3
  <2> QED
    BY <1>1, <2>1, <2>4, <2>5, <2>6 DEF PageInv
<1>5. CASE Leave
  BY <1>1, <1>5 DEF Leave, window, tags, PageInv
<1>6. ASSUME NEW m \in Mounts, SessionLaunched(m) PROVE PageInv'
  <2>1. /\ m = mounted /\ state[m] = "launching"
        /\ state' = [state EXCEPT ![m] = "retrieving"]
        /\ waits' = [waits EXCEPT ![m] = Missing \cup {"config"}]
        /\ \A a \in Assets : tag'[a] = IF a \in Missing THEN [load |-> "loading", by |-> m]
                                                        ELSE tag[a]
        /\ cache' = cache \cup Missing /\ UNCHANGED <<mounted, mounts, rejected>>
    BY <1>6 DEF SessionLaunched, SetState
  <2>2. Missing = Assets \ cache /\ cache' = Assets
    BY <1>1, <2>1 DEF Missing, TypeInv
  <2>3. \A n \in Mounts : /\ waits'[n] = IF n = m THEN Missing \cup {"config"} ELSE waits[n]
                          /\ state'[n] = IF n = m THEN "retrieving" ELSE state[n]
    BY <1>1, <2>1 DEF TypeInv
  <2>4. mounts = m /\ mounts # 0
    BY <1>1, <2>1, LauncherAssumption DEF TypeInv, Mounts
  <2>5. "config" \notin Assets
    BY DEF Assets, Scripts
  <2>6. /\ \A n \in Mounts : n > mounts' => waits'[n] = {}
        /\ \A n \in Mounts : waits'[n] # {} => state'[n] = "retrieving"
    BY <1>1, <2>1, <2>3, <2>4 DEF PageInv, Mounts
  <2>7. \A n \in Mounts : \A a \in waits'[n] \cap Assets :
          tag'[a].load = "loading" /\ tag'[a].by = n
    <3> SUFFICES ASSUME NEW n \in Mounts, NEW a \in waits'[n] \cap Assets
                 PROVE  tag'[a].load = "loading" /\ tag'[a].by = n
      OBVIOUS
    <3>1. CASE n = m
      BY <3>1, <2>1, <2>3, <2>5
    <3>2. CASE n # m
      <4>1. tag[a].load = "loading" /\ tag[a].by = n
        BY <1>1, <2>3, <3>2 DEF PageInv
      <4>2. a \notin Missing
        BY <1>1, <2>2, <4>1 DEF PageInv
      <4> QED
        BY <2>1, <4>1, <4>2
    <3> QED
      BY <3>1, <3>2
  <2>8. state'[1] = "retrieving" => \A a \in Assets : tag'[a].load = "loaded"
                                                     \/ a \in waits'[1] \/ 1 \in rejected'
    <3>1. CASE m = 1
      <4>1. cache = {}
        BY <1>1, <2>1, <3>1 DEF PageInv
      <4> QED
        BY <1>2, <2>2, <2>3, <3>1, <4>1
    <3>2. CASE m # 1
      BY <1>1, <1>2, <2>1, <2>2, <2>3, <3>2 DEF PageInv
    <3> QED
      BY <3>1, <3>2
  <2>9. state'[1] = "retrieved" => \A a \in Assets : tag'[a].load = "loaded"
    BY <1>1, <1>2, <2>1, <2>2, <2>3 DEF PageInv
  <2>10. ~(mounted' = 1 /\ state'[1] = "launching")
    BY <1>2, <2>1, <2>3
  <2>11. \A a \in Assets : tag'[a].load = "loading" => a \in waits'[tag'[a].by]
    BY <1>1, <2>1, <2>3 DEF PageInv, TypeInv
  <2> QED
    BY <2>1, <2>2, <2>4, <2>6, <2>7, <2>8, <2>9, <2>10, <2>11 DEF PageInv
<1>7. ASSUME NEW m \in Mounts,
             SessionRefused(m) \/ Connect(m) \/ AlreadyConnected(m) \/ NoCloudCmd(m)
      PROVE  PageInv'
  <2>1. PICK s \in {"failed", "connecting", "connected", "crashed"} :
          /\ state[m] \in {"launching", "retrieved"} /\ state' = [state EXCEPT ![m] = s]
          /\ UNCHANGED <<mounted, mounts, waits, rejected, cache, tag>>
    BY <1>7 DEF SessionRefused, Connect, AlreadyConnected, NoCloudCmd, SetState,
                window, tags
  <2>2. \A n \in Mounts : state'[n] = IF n = m THEN s ELSE state[n]
    BY <1>1, <2>1 DEF TypeInv
  <2>3. \A n \in Mounts : waits'[n] # {} => state'[n] = "retrieving"
    BY <1>1, <2>1, <2>2 DEF PageInv
  <2>4. state'[1] \in {"launching", "retrieving", "retrieved"} => state'[1] = state[1]
    BY <1>2, <2>2
  <2> QED
    BY <1>1, <2>1, <2>3, <2>4 DEF PageInv
<1>8. ASSUME NEW m \in Mounts, ConfigLoads(m) PROVE PageInv'
  <2>1. "config" \notin Assets
    BY DEF Assets, Scripts
  <2>2. "config" \in waits[m] /\ Resolve(m, "config")
        /\ UNCHANGED <<mounted, mounts, rejected, cache, tag>>
    BY <1>8 DEF ConfigLoads, window, tags
  <2> QED
    BY <1>1, <2>1, <2>2, ResolveKeeps
<1>9. ASSUME NEW m \in Mounts, ConfigFails(m) PROVE PageInv'
  <2>1. "config" \notin Assets
    BY DEF Assets, Scripts
  <2>2. "config" \in waits[m] /\ Reject(m, "config")
        /\ UNCHANGED <<mounted, mounts, cache, tag>>
    BY <1>9 DEF ConfigFails, window, tags
  <2> QED
    BY <1>1, <2>1, <2>2, RejectKeeps
<1>10. ASSUME NEW a \in Assets, Load(a) PROVE PageInv'
  <2> DEFINE m == tag[a].by
  <2>1. tag[a].load = "loading" /\ m \in Mounts
    BY <1>1, <1>10 DEF Load, TagLoads, TagFails, TypeInv
  <2> HIDE DEF m
  <2>2. CASE a \in waits[m]
    <3>1. CASE TagLoads(a)
      <4>1. tag' = [tag EXCEPT ![a].load = "loaded"]
        BY <3>1 DEF TagLoads
      <4>2. /\ tag'[a].load = "loaded" /\ \A b \in Assets \ {a} : tag'[b] = tag[b]
        BY <1>1, <4>1, TagType DEF Stages
      <4>3. Resolve(m, a) /\ UNCHANGED <<mounted, mounts, rejected, cache>>
        BY <3>1 DEF TagLoads, m
      <4>4. tag[a].by = m
        BY DEF m
      <4> QED
        BY <1>1, <2>1, <2>2, <4>2, <4>3, <4>4, ResolveKeeps
    <3>2. CASE TagFails(a)
      <4>1. tag' = [tag EXCEPT ![a].load = "failed"]
        BY <3>2 DEF TagFails
      <4>2. /\ tag'[a].load = "failed" /\ \A b \in Assets \ {a} : tag'[b] = tag[b]
        BY <1>1, <4>1, TagType DEF Stages
      <4>3. Reject(m, a) /\ UNCHANGED <<mounted, mounts, cache>>
        BY <3>2 DEF TagFails, m
      <4>4. tag[a].by = m
        BY DEF m
      <4> QED
        BY <1>1, <2>1, <2>2, <4>2, <4>3, <4>4, RejectKeeps
    <3> QED
      BY <1>10, <3>1, <3>2 DEF Load
  <2>3. a \in waits[m]
    BY <1>1, <2>1 DEF PageInv, m
  <2> QED
    BY <2>2, <2>3
<1>11. ASSUME NEW c \in Clients, Starts(c) PROVE PageInv'
  <2>1. PICK s : Goes(c, s)
    BY <1>11 DEF Starts, Registers, PolyfillLoads, Loads, LoadFails
  <2>2. step[c] # "none"
    BY <1>11 DEF Starts, Registers, PolyfillLoads, Loads, LoadFails
  <2>3. initiator # 0
    BY <1>1, <2>2, Uncalled DEF EntryInv
  <2>4. waits[initiator] = {} /\ initiator \in Mounts
    BY <2>3, Called1
  <2>5. /\ state' = state \/ state' = [state EXCEPT ![initiator] = "connected"]
        /\ UNCHANGED <<mounted, mounts, waits, rejected, cache, tag>>
    BY <2>1 DEF Goes, SetState, tags
  <2>6. \A n \in Mounts : state'[n] = state[n] \/ (n = initiator /\ state'[n] = "connected")
    BY <1>1, <2>5 DEF TypeInv
  <2>7. \A n \in Mounts : waits'[n] # {} => state'[n] = "retrieving"
    BY <1>1, <2>4, <2>5, <2>6 DEF PageInv
  <2> QED
    BY <1>1, <1>2, <2>5, <2>6, <2>7 DEF PageInv
<1>12. ASSUME NEW c \in Clients, UpdateLoads(c) \/ UpdateFails(c) PROVE PageInv'
  BY <1>1, <1>12, SamePage DEF UpdateLoads, UpdateFails
<1>13. CASE UpdateFound
  BY <1>1, <1>13, SamePage DEF UpdateFound
<1> QED
  BY <1>3, <1>4, <1>5, <1>6, <1>7, <1>8, <1>9, <1>10, <1>11, <1>12, <1>13
     DEF Next, Progress

\* EntryInv is inductive: the entry point is called by one page, and the first client is
\* that page's.
LEMMA NextEntry == LaunchInv /\ TypeInv' /\ ClientTypeInv' /\ [Next]_launcherVars => EntryInv'
<1> SUFFICES ASSUME LaunchInv, TypeInv', ClientTypeInv', [Next]_launcherVars
             PROVE  EntryInv'
  OBVIOUS
<1>1. TypeInv /\ PageInv /\ EntryInv /\ ClientTypeInv
  BY DEF LaunchInv
<1>2. CASE UNCHANGED launcherVars
  BY <1>1, <1>2 DEF launcherVars, page, window, tags, start, EntryInv
<1>3. CASE Mount \/ Leave
  <2>1. /\ UNCHANGED <<tag, CloudCmd, initiator, client, step>>
        /\ \/ mounts' = mounts /\ state' = state
           \/ mounts' = mounts + 1 /\ state' = [state EXCEPT ![mounts'] = "launching"]
    BY <1>3 DEF Mount, Leave, window, tags, start
  <2>2. initiator # 0 => state'[initiator] = state[initiator] /\ initiator <= mounts'
    BY <1>1, <2>1, LauncherAssumption DEF TypeInv, EntryInv, Mounts
  <2> QED
    BY <1>1, <2>1, <2>2 DEF EntryInv
<1>4. ASSUME NEW m \in Mounts, SessionLaunched(m) PROVE EntryInv'
  <2>1. /\ state[m] = "launching" /\ state' = [state EXCEPT ![m] = "retrieving"]
        /\ UNCHANGED <<mounts, CloudCmd, initiator, client, step>>
        /\ \A a \in Assets \ Missing : tag'[a] = tag[a]
    BY <1>4 DEF SessionLaunched, SetState, start
  <2>2. \A s \in Scripts : tag[s].load = "loaded" => tag'[s] = tag[s]
    BY <1>1, <2>1 DEF PageInv, Missing, Assets
  <2>3. initiator # 0 => state'[initiator] = state[initiator]
    BY <1>1, <2>1 DEF EntryInv, TypeInv
  <2> QED
    BY <1>1, <2>1, <2>2, <2>3 DEF EntryInv
<1>5. ASSUME NEW m \in Mounts, SessionRefused(m) \/ AlreadyConnected(m) \/ NoCloudCmd(m)
      PROVE  EntryInv'
  <2>1. PICK s \in States :
          /\ state[m] \in {"launching", "retrieved"} /\ state' = [state EXCEPT ![m] = s]
          /\ UNCHANGED <<mounts, tag, CloudCmd, initiator, client, step>>
    BY <1>5 DEF SessionRefused, AlreadyConnected, NoCloudCmd, SetState, window, tags,
                start, States
  <2>2. initiator # 0 => state'[initiator] = state[initiator]
    BY <1>1, <2>1 DEF EntryInv, TypeInv
  <2> QED
    BY <1>1, <2>1, <2>2 DEF EntryInv
<1>6. ASSUME NEW m \in Mounts, Connect(m) PROVE EntryInv'
  <2>1. /\ m = mounted /\ CloudCmd = "function" /\ CloudCmd' = "object"
        /\ initiator' = m /\ client' = client + 1
        /\ state' = [state EXCEPT ![m] = "connecting"]
        /\ UNCHANGED <<mounts, tag>>
    BY <1>6 DEF Connect, Calls, Called, SetState, tags
  <2>2. state'[m] = "connecting" /\ m <= mounts /\ client' # 0
    BY <1>1, <2>1, LauncherAssumption DEF TypeInv, ClientTypeInv, Mounts
  <2>3. initiator' # 0
    BY <2>1, LauncherAssumption DEF Mounts
  <2> QED
    BY <1>1, <2>1, <2>2, <2>3 DEF EntryInv
<1>7. ASSUME NEW m \in Mounts, ConfigLoads(m) \/ ConfigFails(m) PROVE EntryInv'
  <2>1. /\ UNCHANGED <<mounts, tag, CloudCmd, initiator, client, step>>
        /\ state' = state \/ (waits[m] # {} /\ state' = [state EXCEPT ![m] = "retrieved"])
    BY <1>7 DEF ConfigLoads, ConfigFails, Resolve, Reject, SetState, window, tags, start
  <2>2. initiator # 0 => state'[initiator] = state[initiator]
    BY <1>1, <2>1, Called1 DEF EntryInv, TypeInv
  <2> QED
    BY <1>1, <2>1, <2>2 DEF EntryInv
<1>8. ASSUME NEW a \in Assets, Load(a) PROVE EntryInv'
  <2>1. PICK s \in {"loaded", "failed"} :
          /\ tag[a].load = "loading" /\ tag' = [tag EXCEPT ![a].load = s]
          /\ \/ CloudCmd' = CloudCmd
             \/ /\ a \in Scripts /\ CloudCmd' = "function"
                /\ \A t \in Scripts : tag'[t].load = "loaded"
          /\ UNCHANGED <<mounts, initiator, client, step>>
    BY <1>8 DEF Load, TagLoads, TagFails, start
  <2>2. \A b \in Assets \ {a} : tag'[b] = tag[b]
    BY <1>1, <2>1, TagType DEF Stages
  <2>3. \A t \in Scripts : tag[t].load = "loaded" => tag'[t].load = "loaded"
    BY <2>1, <2>2 DEF Assets
  <2>4. a \in waits[tag[a].by] /\ tag[a].by \in Mounts
    BY <1>1, <2>1 DEF PageInv, TypeInv
  <2>5. state' = state \/ state' = [state EXCEPT ![tag[a].by] = "retrieved"]
    BY <1>8 DEF Load, TagLoads, TagFails, Resolve, Reject, SetState
  <2>6. initiator # 0 => state'[initiator] = state[initiator]
    BY <1>1, <2>4, <2>5, Called1 DEF TypeInv
  <2>7. initiator # 0 => CloudCmd' = CloudCmd
    BY <2>1, Called1
  <2> QED
    BY <1>1, <2>1, <2>3, <2>6, <2>7 DEF EntryInv
<1>9. ASSUME NEW c \in Clients, Starts(c) PROVE EntryInv'
  <2>1. PICK s : /\ Goes(c, s)
                 /\ step[c] \in Steps \ {"none", "ready", "failed"}
    BY <1>9 DEF Starts, Registers, PolyfillLoads, Loads, LoadFails, Steps
  <2>2. initiator # 0
    BY <1>1, <2>1, Uncalled DEF EntryInv
  <2>3. /\ UNCHANGED <<mounts, tag, CloudCmd, initiator, client>>
        /\ step' = [step EXCEPT ![c] = s]
        /\ \/ state' = state
           \/ c = 1 /\ s = "ready" /\ state' = [state EXCEPT ![initiator] = "connected"]
    BY <2>1 DEF Goes, Connected, SetState, tags
  <2>4. 1 \in Clients /\ initiator \in Mounts
    BY <1>1, <2>2, LauncherAssumption DEF Clients, EntryInv
  <2>5. state'[initiator] \in {"connecting", "connected"}
    BY <1>1, <2>2, <2>3, <2>4 DEF EntryInv, TypeInv
  <2>6. state'[initiator] = "connected" => step'[1] = "ready"
    <3>1. CASE state' = state
      BY <1>1, <2>1, <2>2, <2>3, <2>4, <3>1 DEF EntryInv, ClientTypeInv
    <3>2. CASE c = 1 /\ s = "ready"
      BY <1>1, <2>3, <2>4, <3>2 DEF ClientTypeInv
    <3> QED
      BY <2>3, <3>1, <3>2
  <2> QED
    BY <1>1, <2>2, <2>3, <2>5, <2>6 DEF EntryInv
<1>10. ASSUME NEW c \in Clients, UpdateLoads(c) PROVE EntryInv'
  <2>1. /\ update[c] # 0 /\ CloudCmd' = "object" /\ client' = client + 1
        /\ step' = [step EXCEPT ![client'] = "register"]
        /\ UNCHANGED <<mounts, state, tag, initiator>>
    BY <1>10 DEF UpdateLoads, Calls, Called, page, tags
  <2>2. initiator # 0
    BY <1>1, <2>1, Uncalled DEF EntryInv
  <2>3. client' # 0 /\ client' # 1
    BY <1>1, <2>1, <2>2 DEF EntryInv, ClientTypeInv
  <2>4. step'[1] = step[1]
    BY <1>1, <2>1, <2>3 DEF ClientTypeInv
  <2> QED
    BY <1>1, <2>1, <2>2, <2>3, <2>4 DEF EntryInv
<1>11. ASSUME NEW c \in Clients, UpdateFails(c) PROVE EntryInv'
  BY <1>1, <1>11 DEF UpdateFails, page, tags, EntryInv
<1>12. CASE UpdateFound
  BY <1>1, <1>12 DEF UpdateFound, page, tags, EntryInv
<1> QED
  BY <1>2, <1>3, <1>4, <1>5, <1>6, <1>7, <1>8, <1>9, <1>10, <1>11, <1>12
     DEF Next, Progress

\* The whole invariant of pages and calls is inductive.
LEMMA NextLaunch == LaunchInv /\ [Next]_launcherVars => LaunchInv'
  BY NextTypeInv, NextClientType, NextPage, NextEntry DEF LaunchInv

\* It holds in every behaviour.
LEMMA Launched == Spec => []LaunchInv
<1>1. Init => LaunchInv
  BY InitTypeInv, InitPageInv, InitEntryInv DEF LaunchInv
<1> QED
  BY <1>1, NextLaunch, PTL DEF Spec

\* Every variable keeps its type, and what a page waits for is loading on its behalf.
THEOREM TypeCorrect == Spec => []LauncherTypeOK
<1>1. LaunchInv => LauncherTypeOK
  <2> SUFFICES ASSUME LaunchInv PROVE LauncherTypeOK
    OBVIOUS
  <2>1. TypeInv /\ ClientTypeInv /\ PageInv /\ EntryInv
    BY DEF LaunchInv
  <2>2. /\ mounted \in 0..mounts /\ mounts \in 0..MaxMounts
        /\ client \in 0..MaxClients /\ initiator \in 0..MaxMounts
    BY <2>1, LauncherAssumption DEF TypeInv, ClientTypeInv, EntryInv, Mounts
  <2>3. \A m \in Mounts : \A a \in waits[m] \cap Assets :
          tag[a] = [load |-> "loading", by |-> m]
    BY <2>1 DEF PageInv, TypeInv
  <2>4. /\ tag \in [Assets -> [load : {"none", "loading", "loaded", "failed"},
                               by : 0..MaxMounts]]
        /\ rejected \subseteq Mounts /\ cache \subseteq Assets
        /\ CloudCmd \in {"undefined", "function", "object"}
        /\ waits \in [Mounts -> SUBSET (Assets \cup {"config"})]
    BY <2>1 DEF TypeInv, Stages, MountNo
  <2>5. state \in [Mounts -> {"none", "launching", "retrieving", "retrieved",
                             "connecting", "connected", "failed", "crashed"}]
    BY <2>1 DEF TypeInv, States
  <2>6. /\ step \in [Clients -> {"none", "register", "polyfill", "modules", "name",
                                 "style", "ready", "failed"}]
        /\ on \in [Clients -> 0..MaxClients] /\ update \in [Clients -> 0..MaxClients]
        /\ keys \subseteq 1..client /\ listening \subseteq 1..client /\ crowded \in BOOLEAN
    BY <2>1 DEF ClientTypeInv, Steps
  <2> QED
    BY <2>2, <2>3, <2>4, <2>5, <2>6 DEF LauncherTypeOK
<1> QED
  BY Launched, <1>1, PTL

\* The first page finds what it retrieved, and the page that called the entry point is
\* connected to a client that is ready, whatever pages and updates came meanwhile.
THEOREM Hold == Spec => []StatesHold
<1>1. LaunchInv => StatesHold
  BY DEF LaunchInv, PageInv, EntryInv, StatesHold
<1> QED
  BY Launched, <1>1, PTL

\* One page at most calls the entry point, in every step of every behaviour.
THEOREM Once == Spec => InitialisedOnce
<1>1. LaunchInv /\ [Next]_launcherVars =>
        [initiator # 0 => initiator' = initiator]_launcherVars
  <2> SUFFICES ASSUME LaunchInv, Next, initiator # 0 PROVE initiator' = initiator
    OBVIOUS
  <2>1. CloudCmd = "object"
    BY DEF LaunchInv, EntryInv
  <2> QED
    BY <2>1 DEF Next, Progress, Load, Starts, Mount, Leave, SessionLaunched, SessionRefused,
         ConfigLoads, ConfigFails, Connect, AlreadyConnected, NoCloudCmd, TagLoads,
         TagFails, Registers, PolyfillLoads, Loads, LoadFails, Goes, UpdateFound,
         UpdateLoads, UpdateFails, window
<1> QED
  BY Launched, <1>1, PTL DEF Spec, InitialisedOnce

-----------------------------------------------------------------------------
\* Before the first crowd: one listener's update at a time, which remembers the client
\* of the moment, and only that client is still to bind its keys.
AloneInv ==
    ~crowded =>
        /\ keys \subseteq {client}
        /\ \A c \in Clients :
              /\ step[c] \in {"register", "polyfill"} =>
                    /\ c = client /\ \A d \in Clients : update[d] = 0
              /\ step[c] = "polyfill" => on[c] = client
              /\ update[c] # 0 => update[c] = client
        /\ \A c, d \in Clients : update[c] # 0 /\ update[d] # 0 => c = d

\* There are no clients.
LEMMA InitAloneInv == Init => AloneInv
  BY DEF Init, AloneInv

\* One listener at most.
LEMMA OneListener ==
  ASSUME ClientTypeInv, Cardinality(listening) <= 1,
         NEW c \in listening, NEW d \in listening
  PROVE  c = d
<1>1. IsFiniteSet(1..client)
  BY FS_Interval DEF ClientTypeInv
<1>2. IsFiniteSet(listening)
  BY <1>1, FS_Subset DEF ClientTypeInv
<1>3. IsFiniteSet(listening \ {c}) /\ Cardinality(listening \ {c}) = Cardinality(listening) - 1
  BY <1>2, FS_RemoveElement
<1>4. Cardinality(listening \ {c}) \in Nat /\ Cardinality(listening) \in Nat
  BY <1>2, <1>3, FS_CardinalityType
<1>5. Cardinality(listening \ {c}) = 0
  BY <1>3, <1>4
<1>6. listening \ {c} = {}
  BY <1>3, <1>5, FS_EmptySet
<1> QED
  BY <1>6

\* What a crowd was, it stays.
LEMMA CrowdStays == [Next]_launcherVars /\ crowded => crowded'
  BY DEF Next, Progress, Load, Starts, Mount, Leave, SessionLaunched, SessionRefused,
         ConfigLoads, ConfigFails, Connect, AlreadyConnected, NoCloudCmd, TagLoads,
         TagFails, Registers, PolyfillLoads, Loads, LoadFails, Goes, UpdateFound,
         UpdateLoads, UpdateFails, window, start, launcherVars

\* A client is made when no other is about to bind its keys and no key is bound.
LEMMA AloneCalls ==
  ASSUME ClientTypeInv, Calls, ~crowded, UNCHANGED <<on, crowded>>, client < MaxClients,
         keys' = {}, \A c \in Clients : step[c] \notin {"register", "polyfill"},
         \A c \in Clients : update'[c] = 0
  PROVE  AloneInv'
<1>1. client' = client + 1 /\ client' \in Clients
  BY LauncherAssumption DEF Calls, ClientTypeInv, Clients
<1>2. \A c \in Clients : step'[c] = IF c = client' THEN "register" ELSE step[c]
  BY <1>1 DEF Calls, ClientTypeInv
<1> QED
  BY <1>1, <1>2 DEF AloneInv

\* One action after the other; those of the pages leave the clients alone, but for the
\* first call.
LEMMA NextAloneInv == LaunchInv /\ AloneInv /\ [Next]_launcherVars => AloneInv'
<1> SUFFICES ASSUME LaunchInv, AloneInv, [Next]_launcherVars, ~crowded'
             PROVE  AloneInv'
  BY DEF AloneInv
<1>1. ~crowded /\ ClientTypeInv
  BY CrowdStays DEF LaunchInv
<1>2. ASSUME UNCHANGED client, UNCHANGED start PROVE AloneInv'
  BY <1>2 DEF start, AloneInv
<1>3. ASSUME NEW m \in Mounts, Connect(m) PROVE AloneInv'
  <2>1. client = 0
    BY <1>3 DEF Connect, LaunchInv, EntryInv
  <2>2. keys = {}
    BY <1>1, <2>1 DEF ClientTypeInv
  <2>3. \A c \in Clients : step[c] = "none" /\ update[c] = 0
    BY <1>1, <2>1 DEF ClientTypeInv, Clients
  <2> QED
    BY <1>1, <1>3, <2>2, <2>3, AloneCalls DEF Connect
<1>4. ASSUME NEW c \in Clients, UpdateLoads(c) PROVE AloneInv'
  <2>1. update[c] = client /\ keys \subseteq {client}
    BY <1>1, <1>4 DEF UpdateLoads, AloneInv
  <2>2. keys' = {}
    BY <1>4, <2>1 DEF UpdateLoads, Removed
  <2>3. \A d \in Clients : step[d] \notin {"register", "polyfill"}
    BY <1>1, <1>4 DEF UpdateLoads, AloneInv
  <2>4. \A d \in Clients : update'[d] = 0
    <3>1. \A d \in Clients : update[d] # 0 => d = c
      BY <1>1, <1>4 DEF UpdateLoads, AloneInv
    <3> QED
      BY <1>1, <1>4, <3>1 DEF UpdateLoads, ClientTypeInv
  <2> QED
    BY <1>1, <1>4, <2>2, <2>3, <2>4, AloneCalls DEF UpdateLoads
<1>5. ASSUME NEW c \in Clients, UpdateFails(c) PROVE AloneInv'
  <2>1. /\ \A d \in Clients : update'[d] = IF d = c THEN 0 ELSE update[d]
        /\ UNCHANGED <<client, step, on, keys, crowded>>
    BY <1>1, <1>5 DEF UpdateFails, ClientTypeInv
  <2> QED
    BY <1>1, <2>1 DEF AloneInv
<1>6. CASE UpdateFound
  <2>1. /\ Cardinality(listening) <= 1 /\ UNCHANGED <<client, step, on, keys>>
        /\ \A c \in Clients : step[c] \notin {"register", "polyfill"}
        /\ \A c \in Clients : update'[c] = IF c \in listening THEN client ELSE 0
    <3>1. IsFiniteSet(1..client) /\ listening \subseteq 1..client
      BY <1>1, FS_Interval DEF ClientTypeInv
    <3>2. Cardinality(listening) \in Nat
      BY <3>1, FS_Subset, FS_CardinalityType
    <3>3. /\ ~(Cardinality(listening) > 1)
          /\ \A c \in Clients : step[c] \notin {"register", "polyfill"}
      BY <1>6, Zenon DEF UpdateFound
    <3>4. UNCHANGED <<client, step, on, keys>>
      BY <1>6, Zenon DEF UpdateFound
    <3>5. update' = [c \in Clients |-> IF c \in listening THEN client ELSE 0]
      BY <1>6, Zenon DEF UpdateFound
    <3> QED
      BY <3>2, <3>3, <3>4, <3>5
  <2>2. \A c, d \in Clients : update'[c] # 0 /\ update'[d] # 0 => c = d
    BY <1>1, <2>1, OneListener
  <2> QED
    BY <1>1, <2>1, <2>2 DEF AloneInv
<1>7. ASSUME NEW c \in Clients, Starts(c) PROVE AloneInv'
  <2>1. PICK s : /\ step' = [step EXCEPT ![c] = s] /\ s \in Steps /\ s # "register"
                 /\ UNCHANGED <<client, update>>
    BY <1>7 DEF Starts, Registers, PolyfillLoads, Loads, LoadFails, Goes, Steps
  <2>2. \A d \in Clients : step'[d] = IF d = c THEN s ELSE step[d]
    BY <1>1, <2>1 DEF ClientTypeInv
  <2>3. CASE Registers(c)
    <3>1. c = client /\ \A d \in Clients : update[d] = 0
      BY <1>1, <2>3 DEF Registers, AloneInv
    <3>2. on' = [on EXCEPT ![c] = client] /\ keys' \subseteq {client}
      BY <1>1, <2>3 DEF Registers, BindsKeys, AloneInv
    <3>3. \A d \in Clients : on'[d] = IF d = c THEN client ELSE on[d]
      BY <1>1, <3>2 DEF ClientTypeInv
    <3> QED
      BY <1>1, <2>1, <2>2, <3>1, <3>2, <3>3 DEF AloneInv
  <2>4. CASE ~Registers(c)
    <3>1. keys' \subseteq {client} /\ UNCHANGED on /\ s # "polyfill"
      <4>1. CASE PolyfillLoads(c)
        <5>1. step'[c] = "modules" /\ c \in Clients
          BY <1>1, <4>1 DEF PolyfillLoads, Goes, ClientTypeInv
        <5> QED
          BY <1>1, <2>2, <4>1, <5>1 DEF PolyfillLoads, BindsKeys, AloneInv
      <4>2. CASE Loads(c) \/ LoadFails(c)
        <5>1. step'[c] # "polyfill" /\ UNCHANGED <<keys, on>>
          BY <1>1, <4>2 DEF Loads, LoadFails, Goes, ClientTypeInv
        <5> QED
          BY <1>1, <2>2, <5>1 DEF AloneInv
      <4> QED
        BY <1>7, <2>4, <4>1, <4>2 DEF Starts
    <3> QED
      BY <1>1, <2>1, <2>2, <3>1 DEF AloneInv
  <2> QED
    BY <2>3, <2>4
<1>8. ASSUME NEW m \in Mounts, Progress(m) PROVE AloneInv'
  <2>1. CASE Connect(m)
    BY <1>3, <2>1
  <2>2. CASE ~Connect(m)
    BY <1>2, <1>8, <2>2
       DEF Progress, SessionLaunched, SessionRefused, ConfigLoads, ConfigFails,
           AlreadyConnected, NoCloudCmd, window, start
  <2> QED
    BY <2>1, <2>2
<1>9. CASE Mount \/ Leave \/ (\E a \in Assets : Load(a)) \/ UNCHANGED launcherVars
  BY <1>2, <1>9 DEF Mount, Leave, Load, TagLoads, TagFails, window, start, launcherVars
<1> QED
  BY <1>4, <1>5, <1>6, <1>7, <1>8, <1>9 DEF Next

\* One client at most takes a key, until an update has two listeners or meets a client
\* that is still to bind its keys.
THEOREM KeysOfOne == Spec => []KeysOfOneClient
<1>1. Init => LaunchInv /\ AloneInv
  BY InitTypeInv, InitPageInv, InitEntryInv, InitAloneInv DEF LaunchInv
<1>2. LaunchInv /\ AloneInv /\ [Next]_launcherVars => (LaunchInv /\ AloneInv)'
  BY NextLaunch, NextAloneInv
<1>3. AloneInv => KeysOfOneClient
  <2> SUFFICES ASSUME AloneInv, ~crowded PROVE Cardinality(keys) <= 1
    BY DEF KeysOfOneClient
  <2>1. keys \subseteq {client} /\ IsFiniteSet({client}) /\ Cardinality({client}) = 1
    BY FS_Singleton DEF AloneInv
  <2> QED
    BY <2>1, FS_Subset
<1> QED
  BY <1>1, <1>2, <1>3, PTL DEF Spec
=============================================================================

# Flight File Manager in TLA+

A verification development kept beside the code of Flight File Manager: TLA+
models of its components, TLC runs of them on small instances, and TLAPS proofs
for every value of the constants. Paths are relative to the repository.

Check a module with `tlc -config X.cfg M`, its proofs with `tlapm M.tla`. The
runs, and which source lines each definition stands for, are in `PROJECT.json`.

## 1. The system

A user opens the page, which POSTs to the **API**; the API starts a **cloudcmd**
process under the user's uid and answers with a cookie; from then on the page,
and the cloudcmd client it loads, talk through the **proxy** to that process.

```
 browser:  React client -> cloudcmd client        one window = one JavaScript thread
     | POST/DELETE /cloudcmd      | every request below /backend/<user>/
     v                            v
   API (Puma, threads)         proxy (Go) --- reads ---+
     | fork, kill, wait           | user:password      |
     v                            v                    v
   backend: cloudcmd, one process per user --writes--> data_dir/<user>/cloudcmd.{port,...}
```

### Inventory

**API, session supervisor** (`src/api/app.rb`, `app/cloudcmd.rb`, `config.ru`).
*State:* per user the files `cloudcmd.pid`, `.port`, `.password` in
`data_dir/<user>`; the table `CloudCmd.instances`; the processes it forked.
*Operations:* POST (answer 500 for a broken session, reuse a running one, or
launch: prepare, write the password, fork, poll for the port file), DELETE (TERM,
clean up), the `at_exit` hook (TERM, wait, KILL, wait). *Hard:* Puma's threads
interleave at every system call and share the files and the right to `waitpid`;
a backend starts as slowly as NSS lets it and dies when it likes; the API itself
is killed and finds its predecessor's files; `kill` and `wait` raise what nobody
rescues. *Correct if:* a user has one backend and the files lead to it; the cookie
is good for it; every request is answered; a failed launch, a DELETE and an exit
leave nothing behind that was not signalled.

**Backend start** (`src/backend/src/main.js`): reads its password, listens on a
port the kernel picks, writes the port file. *Correct if* what the file says is
what listens, as far as the API can tell.

**Proxy** (`src/backend-proxy/main.go`) **and authentication**
(`cloudcmd/server/auth.js`). *State:* none but a request under way. The proxy
checks the origin, takes user and password from the cookie, reads the port file
and forwards; the backend compares both with its own. *Hard:* between file and
connection the backend may die and another take its port. *Correct if* no
request is served by a backend of another user, and a cookie stays good as long
as the backend lives.

**React client, session hook** (`src/client/src/useFileManager.js`, `utils.js`,
`cloudcmd/client/cloudcmd.js`). *State:* the hook's (launching, retrieving,
retrieved, connecting, connected, failed), the tags in the document, and
`window.CloudCmd`, which is a function until it is called and an object after.
*Hard:* a page is left at any moment, and its loads go on; the next mount meets
what they leave. *Correct if* each asset is loaded once, the entry point is called
once, and a state is what its comment says.

**cloudcmd client, file panel** (`client/client.js`, `client/dom/`). *State:* the
table of a directory, its current and selected files, `CurrentInfo`. *Operations:*
load a directory, refresh, go up, create, rename, delete. *Hard:* each has an
await in which other answers arrive and replace the table. *Correct if*
CurrentInfo is about the table on display, own changes show, an operation acts
on what the user saw.

**React client, toolbar** (`src/client/src/useFileManager.js`, `FIleToolbar.js`).
*State:* what the page has copied of `CurrentInfo` (directory, is it a file, is it
the root), and the timer in which it copies. *Operations:* the buttons, each a
function of the cloudcmd client, some of them disabled by that state. *Hard:* the
copy is made after the event, from whatever `CurrentInfo` has by then, and only if
there was one. *Correct if* the buttons offered are those the panel allows.

**cloudcmd client, keys and selection** (`client/key/`, `client/listeners/`).
*State:* cursor, selection, vim's unfinished command and visual mode, the names
found, the letters pressed. *Hard:* keys go on while a Space waits for a size or a
table is replaced. *Correct if* `..` is never worked on, each toggle counts once,
visual mode selects what it swept.

**cloudcmd client, clipboard and Operation** (`client/dom/buffer.js`,
`client/load-module.js`, `client/modules/operation/`). *State:* two keys of
localStorage, shared by windows; the module, which is a placeholder until it is
used; the socket it waits for. *Hard:* cut, copy and paste are several awaits
each; a paste may come while the module loads, and the load may fail. *Correct if* the buffer holds the
last cut or copy, files are moved once, a paste that empties the buffer does
something.

**cloudcmd client, editor** (`client/modules/edit-file.js`, `client/dom/`).
*State:* the text in the editor and whether it was changed, hashes and data in
localStorage, the file on the server. *Hard:* hash and data are read at different
times, the cursor moves while they are. *Correct if* what is shown is fresh, what
is saved goes to its file, what was typed is not lost.

**cloudcmd client, operations and uploads** (`client/modules/operation/`,
`client/dom/upload-files.js`, `directory.js`, `load.js`). *State:* of an operation its
prompts, its progress dialog, what was reported last, whether an error was; of
an upload the files not yet sent. *Hard:* progress, errors, both dialogs and the
end cross on the way; a `Continue` may be answered after 100 % was reported; the
session may be lost under way. *Correct if* the table read for what ended has its
last change, names are left out only on the user's word, and an operation that
the server listened to ends.

**cloudcmd client, windows and menus** (`client/modules/` view, edit, edit-names,
user-menu, help, upload, menu; `client/key/binder.js`). *State:* who has the keys,
the windows over one another, the one element of View, the one editor of both
editing modules. *Hard:* a window opens when what it shows has come, and the panel
goes on until then. *Correct if* the keys come back, a window shows the file it was
asked for, and names are applied to the files they were typed for.

**cloudcmd client, start** (`client/cloudcmd.js`, `client/client.js`,
`client/listeners/`). *State:* the client that `window.CloudCmd` is, the listeners
of keys and of updates. *Hard:* a new service worker makes the scripts load under
the page. *Correct if* each key is taken by one client.

**cloudcmd server, requests** (`server/rest/`, `server/route.js`, `config.js`,
`user-menu.js`, `markdown/`). *State:* none but the requests under way: the
middleware each has reached, the names its operation still has. *Hard:* each
await may fail, and an emitter may end after its error. *Correct if* every request
is answered, once, and success is reported only of what was done.

The parts that are switched off, unused or without state are in section 7.

### Interactions

Calls: client to API and, through the proxy, to the backend. Shared state: the
session files (API threads, backend, proxy), localStorage (windows of a user),
`CurrentInfo` and the table (everything in one window). Messages: answers to
requests, which arrive in any order, and the events of the sockets. Callbacks:
`at_exit` in the API, `beforeClose` in the editor, `current-file` in the panel.

## 2. Modules

| module | models | state and actions, and how they correspond |
| --- | --- | --- |
| `Session` | what the API promises: one session per user (abstract) | `stage` and `user` of each process: unused, starting, serving, ending, ended |
| `Supervisor` | the API, its exit hook, the start of a backend; implements `Session` | a thread is a request with a program counter, split where the code makes a system call; `pidFile`, `portFile`, `pwFile` are the files, `phase` the process table, `children` what `waitpid` knows, `group` who leads a group, which is what `kill(-sig)` reaches; `Stage` is the refinement mapping |
| `Gateway` | proxy, authentication, the browser's cookie jar; extends and composes with `Supervisor` | `hop` is one request with the steps Send, LookUpPort, Forward; `portOf` lets a port pass from a dead backend to another |
| `Launcher` | hook, asset loading, entry point, the client's start and its update by a service worker | `state`, `waits` per mount of the page; `cache`, `tag`, `CloudCmd` per window; `step`, `on`, `keys`, `listening` per client |
| `Panel` | panel, its directory requests, create, rename, delete, navigation (Enter, double click, the address, Back) | `loads` are the calls of loadDir, from sent over read (the server has read the directory) to rendered or failed; `alerted` is an error displayed since the table was rendered; `task` is the dialog, then its request |
| `Toolbar` | the React page around the panel; extends and composes with `Panel` | `page` is the copy of CurrentInfo, `told` a timer that is due; an operator per group of buttons; `Press` is what the buttons of the panel do, `Connect` the directory of the session |
| `Keyboard` | keys, clicks, vim, selection | one action per kind of key; `waiting` are the Spaces that wait for a size, `Render` a table that arrives |
| `Windows` | windows, menu, names editor, binder; extends and composes with `Keyboard` | `calls` are the shows under way, `windows` the modal's stack, `page` the element of View, `editor` the one of edit.js, `bound` is binder.js |
| `Clipboard` | buffer, module loading, socket set-up, Ctrl+D's clearing of the storage | `pc`, `data` per window: one access to localStorage or one answer at a time |
| `Transfers` | copy, move, delete, archives, uploads | `op` of a transfer is its place in the client's code, `worker` the server's part, `down` and `up` the messages between them; `refresh` is the reading of the panel that its end asked for; `unread`, `missed` and `told` are history: changes that the panel, or a read on its way, does not have, and what the user stopped |
| `Editor` | EditFile, getCurrentData, its store | `show` are the calls under way: hash, data, open |
| `Server` | the middleware of a backend: configuration, user menu, REST, pages | `at` is the middleware a request has reached or what it awaits, `answers` what was sent for it, `left` the names of its operation |
| `..._proofs` | theorems about the module of that name | |
| `MC...` | symmetry sets and values for TLC | |

A definition with "Mutant of" in its comment is a plausible bug; it is used by
nothing but the mutants of `PROJECT.json`, which show that the property is able to
fail.

Modelling decisions that matter:

* **Processes.** A pid stands for the process, its group and its port. A zombie
  remains a child until somebody waits for it; init reaps what is not a child. The
  child is its own group leader only after `setsid`, which is why a TERM to its
  group before that raises ESRCH (`Overdue`).
* **`running?`** is true of the very call that reaps the process, as `waitpid`
  returns the pid then; `RunningIsWaitpid` is the reading one would expect.
* **The directory asked for** (`?dir=`) is looked up once the status and the cookie of a
  POST are set. `dir_and_file` rescues ENOENT only: an unknown user, a file on the way or a
  loop of links answers 500, and as the handler of `StandardError` keeps the headers, the
  browser still gets the cookie of the backend, which goes on (`Found`).
* **Shutdown.** Puma runs the `at_exit` hooks once the requests it has accepted are
  answered, as `config/puma.rb` sets no `force_shutdown_after`; an API that is killed runs
  none (`SupervisorDies`).
* **Time** is a choice: a thread that sleeps either wakes in time or is overdue.
* **Directory listings** in `Panel` are sets of names; what is on the server is read
  at one moment and rendered at a later one. Any request may be lost or refused, before
  or after the server has done it, wholly or (a deletion) in part; the client takes each
  of these for an error, and shows it.
* **A text** in `Editor` is a file and a version, its hash is as good as the text.
* **Vim's command** in `Keyboard` is kept to three characters; nothing past the
  third has an effect. A user presses the keys of one *habit* (a set of at most a
  dozen), so that the state space is a sum over habits instead of their product.
* **A message** of fileop in `Transfers` is one of progress, 100, error and end one
  way, abort and continue the other; both ways keep their order. The worker is
  external: it takes names one by one, waits after an error, reports its end once.
  A move is asked for and done as a copy is, an extraction as packing is.
* **The end** of a transfer only asks for the panel (`AsksRefresh`): the server reads the
  directory later (`ReadDir`), other transfers may change it before the table comes
  (`missed`), tables come in any order (`ShowTable`), and any of these requests may fail
  with an alert (`RefreshFails`). The two panels of a copy are read by two requests, taken as
  one. That a copy awaits `Storage.remove` before it asks is no step of its own: the
  function is synchronous (`dom/storage.js:25`), so no message comes between.
* **The modal and the pop-up menu** in `Windows` are external: open and show call
  `beforeShow`, close and hide call `beforeClose`.
* **The emitters** in `Server` are external: they take a name at a time, report one
  error at most, and may or may not end after it.

## 3. Runs

| run | instance | shows |
| --- | --- | --- |
| `gateway` | 2 users, 2 requests to the API, 2 pids, 2 launches, 1 request through the proxy; `Serial`, prompt `setsid` | the API is one session per user (refinement); each can be found; what is given up is stopped, nothing is left at exit, and the hook waits only for what it signalled; served by one's own backend only; the cookie stays good |
| `answers` | 1 user, 2 overlapping requests, slow children, the API may be killed, pids come back | every request is answered (liveness) |
| `launcher` | 3 mounts, 2 clients, loads fail and race, updates at any moment | states mean what they say, initialised once, one client has the keys, connects unless rejected (liveness) |
| `panel_patient` | the root and 2 directories, 2 names, one request at a time, 1 change by others | info, cursor, own changes, no unasked replacement |
| `panel_hasty` | the page with its toolbar; the root and 1 directory, 1 file; 2 requests that race, or 1 with a dialog and its operation | types, CurrentInfo and buttons of the directory on display and of its current file, acting on what was seen |
| `keyboard` | 3 entries of which 1 a directory, 3 tables, 13 habits, 2 sizes awaited, 2 calls of show, 2 windows | selection, cursor, who has the keys, what is shown and renamed |
| `clipboard` | 2 windows, 2 directories, 4 calls | buffer, moves, pastes |
| `transfers` | 2 transfers of 1 or 2 names, of any kind; a lost session | asked for again at the end, and a table shown has the last change; names left out on the user's word only; operations end with a table or an alert (liveness) |
| `editor` | 2 files, 2 calls of show, 3 versions | freshness, right file, nothing lost |
| `server` | 2 requests of any method and path, 2 names | answers tell what was done, and come (liveness) |
| `overlap` | 1 user, 2 overlapping POSTs | **finding**: two backends |
| `panel_delete` | the root and 1 directory, 2 names | **finding**: deletes in another directory |

### Bounds, and why they are enough

* **Requests and users.** The files and processes of one user are touched by that
  user's requests and by the hook only, which goes over sessions one by one: two
  users are enough for the hook to meet one user's session while another's ends.
  Two threads are the least that interleave; a third of the same user would only
  repeat what one of them does between two steps of the other. For the properties
  with a theorem (section 5) the bound is of no consequence.
* **MaxLaunches**, **Pids**: two launches give one user a stale file and a fresh
  process, or two users a process each, one of which may take the port of the
  other's. Without `PidReuse`, a pid is used once.
* **MaxMounts** 3: one page whose loads go on, one that meets them, one that meets
  what the second left. **MaxClients** 2: the one that is replaced and the one that
  replaces it.
* **Slots** 2 in `Panel`: an answer overtakes another; in `Windows`: a window is asked
  for before another has come. **MaxWindows** 2: one lies over another.
  **MaxChanges** 1: the panel is stale.
* **MaxCalls** 4 in `Clipboard`: cut, cut or copy over it, and two pastes.
* **MaxNames** 2 in `Transfers`: a name that fails before another is done, and a
  percentage that is rounded to 100 before the last name. Transfers share only the
  session and the refresh: two are enough for one to read what the other changed.
* **MaxVersions** 3 in `Editor`: the original, one by another, one by the user, and
  one over that.
* **MaxWaiting** 2 and **MaxIndex** 3 in `Keyboard`: two sizes come in the wrong
  order; `n` goes past the ends of the names found.
* **Names** 2 in `Server`: an operation that fails has dealt with a name before. The
  requests share nothing; that there are two shows it.

Symmetry is used in invariants, and in the action property of `Panel` and the
refinement that do not tell the permuted values apart; the runs of liveness have
none. `answers` has a CONSTRAINT instead (`Serving`), which forks the
interchangeable pids in a fixed order, shuts the API down only when nobody waits
for an answer, and keeps one of the answers that differ in what no step looks at. That of `panel_hasty` (`OnlyLoadsRace`) lets two requests race over a panel
without dialog, operation and selection only; what it cuts off is proved (section 5). Its
VIEW leaves out the history `alerted`, which no guard reads and none of its properties is about.

### Toggles of Supervisor

`Overlap` (may a user have two requests in flight), `PromptSetsid` (is `setsid`
always reached before `launch_timeout`), `BackendsMayExit`, `SupervisorMayDie`,
`PidReuse`: each run says under which it holds. `gateway` assumes `Serial` (no
overlap, no death of the API, no reuse of pids) and a prompt `setsid`: without
the first, `overlap` shows the counterexample; without the second a launch that
times out before `setsid` answers 500 and leaves the child alive, its signal lost (a
hazard in `PROJECT.json`). `answers` switches all of them to the worse.

### Conditional properties

Some properties name the race they set aside, because the code loses it: the
history variables exist for that.

* `BufferHoldsLast` and `MovedOnce` set aside calls that overlap between windows;
  `PasteStartsOperation` what is pasted while the module is on its way (it has no copyFn
  yet, or a second load of the script covered the placeholder) and the pastes whose own
  load failed: show only logs that, and the buffer is cleared all the same.
* `OpensFresh` and `EditsKept` set aside a second F4 (and `OpensFresh` a storage that
  Ctrl+D clears meanwhile); `SavesOwnFile` a cursor that moved between F4 and the
  answer.
* `StatesHold` is about the first page of a window and the page that called the entry
  point: a later one takes tags that are still loading for loaded, and the object
  it finds for an initialised one. `KeysOfOneClient` sets aside a second update, and one
  found before the client has bound its keys. `ConnectsUnlessRejected` sets aside
  rejected promises, which nothing catches.
* `InfoMatchesPanel`, `OwnChangesShown`, `ReplacesOnlyAgreed` and `CursorKept` need the user to
  wait for each answer (`panel_patient`): a rename that comes back to another table leaves
  its own name in CurrentInfo. `OwnChangesShown` and `ReplacesOnlyAgreed` set aside an error
  that was displayed since the table was rendered: `ajaxLoad` leaves the old table when a
  directory cannot be read, and `renameCurrent` does not refresh when the answer is lost,
  so that the table is stale, and a rename may replace what it does not show. `PageFollows` sets aside a timer that is due.
* `ParentLeftAlone` sets aside a directory that has no file at all.
* `KeysComeBack` sets aside what opens over another window or the menu; `ViewShowsAsked` a
  cursor that moves before the answer, and another show that uses View's element;
  `NamesOfTheirFiles` a cursor, a selection or an editor that changed under the names.
* `OperationEnds` sets aside a session that is lost. `ChangesShown` is of transfers that
  came to their end, which an upload with a failed PUT does not. A refresh that fails (the
  user is told, the old table stays) and a table that an older answer has replaced
  (`overtaken`: two refreshes that cross) are set aside; `OperationEnds` counts either as
  an end.
* `RequestsAnswered` sets aside a download that fails on the way, which leaves its
  response open, and methods that `rest/index.js` and `markdown/index.js` have no case for; `AnswerTells`
  allows the second answer of an emitter that ends after its error.

### Deadlock

`keyboard` checks it. The others may stop: a shut down API, a user who does
nothing any more, the bound on launches, calls, visits or versions, transfers and
requests that are all done.

## 4. Fairness

*Supervisor* (`FairSpec`): weak fairness of each request's own steps (Puma runs
every thread), of the delivery of a signal and of the hook; strong fairness of
`Overdue`, because a thread that sleeps and looks again has a deadline which time
reaches whatever else it does in between (`cloudcmd.rb`, `launch_timeout`).
None for what a user does, for a backend's start or its exit: a backend may hang.

*Launcher*: weak fairness of each answer and load (a browser ends every request,
well or not), of the hook's effects and of the client's start; none for the user.

*Transfers* (`FairSpec`): weak fairness of what the server does for a transfer (the worker,
each PUT, the read of the panel or its failure), of the delivery of
messages, and of the answer to the error dialog, be it yes or no:
`OperationEnds` is about what happens to an operation once the user does answer.
None for prompts and aborts.

*Server*: weak fairness of what each request awaits (a promise, a stream or a worker
ends, well or not). That an emitter ends after its error is not assumed.

`gateway` checks steps only and has no fairness. Nor have the other runs, which have no
liveness property.

## 5. Proofs

Each theorem holds for every value of the constants; it is proved from the named
ASSUME of its module (finitely many requests, names that differ, bounds that are
natural numbers) and what is said here. Each proof has one step or lemma per
action. Every invariant and action property of the passing runs has a theorem;
what has none is liveness (at the end of this section).

**`Gateway_proofs`** (of `Supervisor` and `Gateway`)

* `TypeCorrect`: `TypeOK` under any toggles, through overlap, death, restart and reuse
  of pids. It is not inductive: a step that uses `owner[who[t]]` needs to know that
  a busy thread has a user and a forked process an owner, which `TypeInv` adds.
* `OneTrackedBackend` (`OneBackend /\ Tracked`) and `Implementation`
  (`ImplementsSession`), both under `Serial`. The argument is `SessionInv`: requests
  that are busy are of different users (`Exclusive`); the hook has the API for itself
  (`HookAlone`); a pid file names a process of its user (`PidFileOfUser`); a forked
  pid is known to its thread until it is in the file (`ChildKnown`); so what is
  unreaped is in the file or in a thread's hand (`ChildrenTracked`); between
  `running? = false` and the writing of the pid a launch therefore meets no
  unreaped process of its user but its own (`LaunchAlone`); and only the files of
  a reaped process are removed (`CleanupOfReaped`), or the next launch would miss
  a live one. The refinement then maps each action to a step of at most one
  session.
* `GivenUpStopped` (`GivenUpIsStopped`), `ShutdownStopsAll` (`ShutdownLeavesNone`) and
  `HookWaitsForSignalled` (`WaitEnds`), under `Serial` and `PromptSetsid`. `StopInv` adds to
  `SessionInv` that the files of a session lead to its latest process
  (`SessionsLead`, `PortFileOfLatest`), so that what is signalled is what is alive: after
  the kill of a DELETE or of a launch given up the user has no live process without
  a signal on its way (`StoppedByKill`), and those the hook has not signalled are of
  users it has still to deal with (`HookSignals`). It needs `PromptSetsid` where a launch
  is overdue: a TERM to a group that is not there yet raises ESRCH, and the process
  would be given up with no signal on its way. A 500 that gives nothing up, as the
  directory asked for could not be looked up, has the cookie of a backend that serves
  (`CookieAnswered`, with `PasswordRead`).
* `ServedByOwn` (`ServedByOwnBackend`) under `Serial`, on top of `Implementation`: as the
  API's steps are steps of sessions, a process keeps its owner once it is started,
  so that whoever answered a hop stays the backend of its user (`GatewayInv`, which is
  `SessionInv`, `JarInv` and `HopInv`).
* `CookieGood` (`CookieStaysGood`) under `Serial` and `PromptSetsid`. The property compares a
  jar with a process; `CookieInv` follows the password between them: a process that
  serves has read what is in its user's file (`PasswordRead`); as long as the user has a
  process that was not stopped, what is answered is that password (`CookieAnswered`), and
  once no request is pending, so is what the jar has (`CookieInJar`).
* `GatewayTypeCorrect` (`GatewayTypeOK`) under `Serial`: a hop has at least the fields its step
  reads. That a forward finds somebody at the port it looked up is not a matter of
  types: `PortInv` says that whoever has another's port has started to listen
  (`OwnPorts`), that the ports of two that listen differ (`DistinctPorts`), and that a hop
  is sent on only to a port that was read (`SentToPort`).

**`Panel_proofs`** (of `Panel` and `Toolbar`)

* `PanelTypeCorrect`, `InfoFollowsTable` (`InfoOfDirOnDisplay`), `ActsOnSeen`
  (`ActsOnWhatWasSeen`) for any user, from `PanelInv`. That the cursor is in the table
  needs every listing to have an entry, for which the assumption that the root has
  one nobody may remove (`Fixed`) is used, and a least one: `Min` and `Max` of a finite
  set of names are in it (`MinIn`, `MaxIn`, from the well-foundedness of the naturals).
  This is why `PanelAssumption` says that names are finitely many.
* `InfoIsOfPanel` (`InfoMatchesPanel`), `ShowsOwnChanges`, `AsksBeforeReplacing`, `CursorStays` and
  `DeletesPrompted`, under `Patient`. `PatientInv` adds that one thing is under way
  at a time (`OneAtATime`), that until its end the panel is as the dialog found it
  (`PanelAsSeen`), and that the table is fresh or will be, or an error was or will be
  displayed (`FreshSoon`). `DeletesPrompted` is
  the property that the run `panel_delete` refutes for a user who does not wait.
* `PageIsOfPanel` (`ToolbarSpec => Spec`): the page does to the panel only what the panel
  allows, so that all of the above is true of the page. `ToolbarTracks`
  (`ToolbarFollows`), for any user, from `PageInv` with `PanelInv`: a step that emits nothing
  leaves directory and current file (`Unheard`), and a timer reads a CurrentInfo that is
  of the directory on display. `PageTracks` (`PageFollows`) adds `InfoOfDirOnDisplay`
  to it.

**`Windows_proofs`** (of `Keyboard` and `Windows`)

* `ComeBack` (`KeysComeBack`) from `KeysInv`: two things over the panel are remembered by
  `over`. `NamesReachTheirs` (`NamesOfTheirFiles`) from `NamesInv`: which files the names in
  the editor were typed for.
* `ParentAlone` (`ParentLeftAlone`), `TakesSwept` (`VisualTakesSwept`), `CountsOnce`
  (`TogglesCountOnce`), all of which rest on `TableInv` (what table, cursor, selection and
  dialog have in common) and `CharsInv`. With these the first and the third are
  inductive; the second needs `SelectionInv`, that a sweep is known only while visual
  mode is on.
* `GoesRound` (`LetterGoesRound`) from `LetterInv`: after k presses of a letter from a known
  place the cursor is at the k-th of the matching files, counted round, and what the
  store has is that k. The proof needs facts on the n-th name of a finite set
  (`At` of a set and how many of it come before), which are lemmas of their own. In
  writing it we found that a click on another file does not reset the presses the
  store keeps: the next letter then goes on with the count, from wherever the click has
  put the cursor. The history variable `presses` therefore starts anew with such a click
  (`Clicked`), and one of the thirteen habits of the run `keyboard` clicks between letters.
* `ShowsAsked` (`ViewShowsAsked`) from `CallsInv` and `WindowsInv`: what a call has on its way
  to a window, and what the window has. `WindowsTypeCorrect` (`WindowsTypeOK`) needs `KeyboardInv`
  (among it that the command of vim has three characters at most and the index is one of the names
  found), `PageInv` (View's element has at most as many texts as calls were made) and
  `SwitchesInv`.

**`Clipboard_proofs`**: `TypeCorrect`; `HoldsLast` (`BufferHoldsLast`) from `TurnInv`, which says
for each place of a call what the keys hold while calls take turns; `PasteStarts`
(`PasteStartsOperation`) from `WaitInv`: each paste is a call of its own (`Unhanded`) and in one
place (`OnePlace`): started, waiting for a load under way, or lost with its load or before the
module was there. `MovesOnce` (`MovedOnce`) from `MoveInv`, which follows
every cut: what is being cut is in no other place yet (`CutIsNew`), and once it is
moved it is gone from the keys when the paste ends, and nobody whom the move concerns
is going to move it again (`MovedIsGone`).

**`Editor_proofs`**: `TypeCorrect`; `OwnFile` (`SavesOwnFile`) from `OwnInv`: while the cursor
stays, every text on its way belongs to the file it is on its way to; `Fresh`
(`OpensFresh`) and `Kept` (`EditsKept`) from `CountInv` and `AloneInv`: a call that nobody
disturbs is alone with the editor and the store, and what it brings is no older
than its key.

**`Launcher_proofs`**: `TypeCorrect` (`LauncherTypeOK`), `Hold` (`StatesHold`), `Once`
(`InitialisedOnce`) from `LaunchInv`: what the visits wait for and which tags load on
their behalf (`PageInv`), and where the one call of the entry point is (`EntryInv`).
`KeysOfOne` (`KeysOfOneClient`) from `AloneInv`: as long as it is not crowded, the clients
with a key listener are at most the one on display.

**`Server_proofs`**: `Tells` (`AnswerTells`) from `AnswerInv`: what was sent for a request depends
on its path, the place it has reached and what has failed, and on no other request.

**`Transfers_proofs`**: `TypeCorrect` (`TransfersTypeOK`), `Shown` (`ChangesShown`) and `LeavesOut`
(`LeavesOutOnlyWhenTold`), all from `Inductive`, which has two parts. `OpInv` is about one
transfer with the messages on their way. Before the end can be heard the operation
is settled: an error was noted or is on its way, or 100 is the last progress, so there
is always a callback (`Reports`). While the error dialog is open no
worker is at work, and one that waits has nothing more on its way, so that an abort
the user did not mean (100 was reported) finds no name left (`Replies`). `PanelInv` is about
the tables on their way: a transfer's is asked for exactly at its end, from which on it
changes nothing, so that its own read never misses it. The
properties themselves say nothing of messages or reads and are far from inductive.

Assumptions a theorem makes on the constants are those under which the run checks
its property: `Serial` and `PromptSetsid` of section 3, `Patient` of `Panel`. The other
theorems assume nothing beyond the ASSUME of their module.

Only model-checked: `EveryRequestAnswered`, `ConnectsUnlessRejected`, `OperationEnds` and
`RequestsAnswered`. They are liveness under fairness, which depends on ENABLED and is out
of the prover's reach. What a recursive function computes for every input would
need induction over data, which the installed provers cannot instantiate; the
models avoid it, and state what they need of sets of names by their order and
their cardinality.

## 6. Findings

* **Two POSTs of a user launch two backends** (`overlap`, `src/api/app.rb:165`): both
  find no session, both fork; the pid file keeps the second, and DELETE and the
  exit hook never find the first.
* **A deletion takes place in another directory** (`panel_delete`,
  `client/modules/operation/index.js:297`): the names are those of the prompt, the
  directory is the one on display when it is answered.

## 7. Not modelled, and why

* **Not in use**: the Ruby proxy (its line in `config.ru` is a comment); distribution,
  console, terminal, the configuration dialog and contact (off under Flight's
  options, `src/backend/src/main.js:72-86`); the second panel and Tab (`oneFilePanel`);
  the bar of function keys.
* **Read once or without state**: configuration and boot of the API, its answer to
  `/ping`, what `dir_and_file` finds (that it may raise is modelled), the client's caches of templates and configuration, whose
  entries do not change while a page lives.
* **Presentation**: rendering, the formatting of tables, dates, sizes and dialogs,
  sorting, images, scrolling, the moves through View's gallery.
* **Elsewhere**: fileop, philip, restafary, the modal, the menu, the editor, the copying
  and packing emitters. Of these only what the code relies on is in a model, marked
  external in `PROJECT.json`.
* **Left out of a modelled part**: the items of the menu that call other components'
  operations, what a user menu's script does, the texts of addresses and Back beyond
  the directory they name, what the service worker answers from its cache; the
  percentages of an upload and philip's walk of directories.
* **Build and packaging**: no behaviour of their own at run time; `cloudcmd.sh` is the
  child that a launch forks.

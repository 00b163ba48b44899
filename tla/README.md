# Daedalus Studio: a verification development in TLA+

Daedalus Studio is an Electron application: a main process (`src/src/main`), a
renderer (`src/src/renderer`) and a backend runtime that is a separate program,
not part of this repository. This directory holds TLA+ modules of the parts of
Studio whose correctness depends on the order of asynchronous steps, the TLC
configurations that check them on small instances, and proofs for every value
of the constants. `PROJECT.json` maps each definition to the lines it models.

Commands, in this directory:

    tlc -workers 2 -config SC_connection.cfg MCStudioConnection
    tlapm RpcClient_proofs.tla

## 1. The system

### 1.1 Parts that are modelled

| Part | State it keeps | Operations | Talks to |
| --- | --- | --- | --- |
| **WebSocket RPC client** (`backend-rpc-client.ts`, `reconnection-strategy.ts`) | connection state, socket, attempt counter, two timers, promises of `connect()`, pending requests | `connect`, `close`, `request`; handlers of open, error, close, message, connection timeout, reconnect timer | the backend, over one WebSocket at a time |
| **Shared connection** (`backend-client.ts`) | one client and one promise for the module, a negotiation of capabilities per client, the state the user sees | `createBackendClient`, `sendClientHello`, `updateClientCapabilities`, the connection and capability listeners | the RPC client; the main process for transport and capabilities |
| **Scheduled tasks** (`services/scheduled-tasks/`) | tasks and runs in two JSON files, a job chain `runTail`, one timer handle, one registered Windows task | IPC handlers, tools of the agent, `runDueTasks`, `runTask`, `reconcile`, reports of sessions and monitors | the backend (a run), Windows (a trigger), the renderer (reports) |
| **Flow editing** (`useHomeFlowController.ts`) | the document on the screen, undo and redo stacks | edits, grouping, undo, redo, commit | the outbox |
| **Flow operation outbox, renderer** (`domain/flow/flow-operation-outbox.ts`) | pending operations, a timer and a flush for each Flow, the saves in progress | `connect`, `disconnect`, `enqueue`, `flush`, `discard`, `rebase`, `hydrate`, `persist` | the main process by IPC, the backend through the committer |
| **Flow operation outbox, main** (`services/flow-operation-outbox.ts`) | a cached document, a debounced write, a chain of writes, a file | `load`, `replace`, the write timer | the disk |
| **Backend manager** (`backend-manager.ts`) | status, token, lease socket, health interval, restart timer, a shared recovery promise | `start`, `stopAndWait`, `restart`, `detach`, `forceStop`, `getReadyConnectionInfo`, the health check, the restart after a crash | the backend runtime (`runtime acquire`, shutdown, ping, lease) |
| **Computer control** (`computer-observation/`, `native/computer-observation/`) | setting, consent, access, control, observation, locks of the calls in progress, a generation | the tools of the agent, consent and resumption by the user, revocation, end of a turn, heartbeat, health check | a native helper, an overlay, the turns of a session |
| **Remote access** (`remote-access.ts`, `remote-gateway.ts`, `shutdown.ts`, `index.ts`) | enabled, ports, devices, the gateway, a pairing, a chain of writes, a file | `start`, `stop`, enable, disable, ports, pairing, revocation, before-quit | the devices of the local network, the disk, the end of the program |
| **Session navigation** (`features/session`, `workspace`, `workbench`, `composer`) | a navigation version, the active session, what is shown, the home, the draft | select, home, history, fork, context, images, pasted text, messages, the reconnection | the backend, over the shared connection |
| **Bootstrap, binary store, updater** (`backend-bootstrap.ts`, `backend-binary-store.ts`, `app-update.ts`) | `current.json`, `pending-update.json`, directories of versions | `prepare`, `repair`, `retryStart`, `installBackendUpdate`; activate, commit, rollback, sweep | the backend manager, the disk |

How they meet: the bootstrap installs a version and has the manager start it;
the manager hands connection details to the renderer; the shared connection
opens a client with them and says hello; the Flow controller commits through
the client what its outbox has pending; the outbox has the main process keep it
on disk. Scheduled tasks run beside all that in the main process and open a
connection of their own for each run. The navigation of sessions asks over the
shared connection, one request after the other. Computer control serves the
agent's turns from the main process, and the gateway of remote access forwards
to the same backend.

What makes them hard: every function is `async` and any two may interleave at
an `await`; timers fire between any two steps; the renderer, the main process,
the backend and the whole program may go away at any of them; state is read
before an `await` and used after it. There are no locks.

What makes each correct:

* RPC client: no request outlives its socket; a client is never left without
  a socket, a timer and a final answer; `close()` is final.
* Shared connection: who waits for an answer has a request pending; each caller
  gets an answer; what the backend holds as capabilities is the newest state;
  "connected" is shown for a greeted connection.
* Scheduled tasks: a timer covers the plan; no run is begun beside another that
  has not ended; a due task runs.
* Flow editing: what was merged means the same; undo and redo are inverse.
* Outbox: an edit is applied, or pending, or on disk, or its loss is explained;
  it arrives.
* Backend manager: a lease does not survive stop or detach; nobody waits for a
  recovery that is not going on; a lost backend comes back.
* Computer control: access comes from a consent that stands; input has a control;
  a control is shown and nothing is shown without one; no lock outlives its call.
* Remote access: no gateway that nobody can stop; the status is true; what is
  disabled is closed; a revoked device stays out.
* Navigation: the window ends where the user last asked to be; what is shown is
  what the connection has open; nothing strays into another session.
* Update: the marker names something that can be launched, or it is known what
  cost it that; a version that has not proven itself can be taken back.

### 1.2 Parts that are not modelled, and why

| Part | Reason |
| --- | --- |
| Composer queue and runs | React state over a queue the backend orders; `SessionNavigation` has a message up to its request |
| Workbench and run reducers | pure reducers of backend events, whose order and repetition the backend decides |
| Session layout and client preferences stores | serialised JSON stores with revisions, the same chain of writes as in remote access and the outbox |
| Integrated browser, automation, external browser bridge | mostly calls of Chromium and of another program; the automation's locks and the pairing are in section 9 |
| Terminal | a pseudo terminal per session: I/O |
| Workspace files, Godot projects, skills, media | stateless file operations |
| Widgets, settings pages, contracts, preload | presentation, types, one-to-one forwarding |
| Android remote control, build scripts | other programs, or not part of the running one |

## 2. Modules

| Module | Models | Checked by | Proved |
| --- | --- | --- | --- |
| `RpcClient` | the client and its reconnection | `rpc_client` | all its safety (`RpcClient_proofs`) |
| `StudioConnection` | the shared connection, an instance `R` of `RpcClient` inside | `connection`, `connection_settled` | that it implements `RpcClient`, what follows from that, that nobody awaits an answer in vain, that updates are ordered and the last one arrives (`StudioConnection_proofs`) |
| `ScheduledTasks` | service, store, timer, Windows trigger, reports of sessions | `tasks` | all its safety: types, no run beside one that has not ended, a timer for the plan (`ScheduledTasks_proofs`) |
| `FlowEdits` | what edits, merges, undo and redo mean | `edits` | all its safety: types, that merging keeps the meaning, that undo and redo are inverse (`Flow_proofs`) |
| `FlowOutbox` | how edits travel and survive | `outbox` | all its safety: types, that no edit vanishes, that the file follows (`Flow_proofs`) |
| `BackendManager` | the hold on the backend runtime | `manager_calls`, `manager_live` | all its safety: types, the lease after a stop, who waits for a recovery, what connection details come with (`BackendManager_proofs`) |
| `BackendUpdate` | bootstrap and updater over the files | `update` | all its safety: types, that what is unproven can be taken back, that the marker survives faults of one kind and is lost in known ways only (`BackendUpdate_proofs`) |
| `ComputerControl` | the agent's access to a window, the helper, the overlay | `control` | all its safety: the locks, the observation shown, consent, the overlay and input (`ComputerControl_proofs`) |
| `RemoteAccess` | the service, its gateways, the file, the quit | `remote` | all its safety (`RemoteAccess_proofs`) |
| `SessionNavigation` | the way of the window between sessions, and what is added on it | `navigation` | |

The modules `MC*` instantiate them for TLC: definitions of constants,
symmetry, and those of the restricted specifications that section 4 justifies
which no proof needs.

### 2.1 RpcClient

Every variable is a function of the client object, since the renderer may hold
several. `socket[c]` joins the browser's `readyState` with the events the
browser still owes: `"closing"` is a socket on which the client has called
`close()` (the connection timeout), `"detached"` one it has let go of
(`close()`), whose close event still comes. An action is one handler:
`Connect`, `FireReconnect`, `HandleOpen`, `HandleTimeout`, `HandleClose`,
`Close`, `Send`, `Receive`. `HandleCloseThenClose` and `ReceiveThenSend` are
handlers followed by what a promise reaction of the caller does in the same
turn of the event loop. `error` is followed by `close` for every socket, and
`handleError` only rejects what `handleClose` would: the two are one step.

### 2.2 StudioConnection

An action is one handler of `RpcClient` with the listeners and promise
reactions that run before the event loop takes the next task. A call of
`sendClientHello` occupies a slot of `Hellos` and stands at one of its awaits.
Capabilities are a version number: only their age matters. What the backend
knows (`known`, `greeted`) is external. `UsesRpcClient`, that is
`R!Init /\ [][R!Next]_rpcVars`, is the refinement: every step of the
composition is a step of `RpcClient` or leaves the clients alone.

### 2.3 ScheduledTasks

`worker` is the job `runTail` is at, with its phase between two awaits of
`runTask`; `jobs` are those behind it; `rec` are the calls of `reconcile()` in
progress. `timers` counts the armed timers for each time while `handle` is the
one `this.timer` knows: overlapping calls may arm more. An operation of the
store is one step (its own queue serialises them). Time is a clock that ticks;
a recurring task is due at every tick. A run on the backend (`QueueState`,
`Finish`, `StartupFails`) is seen from the service: queued, started, ended,
waiting for approval, failed. A report (`Reporters`) is two steps, since the
code awaits the store between them: `SessionReport` or `MonitorReport` finds a
run, `ReportWritten` changes it without another look. It names a session and no
run. A run on the backend has a session for the service only when it has ended
(`service.ts:277`), so in an existing session a report of a second run, or of
anybody who chats there, is taken for the first; nothing excludes that. `ended`
is history: the runs that have come to an end.

### 2.4 FlowEdits and FlowOutbox

Two views of one path. `FlowEdits` keeps the meaning of operations (a document
of nodes, each with a layout and a configuration) and abstracts the journey to
two steps, `Send` and `Commit`. `FlowOutbox` keeps the journey: IPC
messages in order, the debounced write, the chain of writes, the file, the
backend's answer, the controller that comes and goes. Its operation is an id,
the way it merges, and the set of edits it stands for, so that "no edit is
lost" can be said in spite of merging.

### 2.5 BackendManager

A method is cut at its awaits; what runs between two of them is one step on the
pair of the object's fields and the calls in progress, since settling
`connectionInfoPromise` resumes all that wait for it. `token` stands for
`authToken`, `connectionId` and `activeTarget`, which are set and cleared
together. `leaked` counts restart timers that `restartTimer` no longer names.
One event may resume several calls (all that await the lease, or the one
recovery), and what each does before its next await touches only its own entry
of `calls` and fields on which the order makes no difference. So a part of a
method (`To`, `Poll`, `Finish`, `Throw`, `Leased`) takes a set of calls.
`this.process` is never assigned in the code, so nothing is killed: a backend
goes down by an authenticated `backend.shutdown` or a crash.

### 2.6 BackendUpdate

Two processes, `boot` and `upd`, over three variables on disk. Every write or
removal of a file is a step, with the reads before it; a crash may come between
any two. `proc[p].goal` says what the step in progress is for, which is where
the code stands in its nested `try` blocks: `Throws` is the table of what each
of them does. `proven` and `lost` are history: the versions that have been found healthy while
they were current, and those that a commit or a failed self-test has removed.
`SelfTestFails` is an installed version that is complete and does not pass its
self-test: by then the staging directory is gone, the version is removed as if
it were damaged, and the rename has nothing to put in its place
(`backend-binary-store.ts:662`). `Sticks` is a removal that stops half-way, in
the commit, the rollback or the sweep. `prepare()` runs once at each start of the
application and again when a window asks for a connection; `status` tells the
two apart.

### 2.7 ComputerControl

`s` has the fields of `ComputerService`, `flows` its calls in progress, each at
one of its awaits; what runs between two awaits is a function of the whole state
(`Revoked`, `Paused`, `Finished`, `StartControl`, `Throw`), since one call may
unwind others. The generation is not a number: it is only compared for
equality, so `fresh` says of each call whether the one it captured is still the
present one; `latest` does the same for the observation an action refers to, and
`same` for the access a resumption, or the question a list of windows, captured.
`Quiet` gives promise reactions their precedence over other events. `link` is
the child process with the three requests that wait for nothing else; `native`
is the input controller of the helper, cut where `control.cpp` holds no lock.
`consent` is a history variable: what the user has granted to a turn and has
neither withdrawn nor seen end.

### 2.8 RemoteAccess

`calls` are the calls of the service, again with `fresh` for the generation, and
a slot of its own for the stop at quit. `gw` are the gateways, of which the
service knows one (`r.gateway`): `late` is a gateway that was stopped before it
listened. `writes` is `updateTail`, a queue of snapshots of the configuration;
`disk` is what a program started again will read, `Torn` after a crash inside
`writeFile`. `app` goes from the start, which the window waits for, through the
steps of `runShutdownSteps` to the exit. `issued` and `gone` are history: the
devices ever paired, and those whose revocation has returned.

### 2.9 SessionNavigation

A connection has one current session, the one opened or created on it last; a
patch of the workbench and a message go to it and name none. That is what makes
navigation hard: a handler that goes on after the user has gone elsewhere adds
to the wrong session. `ops` are the handlers, each at one await, with the
version and the session it captured. `link` has the requests and the answers, in
order, and the backend behind them, which is external. `wanted` is history: the
handler by which the user last asked to be somewhere. Contents are abstracted
to whether a session has additional context.

## 3. Runs

Twelve runs, each a question. "States" are the distinct states TLC finds.

| Run | Question | States |
| --- | --- | --- |
| `rpc_client` | Does any order of open, error, close, connection timeout, reconnect timer, `connect()`, `close()` and requests strand a client, open a second socket, leave a request behind its socket or reopen a closed client? Do lost connections and calls of `connect()` settle? | 729 |
| `connection` | Over two generations of the client, with refusals, failing transports and changes of capability: does each layer agree with the other on who awaits what, does the composition use its clients only as `RpcClient` allows, is every call of `createBackendClient` answered? | 448,000 |
| `connection_settled` | With the assumptions of section 4: has the backend the newest capabilities when all is quiet, and does an update never overwrite a newer one, over two generations of the client? | 586,000 |
| `tasks` | With overlapping `reconcile()` calls, jobs that are aborted half-way, a recurring reminder, a monitor in an existing session that runs by hand and by its schedule, reports and a request for approval that are taken for the newest run of the session, and a restart between any two steps: does a timer cover the plan, is no run begun beside one that has not ended, and is a due task run, paused or rescheduled while the program runs on? | 1,042,000 |
| `edits` | Does merging keep the meaning of what is pending, also with a batch in flight, and are undo and redo inverse? | 2,176,000 |
| `outbox` | With controllers that leave and return, a deletion elsewhere, a failed commit, fetch or write, and a crash anywhere: does no edit vanish unaccounted for, does the disk follow memory, does every edit arrive? | 393,000 |
| `manager_calls` | Two calls among `start`, `restart`, `getReadyConnectionInfo`, `stopAndWait`, with detach, crashes, lost requests, missing targets: is no lease left behind, do those who join a recovery wait for a live one? | 1,900,000 |
| `manager_live` | Does every call return or throw, and does a backend that is lost while only the health check watches come back with its lease? | 249,000 |
| `update` | With crashes between any two file operations, failing starts and installations, a directory that cannot be removed, an installed version that fails its self-test, repairs and retries: is an unproven version never current without its transaction, is the version the marker names never lost by crashes alone or failures alone, and otherwise only if a commit or a failed self-test had given it up, and does each start or request end with a healthy backend or an error that something in it explains? | 160,000 |
| `control` | With consents, full trust, pauses, resumptions, revocations, lost heartbeats, a helper that dies or fails and a user who takes over at any moment: is access backed by a consent that stands, does input have a control, is a control shown, does nothing stay on the screen or locked? | 192,000 |
| `remote` | With a disable or the quit overtaking a start at any await, failing writes, certificates and listeners, pairings and revocations, and a crash: is no gateway left that nobody can stop, is the status true, does what is disabled or revoked stay so? | 843,000 |
| `navigation` | With three handlers among selections, the home, the history, forks, additions and messages, and a reconnection: does the window end where the user last asked to be, with that session open, and does nothing reach another session than it was meant for? | 155,000 |

Why the bounds are enough:

* `rpc_client`, `connection`. Clients do not share state with each other except
  through the module variables of `backend-client.ts`, which hold one of them:
  two clients are the current generation and the one it replaces. Two requests
  are one that is in flight and one that a reaction to its answer sends.
  `MaxAttempts` 1 or 2 has a reconnection that succeeds and attempts that run
  out; the proofs hold for every bound.
* `connection`, `connection_settled`. Two hello slots hold a handshake that
  hangs at one of its awaits and the one of the next connection. One change of
  capability is enough for the waiting relations, two for an order of updates.
  A second client matters to the last change as well: one that comes while the
  successor of a lost client is being opened has nobody to be told to.
* `tasks`. Two slots for `reconcile()` are two overlapping calls, which is what
  leaves a timer nobody names. One job waits behind the one in progress. Two
  tasks and two operations on them give edit against run, run against delete, and a
  monitor that is run by hand and then by its schedule: its first run ends, and a
  report of the second is taken for it (two active runs are reached). One report in
  progress is overtaken by the end of the run it is about, and by its deletion. One
  restart, since nothing in memory survives one. `Bounded` has a restart or a
  request for approval, not both, and no overlap of `reconcile()` from then on.
* `edits`. Two nodes tell "merged with the last operation of this node" from
  "merged with the last operation". Six mutations fill a group, send a part
  of the stack, undo it and redo it. A history of two commands (100 in the code)
  loses its oldest one within them.
* `outbox`. A recovered edit and a new one are two operations that may merge,
  by key or by adjacency. Two mounts are a controller and its successor, one
  crash is one point at which all memory is lost. One failure beside the crash
  covers each `catch` block.
* `manager_calls`, `manager_live`. Two callers are one that started a recovery
  and one that joins it; the health check, the lease and the restart timer are
  processes beside them. `MaxAttempts` 3 in `manager_live` because every
  failed poll, crash and lost request may consume one: the code gives up after
  its limit, which is not what the run asks.
* `update`. Three versions are the one that runs, the bundled one and one that
  is offered. Two updates after one another give a transaction that meets the
  residue of an older one. Two crashes and two failures reach the recovery of a
  recovery; one removal that stops and one failed self-test, each in the middle of
  any of them.
* `control`. Three calls are one that holds a lock, one that is turned away or
  overtakes it, and the health check beside them; two turns are one that ends
  and the one that must not inherit what it had.
* `remote`. Two calls are one that starts a gateway and one that overtakes it,
  with the stop at quit as a third; two gateways are the one that was replaced
  and its successor; two devices are one that is revoked and one that is paired
  or connects meanwhile. One crash, as memory is lost whole.
* `navigation`. Two handlers that overlap and a third that adds something, or
  navigates away again; a session and a flow that can be selected, and another
  session to go to; up to three new ones, one for each handler. With four
  handlers and the same reconnection all three properties hold as well
  (2,460,000 states), with two reconnections `LastChoiceWins` does not
  (section 6).

`CHECK_DEADLOCK FALSE` appears where calls, crashes and changes are bounded: a
system nobody asks anything of rests. The runs
`manager_calls`, `control`, `remote` and `navigation` use symmetry: their calls,
gateways, devices, handlers and sessions of one kind differ by name alone, and
they check no liveness (`ReadyIsLeased`, `InputHasAuthority` and `NothingStrays`
are action properties).

## 4. Restricted specifications

Where a property holds only if the rest of the system behaves, a specification
says so, and section 6 says what happens otherwise.

* `SettledSpec` of `StudioConnection` (connection_settled, and its proofs):
  `PromptHello`, the local IPC call `getClientHello` answers before a reconnect
  delay of a second or more has passed and the next socket is open;
  `SettledChanges`, no capability changes while `connectBackendClient` runs, for
  the first client or for the successor of one that was lost; and the backend
  refuses nothing. `NewestUpdateWins` needs the first only (`PromptSpec`). The
  others are necessary (section 6: `SC_EarlyChange`, with either specification); it is not
  enough that a client has been shared before, since one that is lost for good is
  still named when its successor is opened.
* `BoundedSpec` of `MCScheduledTasks` (tasks) assumes nothing of what is
  reported or done: besides bounds (section 3) it has fairness until the program is
  restarted, and none from then on (section 6: `ST_stuck`).
* `GrowingSpec` (edits, and the proofs about `FlowEdits`): a node does not come back while a layout it had is
  pending, and an update that is merged with the previous one drops no key.
* `PatientSpec` of `FlowOutbox` (its proofs, and `PatientFairSpec` of the run):
  the first edit comes after the stored operations are loaded (`Patient`);
  otherwise section 6, `FO_early`. `OneFailure` and `RoomToReturn` of the run are
  bounds, not assumptions: one failure in a behaviour, and a controller leaves,
  or the program crashes, only while the bound on mounts still allows another.
* `AloneSpec` of `BackendUpdate` (update, and its proofs): bootstrap and updater
  do not run at once.
* `OrderlySpec` of `ComputerControl` (control, and the theorems of
  `ComputerControl_proofs` that name it): a turn does not end while full trust
  looks whether the window is still there or a resumption asks where it is, and
  the cancellation of a control is acknowledged before the next one starts. The properties `InputHasAuthority`, `LocksHaveOwners` and
  `FrameHasAccess` hold without it as well; for the others it is necessary
  (section 6: `CC_renewal`, `CC_orphan`, and the item after the table).
* `OrderlySpec` of `RemoteAccess` (remote): operations that start or stop a
  gateway do not overlap, but for a disable or the quit that overtakes a start;
  and the write of a disable succeeds. The settings page shows its
  switch as loading meanwhile (`RemoteAccessSettingsPage.tsx:208`), which is what
  the assumption rests on; the service has no such guard.
* `OrderlySpec` of `SessionNavigation` (navigation): some handlers go on after an
  await without asking whether the user has navigated (`Unguarded`: the list of
  the history and the home, the peek of a session, a fork, the home's message,
  the clearing before a message, the deletion of an empty temporary session, the
  opening of a restored draft, pasted text). These begin while connected, the
  reconnection does not come while one waits, and they meet no other handler that
  moves on nor anything still to be added; patches begin while connected. The
  handlers that do ask overlap in any way.
* `CanonicalSpec` (connection) and `CanonicalSettledSpec` (connection_settled)
  assume nothing more: of the fresh clients and the free
  hello slots it takes a fixed one, since which one is only a name.
* `AloneSpec` of `MCBackendManager`, `LayoutSpec`, `ConfigSpec`,
  `EarlyChangeSpec`, `SlowHelloSpec` select the behaviours of one disagreement
  of section 6: they leave out all other causes of it.

## 5. Fairness

Weak fairness, of single handlers or of the steps of one process, but for one
step of `ScheduledTasks`.

* `RpcClient`: the reconnect timer fires, and a socket that is opening or
  closing gets the event the browser owes it (or the connection timeout). An
  open socket need not close, the backend need not answer, nobody need call.
  So `ConnectSettles` and `LostConnectionResolves` rest on the browser alone.
* `StudioConnection`: as before, and IPC calls answer, and the backend answers
  a request or drops the connection. There is no timeout on a request in the
  code, so a backend that keeps a connection and never answers would keep a
  caller waiting for ever; the fairness excludes that backend and nothing else.
* `ScheduledTasks`: the event loop runs what is ready (the job at work and each
  slot of `reconcile()`), the backend gets on with a run it has taken, a timer
  that is due fires, one or another if several are, and an approval is given at
  some time. A report that has found its run is written: in the model it needs
  one of the slots for `reconcile()`, which are a bound and may be taken time and
  again, so its fairness is strong; the code has no such limit. `DueTaskRuns`
  promises nothing after a restart (section 6, `ST_stuck`), nor while an ended run
  awaits an approval that never comes (`Revived`): the approval may go to a newer
  run of the session (`ST_reports`).
* `FlowOutbox`: both event loops, the debounced timers, the backend (which
  applies or rejects what it is sent), and a controller is mounted again after
  the last has gone: the outbox sends nothing without one.
* `BackendManager`: timers fire, requests are answered or run into their
  timeout, promises resume.
* `ComputerControl`, `RemoteAccess`, `SessionNavigation` state no fairness: their
  properties are about what may never happen, and about what is true when
  nothing is under way.
* `BackendUpdate`: what was begun goes on, and each start of the application
  begins the bootstrap once (`index.ts:847`). After an error nothing obliges a user
  or a window to begin it again, so it may stay; `ComesUp` says that such an error
  is explained by something that went wrong since the bootstrap was begun, or by a
  marker that had been damaged before.

## 6. Where the code and its descriptions disagree

No run of `PROJECT.json` has a violation as its result. TLC finds each of the
following with the configuration named, which checks that one property.

| Configuration, module | Property | What happens | Said otherwise at |
| --- | --- | --- | --- |
| `SC_ghost`, MCStudioConnection | `ConnectedMeansGreeted` | `backend-client.ts:44`: the catch around `client.info`, meant for older backends, also takes the rejection of a lost connection; `notifyConnectionState("connected")` runs after `"disconnected"` | comment at `:146`, "Remote UI must not report a healthy Backend until client.hello also succeeds." |
| `SC_EarlyChange`, MCStudioConnection | `CapabilitiesCurrentWhenQuiet` | `backend-client.ts:99`: a change that comes before the first client is shared is dropped, and the handshake has already read the old snapshot | `computer-capabilities.test.ts:108`, "late updates cannot hide the latest capability" |
| `SC_EarlyChange` with SPECIFICATION `SlowHelloSpec`, MCStudioConnection | `CapabilitiesCurrentWhenQuiet` | `backend-client.ts:36`: a handshake that outlives its connection declares its old snapshot on the next one | comment at `:56` |
| `SC_shared`, MCStudioConnection | `OneSharedConnection` | `backend-client.ts:165`: `close()` in a handshake that failed clears the promise of its successor; two clients are open | comment at `:86`, "the shared Studio connection" |
| `ST_stuck`, MCScheduledTasks | `EveryDueTaskRuns` | `service.ts:83`, `:245`: a run that is active when the program ends stays so on disk, and every later occurrence of its task is passed over | `windows-scheduler.ts:21`, "Runs due Daedalus Studio scheduled tasks." |
| `ST_reports`, MCScheduledTasks | `EveryDueTaskRuns` | `service.ts:229`, `:247`, `:277`: the second run of a monitor in an existing session has no session for the service until it ends, so its request for approval, which is reported by session (`scheduled-task-tool-runtime.ts:27`), makes the first run, which has ended, await approval; the answer may then be taken for the newer run, and the older one keeps every later occurrence from running | `service.ts:237`, "This task needs your approval to continue." |
| `FE_layout`, MCFlowEdits | `CommittedIsShown` | outbox `:76`: a layout is merged into one from before the node was deleted and is lost with it | its test, `:43`, "commits only the final value" |
| `FE_config`, MCFlowEdits | `CommittedIsShown` | `:29`: merging two partial updates keeps a key that the second drops | comment at `:78`, "one semantic operation" |
| `FO_early`, MCFlowOutbox | `NoEditVanishes` | renderer outbox `:82`: an edit before the stored ones are loaded is persisted in their place; a crash then loses them | main `flow-operation-outbox.test.ts:18`, "keeps current-generation operations" |
| `FO_unsaved`, MCFlowOutbox | `PersistedBeforeSent` | `:141`: a batch is sent while the save of what it holds is still under way | renderer `flow-operation-outbox.test.ts:80`, "persists the pending batch before sending it" |
| `BM_watch`, MCBackendManager | `StopClearsHealthCheck` | `backend-manager.ts:282`: a stop during a start leaves the health check that the start arms later | `backend-manager.test.ts:96` |
| `BM_reset`, MCBackendManager | `StoppedIsDown` | `:746`: a crash during a stop lets the health check start what was stopped | `index.ts:112`, which clears the data after the stop |
| `BM_start`, MCBackendManager | `StartAcquires` | `:265`: a start after a failed one returns without having acquired anything | `backend-manager-update.test.ts:18` |
| `BU_prune`, MCBackendUpdate | `MarkerInstalled` | `backend-binary-store.ts:799`: after a crash and a failed start the sweep removes the version the marker names | `backend-binary-store.test.ts:141` |
| `BU_overlap`, MCBackendUpdate | `UnprovenIsPending` | `backend-bootstrap.ts:400`: bootstrap finishes the transaction of an update that is in progress | `backend-binary-store.test.ts:120` |
| `CC_renewal`, MCComputerControl | `ConsentBacksAccess` | `computer-service.ts:489`: a turn that ends while full trust validates the window gets its access after its end | `docs/windows-computer-observation.md:8`, "权限本身不跨轮次保留" (access is not kept across turns) |
| `CC_orphan`, MCComputerControl | `NoOrphanOverlay` | `:238`: a turn that ends while a resumption asks for the window leaves the overlay it then prepares on the screen | the same, `:9`, the end of a turn withdraws the grant |
| `RA_orphan`, MCRemoteAccess | `NoOrphanGateway` | `remote-access.ts:245`: two operations that start a gateway overlap, and the first gateway is forgotten | `remote-access.ts:139`, `stop()` |
| `RA_torn`, MCRemoteAccess | `WindowOpens` | `remote-access-store.ts:134`: after a crash in the write the file cannot be parsed, `start()` throws at `index.ts:829`, and no window is created at any later start | `index.ts:838` |
| `SN_stray`, MCSessionNavigation | `NothingStrays` | `useSessionForkController.ts:123`: context that is added to a session while its fork is under way reaches the fork | the rule for images, `docs/window-screenshot-context.md:5`: a request that cannot be withdrawn "不会写入切换后的会话" (is not written into the session switched to) |

More of the same kind, found with the unrestricted specifications and not given
a configuration of their own:

* Scheduled tasks, with `Spec` and a one-shot task. A manual run of a one-shot task consumes its
  occurrence (`store.ts:200`, against `scheduled-tasks.test.ts:15`): `OnceKeptUntilDue` fails.
  Two calls of `reconcile()` that overlap register with Windows in the opposite
  order of their reads, and Windows keeps the older time (`service.ts:307`,
  against `windows-scheduler.ts:21`).
* Update. A directory that is only half removed stays for a version to go back to
  (`backend-binary-store.ts:793`, against its test at `:154`; `MarkerInstalled`
  fails as in `BU_prune`, by a failing removal in the place of a crash). A repair
  that finds the bundled version installed and complete, and whose one self-test
  fails, removes the version the marker names and leaves none
  (`backend-binary-store.ts:666`, whose comment at `:671` says "Replace only a
  payload that failed full validation"). `MarkerSurvivesFaults` counts both
  as what they are.
* Remote access, with `Spec` as in `RA_orphan`. If the write of a disable fails,
  it throws before the gateway is stopped, which goes on serving while the
  setting shows off (`remote-access.ts:185`, `DisabledIsClosed`). Of two starts
  that overlap, the one that fails forgets the gateway of the other, and the
  revocation of a device does not reach its connection (`:254`, `RevokedIsGone`).
* Computer control. `acknowledgeControl()` of a cancelled control closes the
  overlay that the next start has just prepared (`ControlIsShown`). A decision or
  a start for full trust that fails late revokes what the next turn was given.
  `setControlEnabled(false)` during a start for full trust leaves control running.
* Navigation. The history opens a flow to learn what it is before it changes the
  version (`useSessionNavigationController.ts:119`), so an image whose save is
  answered then is attached to the flow. Pasted text goes to the session that is
  active when its save is answered (`useWorkspaceContextController.ts:112`), a
  message to the one opened while it awaited the flush. The home's message
  (`useHomeComposerController.ts:165`), a fork, and a selection that first
  deletes an empty temporary session take the window away from wherever the user
  has gone meanwhile; so does the first message of a restored draft
  (`useTemporarySessionController.ts:213`). With two reconnections, the second
  restores the home over a temporary session whose first message was lost with
  the connection. What is added while disconnected lands in the session selected
  before the reconnection.

## 7. Proofs

Each theorem holds for every value of the constants that satisfies the named
assumptions of its module; the runs check the same formulas on an instance
(but for the types, which the invariants of the proofs contain and no run lists).

| Module | Theorem | Says |
| --- | --- | --- |
| `RpcClient_proofs` | `TypeCorrect` | `Spec => []TypeOK`, with the attempt counter within its limit |
| | `PendingSafe` | `Spec => []PendingOnlyWhenOpen` |
| | `NobodyStranded` | `Spec => []NeverStranded` |
| | `NoSecondSocket` | `Spec => []TimerMeansNoSocket` |
| | `ClosingIsFinal` | `Spec => ClosedIsFinal`, an action property |
| `StudioConnection_proofs` | `ImplementsRpcClient` | `Spec => UsesRpcClient`, the refinement |
| | `ClientsAreSafe` | the three invariants above hold of the clients in the composition |
| | `NobodyAwaitsInVain` | `Spec => []AwaitedIsPending` |
| | `UpdatesAreOrdered` | `PromptSpec => NewestUpdateWins`, an action property |
| | `LastChangeArrives` | `SettledSpec => []CapabilitiesCurrentWhenQuiet` |
| `BackendUpdate_proofs` | `TypeCorrect` | `AloneSpec => []TypeOK` |
| | `UnprovenCanGoBack` | `AloneSpec => []UnprovenIsPending` |
| | `GoesBackToProven` | `AloneSpec => []PreviousProven` |
| | `MarkerStaysInstalled` | `AloneSpec => []MarkerSurvivesFaults` |
| `ScheduledTasks_proofs` | `TypeCorrect` | `Spec => []TypeOK` |
| | `TimerForPlan` | `Spec => []TimerCoversPlan` |
| | `NoSecondRun` | `Spec => []SingleActiveRun` |
| `RemoteAccess_proofs` | `TypeCorrect` | `OrderlySpec => []TypeOK` |
| | `NoGatewayIsLost` | `OrderlySpec => []NoOrphanGateway` |
| | `StatusTellsTheTruth` | `OrderlySpec => []StatusIsTrue` |
| | `OffMeansClosed` | `OrderlySpec => []DisabledIsClosed` |
| | `RevokedForGood` | `OrderlySpec => []RevokedIsGone` |
| `ComputerControl_proofs` | `TypeCorrect` | `Spec => []TypeOK` |
| | `NoLockIsLeftBehind` | `Spec => []LocksHaveOwners` |
| | `NoFrameWithoutAccess` | `Spec => []FrameHasAccess` |
| | `NoAccessWithoutConsent` | `OrderlySpec => []ConsentBacksAccess` |
| | `ControlIsSeen` | `OrderlySpec => []ControlIsShown` |
| | `OverlayGoesAway` | `OrderlySpec => []NoOrphanOverlay` |
| | `InputIsAuthorized` | `Spec => InputHasAuthority` |
| `BackendManager_proofs` | `TypeCorrect` | `Spec => []TypeOK`, with the count of restarts within its limit |
| | `NothingIsLeased` | `Spec => []NoLeaseAfterStop` |
| | `NobodyJoinsInVain` | `Spec => []JoinedAreServed` |
| | `DetailsComeLeased` | `Spec => ReadyIsLeased`, an action property |
| `Flow_proofs` | `TypeCorrect` | `PatientSpec => []TypeOK`, with ids and keys of a queue of their own |
| | `NoEditIsLost` | `PatientSpec => []NoEditVanishes` |
| | `DiskIsCurrent` | `PatientSpec => []DiskFollowsMemory` |
| | `EditorTypeCorrect` | `GrowingSpec => []EditorTypeOK` |
| | `MergingKeepsMeaning` | `GrowingSpec => []MergedMeansTheSame` |
| | `HistoryIsReversible` | `GrowingSpec => []UndoThenRedo` |

**RpcClient.** Assumption: `MaxAttemptsAssumption`, that `maxAttempts` is a
natural number above zero, as the defaults of `reconnection-strategy.ts` have it.
The inductive invariant `IInv` is the four invariants with `ClosedHasNoSocket`
and `TimerHasAttempts`. The four alone are not inductive. A reconnect timer
opens a socket, so it must be known that it is armed only where none is
(`TimerMeansNoSocket`) and that the client has not been closed
(`ClosedHasNoSocket`, which `ClosingIsFinal` needs as well); and a timer that
fires counts an attempt, so it must be known that one was left when it was
armed (`TimerHasAttempts`), or the counter could pass its limit. There is one
lemma for each handler.

**StudioConnection.** Assumptions: `BoundsAssumption`, needed only for
`MaxAttemptsAssumption` of its clients, and `NamesAssumption`, that the chain of
updates and `null` have names of their own. That each step is one of `RpcClient` needs little beyond
the actions themselves: that the answer a handshake awaits is one of a client,
and that `close()` after a failed handshake meets a client on which `connect()`
was called. Both follow from `HelloAfterOpen`: a handshake in progress belongs
to a client that has been open, and no handler makes a client forget that
(`OnceStays`). Given the refinement, `ClientsAreSafe` takes `InitIInv` and
`NextIInv` from an instance of `RpcClient_proofs` and proves nothing again.
`AwaitedIsPending` is of no single layer: who awaits is state of the shared
connection, what is pending is state of the client. `Agree` says it one request
at a time, in both directions, and `AgreeInv` joins to it what the client
guarantees (`PendingOnLiveSocket`): a socket that is not open has nothing
pending, hence nobody awaiting, so a handler that drops the pending requests of
a socket need not look for other waiters than those it rejects.
`NewestUpdateWins` takes `Serial`. Several handshakes of one client may be in
progress, since those of a lost connection still wait for local answers; but one
of them at most is current (`OneCurrent`), only that one asks the backend
anything (`NoStaleRequest`, where `PromptHello` comes in: a handshake whose
`getClientHello` answers late does not look again whether it is current), and the chain
waits behind it (`ChainWaits`). What is on its way is then no older than what the
backend holds when it is sent (`NothingOlder`), and nothing passes it.
`CapabilitiesCurrentWhenQuiet` says nothing while something is in progress, so
`Latest` says what makes it true at the end: a client that is shared, or will be,
has the newest version or something that will bring it, a link of the chain that
is queued or has read the present version, or the current handshake (`Coming`).
`FirstIsAwaited` ties a first handshake to the client `connectBackendClient`
waits for, so nothing becomes shared that `Latest` has not covered before.

**BackendUpdate.** Assumption: `UpdateAssumption`, versions are natural numbers
above zero and the bundled one is a version. That `UnprovenIsPending` holds at
one file operation depends on the goal for which the process has come there, so
the invariant (`Prepared`) says for each step what it may rely on: while
a version is placed, while a transaction is committed, rolled back or closed, the
marker names nothing or a version found healthy; a start that belongs to a
commit launches what the marker names. `PreviousProven` closes the
circle: what a rollback puts into the marker is what was there when the
candidate was activated, which was healthy then. `AloneSpec` is necessary:
without it `BU_overlap` (section 6) is a counterexample.
`MarkerSurvivesFaults` has two parts. One says that the marker names an installed
version when no removal stops half-way, no self-test fails and no transaction is
rolled back after a crash. Each premise is needed: section 6 shows what one such
removal, one failing self-test, or two faults together (`BU_prune`) do to the
marker. The invariant `WholeInv` says when the version to go back to may be
missing: only while the transaction belongs to the version that is current,
which without a crash means that the process about to close the transaction is
running, and never on the way of a rollback. `OnPath` is what each process knows
of marker and transaction where it stands.
The other part, `LossIsExplained`, allows all of these faults in any number.
`LossInv` says it of the version a transaction would go back to as well, since a
rollback makes that one current; with `OnPath`, a drop and a sweep spare what is
or will be current, so what is missing there was in `lost` before. `lost` forgets a version that is
installed again (`Loses`), so an old loss explains no new one.

**ScheduledTasks.** Assumptions: `TasksAssumption`, there is a task and a slot
for `reconcile()`, and tasks are finitely many; `KindAssumption` and
`BoundsAssumption` give constants their types. Overlapping calls of
`reconcile()` may each have armed a timer, one of them known to the service, and
any may run first. `CoverInv` says where the cover comes from while it is being
renewed: a timer that is armed early enough, a call that has yet to read the
plan, one that is about to arm a timer for what it has read, a job for due tasks
that is queued (`InSight`), or the job at work, which will call `reconcile()`
(`WorkerReconciles`). The last needs that the job is not ended by an error,
so the task and the run it is about to write must still exist (`Sound`), which
is what a deletion of a task in the middle of its run could break; a deletion
calls `reconcile()` itself. A recurring task is planned no later than the next
tick (`RecursSoon`), so replanning it never leaves the timer behind.
A report that is about to write must not begin a run: `Reporting` says that it has
found one with a session, which a run has only when the backend is done with it, and
that it writes no status of a run at work; `Remembered` says what `ended` holds of the
store. `BaseInv` joins both to the types, and `SingleActiveRun` rests on it, with no
assumption on what is reported. `NoneActive` says that a job about to append a run has
found the task without an active one that has not ended, and nothing between makes
one active; `EndedRest` that a run that has ended may only come to await approval
again.

**RemoteAccess.** Assumptions: finitely many calls, the stop at quit is a slot
of its own, and `None` is no call, gateway or device. `OrderlySpec` is
necessary (`RA_orphan`). Of two calls that overlap one is a disable or the quit
(`Apart`); the invariant says what the overtaken one may still do when it
resumes. `Gates` ties each gateway that listens, or will, to the service or to
the call that awaits it; a call whose generation has passed gives up what it
opened, so `Relies` distinguishes at each await of `startGateway()` whether it is
fresh. `Truth` and `ShutOff` say the same of the status and of the switch: with
remote access off, whoever still may bring a gateway has a disable behind it in
`updateTail`, and `Queue` says that it is behind. `Revocations` follows a device
that was revoked through memory, the writes on their way and the disk, since a
write of an older configuration that lands later would bring it back: from the
first write of the revocation on no later one has it.

**ComputerControl.** Assumptions: finitely many calls; `None` is no call, grant or
control; at least one turn. No order of events is assumed. One call that throws may
revoke, and a revocation stops the helper, which makes other calls throw; so
the invariant `Good(w, h, t)` speaks of any state `w` that the service passes
through, in turn `t`, with the call `h` taken up and between two of its awaits.
Each operator the model is built from has a lemma that it leads from `Good` to
`Good`, and the end of a step hands the call back (`HandBack`) under what
`Fits` demands of the await at which it is left. `Owned` is `LocksHaveOwners` made
inductive: a resumption that holds `busy` holds `resuming` as well, and a call
that waits for the readiness of the helper holds neither `busy` nor `trusted`.
`Accessed` is what publishes an observation: a call of the observation
tool that nothing has overtaken has the access of the present turn, and while one
is in progress no call is about to ask for another access; a resumption that
finds the access it captured unchanged (`same`) has it. The comparison of the generation
does not suffice there: the code compares the access as well
(`computer-service.ts:305`), and with three turns
`FrameHasAccess` fails in a model without that comparison.

Consent and the overlay are proved on top of that, under `OrderlySpec`, with
`Sound(w)`, again of every state `w` passed through. `Consented` looks ahead of
the access: a call of full trust, or the one that carries out a decision, is
`Entitled` to what it asks for as long as nothing has overtaken it, by the
decision that is pending or by holding `trusted`. `Shown` looks ahead of the
control: a call that may set it running without another look at the overlay
(`Nears`) finds the overlay open, and losing the overlay overtakes the call.
`Wanted` looks back from an overlay on the screen to the control it is there for,
or to the call that prepares it (`Puts`), whose end leaves a control or
clears the screen. Most steps grant nothing and show nothing, and one lemma (`LessSound`) serves
them all. The assumptions of `OrderlySpec` are used at two steps only,
the end of a turn and the acknowledgement of a cancelled control.

`InputHasAuthority` is an action property and needs no such assumption. What the
helper is asked to do may be overtaken while it does it, and the helper learns
of that only with the pause or the stop that the service sends. So the invariant
`Guarded(w, t)` speaks of the time an action has been sent and not yet carried
out (`Backed`): as long as input is on in the helper, the action is the latest
and the control runs with an access for control, or a pause or a stop is on its
way. `Cold` keeps a request of an earlier helper from meeting the input of a later
one: input is off in a helper that is not up, and while a call still waits for
it. `Timely` ties the turns together: a call that waits for the readiness of the
helper and has not been overtaken is of the turn that runs, and of an action
past that wait and an access for control either one is (so an end of the turn
that finds neither leaves nothing behind). Input goes on in one step only
(`NativeActivates`); there `OneRequest` of `Good` says that no action is with the
helper, since `control.start` is.

**BackendManager.** Assumption: `BackendAssumption`, that there are finitely many
calls and restart timers, that these and `Nobody` are distinct, and that the
bounds are natural numbers. No order of events is assumed: the theorems are of
`Spec`. A step passes through several parts of methods, and in between the calls
it is about are nowhere. So `Mid(w, K)` says what holds of any pair `w` of fields
and calls that a step passes through while it still has the calls `K` in hand:
the owner of the one recovery is in `K` or at one of its awaits, whoever has
joined has an owner to wait for (`Owned`), and a lease goes with the token
(`Tokened`). Each part of a method has a lemma that it leads from `Mid` with `L` to
`Mid` with `L` less the calls it disposes of, and at the end of a step the set
is empty. `Free`, which is `NoLeaseAfterStop` for `K` empty, is apart from `Mid`
since a stop breaks it and mends it within one step: between
`isShuttingDown = true` and `closeRuntimeLease()` the lease may be open, and it
is the call in `K` that answers for it. What else may open a lease (`Lease`, the health
check, the socket that opens late) looks at `isShuttingDown` or finds no socket
left, which `Tokened` is needed for when the recovery begins anew after a stop.
`Handed` relates the first and the last state of a step: the calls that return
connection details in it do so where a lease has just opened, was open already, or
the application is letting go.

**FlowOutbox.** Assumptions: `FlowsAssumption`, that there are finitely many
Flows, `BoundsAssumption`, that the bounds are natural numbers, and `Patient` of
section 4. A queue exists in many versions at a time: the one of the renderer,
those in requests on their way, the cached document, the documents of the writes
in progress and behind it, and the file. No edit vanishes because each version
has what the earlier ones have, but for edits that nobody need keep any more
(`Given`: applied, dropped, lost). That is `Keeps`, and `Onward` says it of every
two versions in the order file, writes, document, requests, renderer, and not of
neighbours only, since a request, a write or the document may go and its
neighbours then meet. `Secure` adds the ends of the chain: what has been saved
is in the file, and every edit is in the renderer's queue, or in the document
until that is loaded (`Phased`). An acknowledgement takes operations out of the
queue by the ids of a batch that was sent earlier, and the queue has been edited
since. `Batched` is what makes that safe: an operation that still has the id of
one in the batch stands for edits of the batch only, because an operation that
is merged gets the id of the new one. `Following` is `DiskFollowsMemory` with
the versions on their way: the last request for a Flow has the queue of the
renderer, the document has it if there is none, and the last write has the
document while no save waits for the timer. It needs that the number of a save
is new, so that `FreshSave` is a maximum of finitely many numbers.

**FlowEdits.** Assumptions: `DefaultAssumption`, `HistoryAssumption` and
`MutationsAssumption`, that the default layout is one and that the bounds are
natural numbers, and `Growing` of section 4. `Standing` says what merging needs
to know of the outbox. What is in flight is at its head, less what was merged
with a later operation, which can be a layout, or an update at its very end
(`Queued`). Behind a layout nothing lays out the same node or creates it again
(`Arranged`), so a new layout may be moved forward to the place of the old one
past everything between them (`LayoutLater`), and of two layouts the later one
counts (`LaterCounts`). An update at the end of the outbox is the configuration
on the screen (`EndsWith`), so an update that drops no key is merged unchanged. The three
ways to merge are `MergeAppends`, `MergeAdjacent` and `MergeReplaces`: each shows
that the documents on the way of the old replay, with the operation in flight
passed over (`Skips`), give those of the new one. `Growing` is used at two places,
for a node that is created and for an update that is merged.

`UndoThenRedo` speaks of the last command only and is not inductive: what an undo
leaves on top must fit the document it leads to. `Histories` says that there are
documents, one more than there are commands on the stack and the last of them the
one on the screen, between which undo and redo lead to and fro. Forgetting the
oldest command drops the first document (`RecentHistory`). A command that joins
its group keeps the first undo and takes the last redo, which fit since both are
updates of one node. That an undo creates a node only where there is none, which
`Standing` needs, follows from what its redo would make of that document.

**Sequences.** What `Replay`, `Enqueued`, `Uncommitted` and `Remaining` compute
along a sequence is written as a recursive function (a filter that takes an
operator, `SelectSeq`, cannot be expanded in a proof). Induction is proved for
sets of numbers instead of predicates: a set of numbers has a least element
(`LeastNumber`, from the well-foundedness of `<`), so a set that has zero and the
successor of each of its elements up to `n` has all of them (`Upto`). `KeptIs`
uses it for the set of lengths up to which the function is what it should be:
what is left are the operations of the queue, each at most once and in their
order, that the batch does not have. `SkipsIs` is the same for replaying them.

What is checked by TLC only:

* liveness (`ConnectSettles`, `LostConnectionResolves`, `CallersAreAnswered`,
  a due task that runs, an edit that arrives, a backend that comes back,
  the application that comes up): fairness and `ENABLED` are out of the prover's reach;
* `SessionNavigation`: its requests and answers are queues that are filtered,
  and its properties rest on their order.

## 8. What the modelled parts leave out

* Shared connection: a runtime without `getCapabilityUpdate`, which says hello
  again instead (`backend-client.ts:53`); the window in which repeated events are dropped, the
  listeners of the diagnostics page, clients opened for Godot and development.
* Scheduled tasks: what happens inside `backend-runner.ts` and failing writes
  of the store, the trimming of old runs, and the first load of its files; the
  arithmetic of schedules (a recurring task is due at every tick).
* Flow editing: commands of several operations (several nodes moved, laid out,
  duplicated or pasted at once, `useHomeFlowController.ts:920`) and the order of
  their inverses (`:426`): a command of the model is one operation, with those of
  its group; edges, groups and the viewport as kinds of operation, patches
  of other clients, and what the controller does after a commit that failed.
* Outbox: the permanent rejection of a document above 2 MB.
* Backend manager: development mode, and parsing of what the runtime prints.
* Computer control: pictures, coordinates and grounding, the preview of the
  overlay, the diagnostics helper; time limits are steps that may come at any time.
* Remote access: what a connection forwards (`RemoteDeviceProxy`), static files,
  the limits on requests and on attempts to pair, the contents of certificates.
  The writes of `lastSeenAt`, which the code limits to one a minute for each
  device, are limited to one in the queue at a time.
* Navigation: patches of the workbench that are gathered for 220 ms, and the
  await of those gathered (`useWorkbenchNavigationPersistenceController.ts:23`)
  before a navigation; the home's message in a new worktree, messages queued while a run
  is active, everything a session shows but its additional context.
* Update: the staging directory of a download, incompatible manifests, failures
  of the removals inside commit, rollback and sweep other than the one of a
  version's directory, the updater of the client itself.

## 9. Next extensions

In this order, the behaviour that matters most first.

1. `RemoteProxy`: the two sockets of a device that are forwarded to each other,
   composed with `RemoteAccess`.
2. Messages queued while a run is active, and the home's message in a new
   worktree, as operations of `SessionNavigation`.
3. `BackendRunner`, refining the steps `QueueState`, `Finish`, `StartupFails`
   that `ScheduledTasks` takes for granted; the task store with failing writes.
4. `FlowEdits` with the document fetched after a failed commit and with patches
   of other clients; the composition with `FlowOutbox`.
5. The client's own update; session layout and preferences with revisions;
   pairing of the external browser; the locks of browser automation; composer
   queue and run reducers under repeated and reordered events.

Abstract specifications worth stating: a reliable, idempotent log of edits that
`FlowOutbox` implements; "at most one backend, leased or down" for
`BackendManager`; an atomic exchange of versions for `BackendUpdate`.

Proofs worth having: the composition of `FlowEdits` with `FlowOutbox`, whose
theorems are in one module already; `ActiveIsOpened` and `NothingStrays` of `SessionNavigation`,
with its queues as functions of an index instead of filtered sequences.

-------------------------- MODULE StudioConnection --------------------------
(***************************************************************************)
(* The renderer's shared backend connection                                 *)
(* (renderer/src/platform/rpc/transport/backend-client.ts): creation of the *)
(* client, the client.hello handshake, the negotiation of capabilities and  *)
(* the connection state the user sees.  It drives the client objects of     *)
(* module RpcClient: an action here is one of RpcClient's handlers together *)
(* with the listeners and the promise reactions it runs before the event    *)
(* loop takes the next task.                                                *)
(*                                                                          *)
(* A call of sendClientHello occupies a slot of Hellos until it settles:    *)
(*   "readHello" await runtime.getClientHello()                             *)
(*   "hello"     await client.hello                                         *)
(*   "info"      await client.info                                          *)
(*   "readCaps"  await runtime.getCapabilityUpdate(), answer not given yet  *)
(*   "haveCaps"  the same, answer given but not yet seen by the renderer    *)
(*   "update"    await client.capabilities.update                           *)
(* The capabilities are a version number: only their age matters.           *)
(***************************************************************************)
EXTENDS Naturals, FiniteSets

CONSTANTS
    Clients,      \* client objects the renderer may create
    MaxAttempts,  \* of the reconnection strategy
    Hellos,       \* slots for concurrent sendClientHello calls (bound)
    Updates,      \* names the request of the chain of updates
    NoClient,     \* null
    MaxChanges    \* bound on changes of the runtime's capabilities

ASSUME BoundsAssumption == MaxAttempts \in Nat \ {0} /\ MaxChanges \in Nat
ASSUME NamesAssumption == Updates \notin Hellos /\ NoClient \notin Clients

VARIABLES
    state, socket, attempt, timer, manual, once, waiting, pending,
    backendClient,  \* the module's backendClient
    promise,        \* backendClientPromise: "none", or what it awaits
    opener,         \* the client connectBackendClient is opening
    negotiation,    \* capabilityNegotiations: "none", "pending", "ready"
    hello,          \* the sendClientHello calls in progress
    updates,        \* the chain negotiation.updates behind the first link
    capability,     \* version of the runtime's capabilities
    known,          \* version the backend holds for the connection, 0 none
    greeted,        \* TRUE after the backend accepted client.hello on it
    connState       \* backendConnectionState

R == INSTANCE RpcClient WITH Requests <- Hellos \cup {Updates}

rpcVars == <<state, socket, attempt, timer, manual, once, waiting, pending>>
sharedVars == <<backendClient, promise, opener>>
backendVars == <<known, greeted>>
vars == <<rpcVars, sharedVars, negotiation, hello, updates, capability,
          backendVars, connState>>

Asking == {"hello", "info", "update"}
Steps  == {"idle", "readHello", "readCaps", "haveCaps"} \cup Asking
Idle   == [client |-> NoClient, step |-> "idle", first |-> FALSE,
           current |-> FALSE, snap |-> 0]
NoUpdates == [queued |-> 0, step |-> "idle", snap |-> 0]

TypeOK ==
    /\ R!TypeOK
    /\ backendClient \in Clients \cup {NoClient}
    /\ promise \in {"none", "transport", "connect"}
    /\ opener \in Clients \cup {NoClient}
    /\ negotiation \in [Clients -> {"none", "pending", "ready"}]
    /\ hello \in [Hellos -> [client : Clients \cup {NoClient}, step : Steps,
                             first : BOOLEAN, current : BOOLEAN, snap : Nat]]
    /\ updates \in [Clients -> [queued : Nat, snap : Nat,
                        step : {"idle", "readCaps", "haveCaps", "update"}]]
    /\ capability \in Nat
    /\ known \in [Clients -> Nat]
    /\ greeted \in [Clients -> BOOLEAN]
    /\ connState \in {"connected", "disconnected"}

Init ==
    /\ R!Init
    /\ backendClient = NoClient /\ promise = "none" /\ opener = NoClient
    /\ negotiation = [c \in Clients |-> "none"]
    /\ hello = [h \in Hellos |-> Idle]
    /\ updates = [c \in Clients |-> NoUpdates]
    /\ capability = 1
    /\ known = [c \in Clients |-> 0]
    /\ greeted = [c \in Clients |-> FALSE]
    /\ connState = "connected"

HellosOf(c) == {h \in Hellos : hello[h].client = c}
SharedOpen  == backendClient # NoClient /\ R!IsOpen(backendClient)

\* The check made again after each await: still this negotiation, still open.
StillValid(h) == hello[h].current /\ R!IsOpen(hello[h].client)

---------------------------------------------------------------------------
(* createBackendClient and connectBackendClient                            *)

\* createBackendClient, when it neither returns the open client nor joins
\* the call in progress.
Ask ==
    /\ ~SharedOpen /\ promise = "none"
    /\ promise' = "transport"
    /\ UNCHANGED <<rpcVars, backendClient, opener, negotiation, hello,
                   updates, capability, backendVars, connState>>

\* getBackendTransport() fails: the main process has no backend to offer.
TransportFails ==
    /\ promise = "transport"
    /\ promise' = "none"
    /\ UNCHANGED <<rpcVars, backendClient, opener, negotiation, hello,
                   updates, capability, backendVars, connState>>

\* It succeeds: a new client object is made and connected.
BadTransportReady(c) ==
    /\ promise = "transport"
    /\ state' = [state EXCEPT ![c] = "connecting"]
    /\ socket' = [socket EXCEPT ![c] = "opening"]
    /\ waiting' = [waiting EXCEPT ![c] = TRUE]
    /\ promise' = "connect" /\ opener' = c
    /\ UNCHANGED <<attempt, timer, manual, once, pending, backendClient,
                   negotiation, hello, updates, capability, backendVars, connState>>

TransportReady(c) ==
    /\ promise = "transport"
    /\ R!Connect(c)
    /\ promise' = "connect" /\ opener' = c
    /\ UNCHANGED <<backendClient, negotiation, hello, updates, capability,
                   backendVars, connState>>

---------------------------------------------------------------------------
(* sendClientHello                                                         *)

\* What starting a handshake on c in the free slot h changes.
StartHello(c, h, isFirst) ==
    /\ hello[h].step = "idle"
    /\ hello' = [k \in Hellos |->
                    IF k = h THEN [client |-> c, step |-> "readHello",
                                   first |-> isFirst, current |-> TRUE, snap |-> 0]
                    ELSE IF hello[k].client = c
                         THEN [hello[k] EXCEPT !.current = FALSE]
                         ELSE hello[k]]
    /\ negotiation' = [negotiation EXCEPT ![c] = "pending"]
    /\ updates' = [updates EXCEPT ![c] = NoUpdates]

\* The socket opens.  The connection listener says hello when it is a
\* reconnection; the first time connectBackendClient does, if it still
\* waits for this client: a client whose first attempt failed is not
\* awaited by anybody when it opens later.
Open(c, h) ==
    /\ R!HandleOpen(c)
    /\ IF once[c] \/ (promise = "connect" /\ opener = c)
       THEN StartHello(c, h, ~once[c])
       ELSE UNCHANGED <<negotiation, hello, updates>>
    /\ UNCHANGED <<sharedVars, capability, backendVars, connState>>

\* A handshake ends well, seen by connectBackendClient or by the listener:
\* the state the user sees becomes "connected" whatever the socket is now.
BadConclude(h) ==
    /\ hello' = [hello EXCEPT ![h] = Idle]
    /\ connState' = "connected"
    /\ IF hello[h].first
       THEN /\ backendClient' = hello[h].client
            /\ opener' = NoClient /\ UNCHANGED promise
       ELSE UNCHANGED sharedVars

Conclude(h) ==
    /\ hello' = [hello EXCEPT ![h] = Idle]
    /\ connState' = "connected"
    /\ IF hello[h].first
       THEN /\ backendClient' = hello[h].client
            /\ promise' = "none" /\ opener' = NoClient
       ELSE UNCHANGED sharedVars

\* The requests of c still pending all reject at once, with or without the
\* connection listener (heard): hello and update fail their handshake, but
\* the failure of info is caught and the handshake returns normally.
\* alsoFailed is a handshake that has already failed.
Reject(c, heard, alsoFailed) ==
    LET infoLost == {h \in HellosOf(c) : hello[h].step = "info"} \ alsoFailed
        failed   == {h \in HellosOf(c) : hello[h].step \in {"hello", "update"}}
                        \cup alsoFailed
        isFirst  == \E h \in infoLost \cup failed : hello[h].first
    IN  /\ hello' = [h \in Hellos |->
                        IF h \in infoLost \cup failed THEN Idle
                        ELSE IF heard /\ h \in HellosOf(c)
                             THEN [hello[h] EXCEPT !.current = FALSE]
                             ELSE hello[h]]
        /\ connState' = IF infoLost # {} THEN "connected"
                        ELSE IF heard THEN "disconnected" ELSE connState
        /\ backendClient' = IF \E h \in infoLost : hello[h].first
                            THEN c ELSE backendClient
        /\ IF isFirst THEN promise' = "none" /\ opener' = NoClient
                      ELSE UNCHANGED <<promise, opener>>

BadForget(c, heard) ==
    /\ negotiation' = IF heard THEN [negotiation EXCEPT ![c] = "none"] ELSE negotiation
    /\ known'   = [known EXCEPT ![c] = 0]
    /\ greeted' = [greeted EXCEPT ![c] = FALSE]
    /\ UNCHANGED updates

\* What the client's negotiation and the backend's side of the connection
\* keep: nothing.  Links of the chain that still run find their checks false.
Forget(c, heard) ==
    /\ negotiation' = IF heard THEN [negotiation EXCEPT ![c] = "none"] ELSE negotiation
    /\ updates' = [updates EXCEPT ![c] = NoUpdates]
    /\ known'   = [known EXCEPT ![c] = 0]
    /\ greeted' = [greeted EXCEPT ![c] = FALSE]

\* A handshake fails while its connection lives: connectBackendClient
\* closes the client, the listener only logs.
Fail(h) ==
    LET c == hello[h].client IN
    IF hello[h].first
    THEN R!Close(c) /\ Reject(c, FALSE, {h}) /\ Forget(c, FALSE)
    ELSE /\ hello' = [hello EXCEPT ![h] = Idle]
         /\ UNCHANGED <<sharedVars, negotiation, updates, backendVars, connState>>

\* getClientHello() answers and client.hello is sent; on a socket that is not
\* open the request rejects.
SendHello(h) ==
    /\ hello[h].step = "readHello"
    /\ UNCHANGED capability
    /\ IF socket[hello[h].client] = "open"
       THEN /\ R!Send(hello[h].client, h)
            /\ hello' = [hello EXCEPT ![h].step = "hello", ![h].snap = capability]
            /\ UNCHANGED <<sharedVars, negotiation, updates, backendVars, connState>>
       ELSE Fail(h) /\ (hello[h].first \/ UNCHANGED rpcVars)

\* The backend accepts client.hello; client.info follows in the same turn.
HelloAccepted(h) ==
    LET c == hello[h].client IN
    /\ hello[h].step = "hello"
    /\ R!ReceiveThenSend(c, h, h)
    /\ hello'   = [hello EXCEPT ![h].step = "info"]
    /\ known'   = [known EXCEPT ![c] = hello[h].snap]
    /\ greeted' = [greeted EXCEPT ![c] = TRUE]
    /\ UNCHANGED <<sharedVars, negotiation, updates, capability, connState>>

\* client.info answers, or is refused by an old backend: the negotiation
\* becomes ready and the first update starts, unless it is no longer current.
InfoAnswered(h) ==
    LET c == hello[h].client IN
    /\ hello[h].step = "info"
    /\ R!Receive(c, h)
    /\ UNCHANGED <<updates, capability, backendVars>>
    /\ IF hello[h].current
       THEN /\ negotiation' = [negotiation EXCEPT ![c] = "ready"]
            /\ hello' = [hello EXCEPT ![h].step = "readCaps"]
            /\ UNCHANGED <<sharedVars, connState>>
       ELSE Conclude(h) /\ UNCHANGED negotiation

\* getCapabilityUpdate() takes its snapshot in the main process...
ReadCaps(h) ==
    /\ hello[h].step = "readCaps"
    /\ hello' = [hello EXCEPT ![h].step = "haveCaps", ![h].snap = capability]
    /\ UNCHANGED <<rpcVars, sharedVars, negotiation, updates, capability,
                   backendVars, connState>>

\* ...and the renderer sends it if the negotiation still holds.
SendCaps(h) ==
    /\ hello[h].step = "haveCaps"
    /\ UNCHANGED <<negotiation, updates, capability, backendVars>>
    /\ IF StillValid(h)
       THEN /\ R!Send(hello[h].client, h)
            /\ hello' = [hello EXCEPT ![h].step = "update"]
            /\ UNCHANGED <<sharedVars, connState>>
       ELSE Conclude(h) /\ UNCHANGED rpcVars

\* The backend applies client.capabilities.update and answers.
UpdateAccepted(h) ==
    LET c == hello[h].client IN
    /\ hello[h].step = "update"
    /\ R!Receive(c, h)
    /\ known' = [known EXCEPT ![c] = hello[h].snap]
    /\ Conclude(h)
    /\ UNCHANGED <<negotiation, updates, capability, greeted>>

\* The backend refuses client.hello or client.capabilities.update.
Refused(h) ==
    LET c == hello[h].client IN
    /\ hello[h].step \in {"hello", "update"}
    /\ Fail(h)
    /\ hello[h].first \/ R!Receive(c, h)
    /\ UNCHANGED capability

---------------------------------------------------------------------------
(* updateClientCapabilities after a change                                 *)

\* The runtime's capabilities change and its listener runs.
CapabilityChanges ==
    /\ capability <= MaxChanges
    /\ capability' = capability + 1
    /\ updates' = IF SharedOpen /\ negotiation[backendClient] = "ready"
                  THEN [updates EXCEPT ![backendClient].queued = @ + 1]
                  ELSE updates
    /\ UNCHANGED <<rpcVars, sharedVars, negotiation, hello, backendVars, connState>>

\* The chain is free: no earlier link is reading or waiting for an answer.
BadChainFree(c) == updates[c].step = "idle"

ChainFree(c) ==
    /\ updates[c].step = "idle"
    /\ \A h \in HellosOf(c) :
            hello[h].current => hello[h].step \notin {"readCaps", "haveCaps", "update"}

\* The next link of the chain begins with its first check.
StartUpdate(c) ==
    /\ updates[c].queued > 0 /\ ChainFree(c)
    /\ updates' = [updates EXCEPT ![c].queued = @ - 1,
                     ![c].step = IF R!IsOpen(c) THEN "readCaps" ELSE "idle"]
    /\ UNCHANGED <<rpcVars, sharedVars, negotiation, hello, capability,
                   backendVars, connState>>

ReadUpdate(c) ==
    /\ updates[c].step = "readCaps"
    /\ updates' = [updates EXCEPT ![c].step = "haveCaps", ![c].snap = capability]
    /\ UNCHANGED <<rpcVars, sharedVars, negotiation, hello, capability,
                   backendVars, connState>>

SendUpdate(c) ==
    /\ updates[c].step = "haveCaps"
    /\ R!Send(c, Updates)
    /\ updates' = [updates EXCEPT ![c].step = "update"]
    /\ UNCHANGED <<sharedVars, negotiation, hello, capability, backendVars, connState>>

\* The backend applies the update, or refuses it and the chain goes on.
UpdateAnswered(c, accepted) ==
    /\ updates[c].step = "update"
    /\ R!Receive(c, Updates)
    /\ updates' = [updates EXCEPT ![c].step = "idle", ![c].snap = 0]
    /\ known' = IF accepted THEN [known EXCEPT ![c] = updates[c].snap] ELSE known
    /\ UNCHANGED <<sharedVars, negotiation, hello, capability, greeted, connState>>

---------------------------------------------------------------------------
(* Losing the connection                                                   *)

\* handleClose and the connection listener: the negotiation is forgotten and
\* the user sees "disconnected"; then the rejected requests settle, and a
\* first handshake that fails closes the client.
Lose(c) ==
    /\ IF \E h \in HellosOf(c) : hello[h].first /\ hello[h].step \in {"hello", "update"}
       THEN R!HandleCloseThenClose(c)
       ELSE R!HandleClose(c)
    /\ IF socket[c] = "opening" /\ opener = c /\ ~once[c]
       THEN /\ promise' = "none" /\ opener' = NoClient
            /\ connState' = "disconnected"
            /\ UNCHANGED <<backendClient, hello>>
       ELSE Reject(c, TRUE, {})
    /\ Forget(c, TRUE)
    /\ UNCHANGED capability

\* The connection timeout: connect() rejects, which ends connectBackendClient.
Timeout(c) ==
    /\ R!HandleTimeout(c)
    /\ IF opener = c /\ ~once[c]
       THEN promise' = "none" /\ opener' = NoClient
       ELSE UNCHANGED <<promise, opener>>
    /\ UNCHANGED <<backendClient, negotiation, hello, updates, capability,
                   backendVars, connState>>

Reconnect(c) ==
    /\ R!FireReconnect(c)
    /\ UNCHANGED <<sharedVars, negotiation, hello, updates, capability,
                   backendVars, connState>>

---------------------------------------------------------------------------
HelloStep(h) ==
    \/ SendHello(h) \/ HelloAccepted(h) \/ InfoAnswered(h)
    \/ ReadCaps(h) \/ SendCaps(h) \/ UpdateAccepted(h) \/ Refused(h)

UpdateStep(c) ==
    \/ StartUpdate(c) \/ ReadUpdate(c) \/ SendUpdate(c)
    \/ \E accepted \in BOOLEAN : UpdateAnswered(c, accepted)

ConnectionStep(c) ==
    \/ \E h \in Hellos : Open(c, h)
    \/ Timeout(c) \/ Lose(c) \/ Reconnect(c)

Next ==
    \/ Ask \/ TransportFails \/ CapabilityChanges
    \/ \E c \in Clients : TransportReady(c) \/ ConnectionStep(c) \/ UpdateStep(c)
    \/ \E h \in Hellos : HelloStep(h)

\* The event loop runs what is ready and timers fire; IPC calls answer, the
\* backend answers or drops the connection, and a socket that opens or closes
\* gets its event.  Nothing obliges a caller to ask or a capability to change.
Fairness ==
    /\ WF_vars(TransportFails \/ \E c \in Clients : TransportReady(c))
    /\ \A h \in Hellos : WF_vars(HelloStep(h))
    /\ \A c \in Clients :
          /\ WF_vars(UpdateStep(c))
          /\ WF_vars(socket[c] # "open" /\ ConnectionStep(c))

\* The backend refuses what the renderer declares.
Refusal ==
    \/ \E h \in Hellos : Refused(h)
    \/ \E c \in Clients : UpdateAnswered(c, FALSE)

Spec == Init /\ [][Next]_vars
FairSpec == Spec /\ Fairness

---------------------------------------------------------------------------
(* What the order of the handshakes rests on                               *)

\* getClientHello (local IPC) answers before the reconnect delay (a second
\* or more) has passed and the next socket is open.
PromptHello ==
    \A c \in Clients : socket[c] # "open" /\ socket'[c] = "open" =>
        \A h \in HellosOf(c) : hello[h].step # "readHello"

\* No capability changes while connectBackendClient runs: its client is not
\* shared yet, so the listener has nobody to tell.
SettledChanges == capability' # capability => promise # "connect"

PromptSpec  == Init /\ [][Next /\ PromptHello]_vars
SettledSpec == Init /\ [][Next /\ PromptHello /\ SettledChanges /\ ~Refusal]_vars

---------------------------------------------------------------------------
(* Properties                                                              *)

\* The two layers agree on who waits for an answer: a handshake or an update
\* that awaits one has its request pending on a live socket, and no request
\* is pending that nobody awaits, whatever was dropped or closed meanwhile.
AwaitedIsPending ==
    \A c \in Clients :
        pending[c] = {h \in HellosOf(c) : hello[h].step \in Asking}
                     \cup {u \in {Updates} : updates[c].step = "update"}

\* On one connection a capabilities.update never carries an older snapshot
\* than what the backend already holds: the chain is serial and reads the
\* state only when its turn comes.
NewestUpdateWins ==
    [][\A c \in Clients :
        \/ known'[c] >= known[c]
        \/ ~greeted'[c]
        \/ \E h \in HellosOf(c) : hello[h].step = "hello" /\ hello'[h].step = "info"]_vars

\* With nothing in progress, the backend has the runtime's capabilities of
\* now: no interleaving of changes, reads, answers and reconnections loses
\* the last change or lets an older value overwrite it.
Quiet ==
    /\ promise = "none"
    /\ \A h \in Hellos : hello[h].step = "idle"
    /\ \A c \in Clients : updates[c] = NoUpdates

CapabilitiesCurrentWhenQuiet ==
    Quiet /\ SharedOpen /\ negotiation[backendClient] = "ready" =>
        known[backendClient] = capability

\* The state shown becomes "connected" only while a connection exists whose
\* client.hello the backend accepted.
ConnectedMeansGreeted ==
    [][connState = "disconnected" /\ connState' = "connected" =>
        \E c \in Clients : greeted'[c] /\ socket'[c] = "open"]_vars

\* Studio has one connection to the backend: the promise and the client are
\* kept in the module so that every caller shares it.
OneSharedConnection ==
    Cardinality({c \in Clients : socket[c] = "open"}) <= 1

\* Every call of createBackendClient settles while the backend answers or
\* drops the connection, whatever fails on the way.
CallersAreAnswered == promise # "none" ~> promise = "none"

\* Every step of the composition is a step of RpcClient or leaves the clients
\* alone: the shared connection uses its clients only as their handlers
\* allow, so what holds of RpcClient holds of each of them.
UsesRpcClient == R!Init /\ [][R!Next]_rpcVars

=============================================================================

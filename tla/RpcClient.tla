----------------------------- MODULE RpcClient -----------------------------
(***************************************************************************)
(* The WebSocket client of the renderer: BackendRpcClient                   *)
(* (renderer/src/platform/rpc/transport/backend-rpc-client.ts) with its     *)
(* ReconnectionManager (reconnection-strategy.ts).                          *)
(*                                                                          *)
(* One action per handler of the class.  Every variable is a function of    *)
(* the client object: the renderer can hold several of them at once (see    *)
(* StudioConnection).  The browser's WebSocket is the environment; its      *)
(* readyState, together with the events it still owes the client, is        *)
(* socket[c]:                                                               *)
(*   "none"      this.socket is null and no event is owed                   *)
(*   "opening"   CONNECTING                                                 *)
(*   "open"      OPEN                                                       *)
(*   "closing"   this.socket still set, close() called, close event owed    *)
(*   "detached"  close() set this.socket to null, close event owed          *)
(***************************************************************************)
EXTENDS Naturals

CONSTANTS
    Clients,      \* the client objects the renderer may create
    Requests,     \* the requests a client may have pending
    MaxAttempts   \* ReconnectConfig.maxAttempts

ASSUME MaxAttemptsAssumption == MaxAttempts \in Nat \ {0}

VARIABLES
    state,     \* this.state
    socket,    \* this.socket, as above
    attempt,   \* reconnectManager.attempt
    timer,     \* TRUE while the reconnect timer is armed
    manual,    \* this.manualClose
    once,      \* this.hasConnectedOnce
    waiting,   \* TRUE while connectResolve / connectReject are set
    pending    \* keys of this.pendingRequests

rpcVars == <<state, socket, attempt, timer, manual, once, waiting, pending>>

States  == {"disconnected", "connecting", "connected", "reconnecting"}
Sockets == {"none", "opening", "open", "closing", "detached"}

TypeOK ==
    /\ state   \in [Clients -> States]
    /\ socket  \in [Clients -> Sockets]
    /\ attempt \in [Clients -> 0..MaxAttempts]
    /\ timer   \in [Clients -> BOOLEAN]
    /\ manual  \in [Clients -> BOOLEAN]
    /\ once    \in [Clients -> BOOLEAN]
    /\ waiting \in [Clients -> BOOLEAN]
    /\ pending \in [Clients -> SUBSET Requests]

Init ==
    /\ state   = [c \in Clients |-> "disconnected"]
    /\ socket  = [c \in Clients |-> "none"]
    /\ attempt = [c \in Clients |-> 0]
    /\ timer   = [c \in Clients |-> FALSE]
    /\ manual  = [c \in Clients |-> FALSE]
    /\ once    = [c \in Clients |-> FALSE]
    /\ waiting = [c \in Clients |-> FALSE]
    /\ pending = [c \in Clients |-> {}]

\* A client object on which connect() has not been called yet.
Fresh(c) ==
    /\ state[c] = "disconnected" /\ socket[c] = "none"
    /\ ~timer[c] /\ ~manual[c] /\ ~once[c] /\ attempt[c] = 0

\* isOpen()
IsOpen(c) == state[c] = "connected" /\ socket[c] = "open"

\* isExhausted()
Exhausted(c) == attempt[c] >= MaxAttempts

---------------------------------------------------------------------------
(* connect() and what the WebSocket answers                                *)

\* connect() by the owner of the client: once, on a new object.
Connect(c) ==
    /\ Fresh(c)
    /\ state'   = [state EXCEPT ![c] = "connecting"]
    /\ socket'  = [socket EXCEPT ![c] = "opening"]
    /\ waiting' = [waiting EXCEPT ![c] = TRUE]
    /\ UNCHANGED <<attempt, timer, manual, once, pending>>

\* The callback given to scheduleReconnect: counts the attempt, resets the
\* state and calls connect(), which then creates a new WebSocket; with any
\* state but "disconnected" connect() would only wait for a socket in flight.
BadFireReconnect(c) ==
    /\ timer[c]
    /\ timer'   = [timer EXCEPT ![c] = FALSE]
    /\ attempt' = [attempt EXCEPT ![c] = @ + 1]
    /\ waiting' = [waiting EXCEPT ![c] = TRUE]
    /\ UNCHANGED <<state, socket, manual, once, pending>>

FireReconnect(c) ==
    /\ timer[c]
    /\ timer'   = [timer EXCEPT ![c] = FALSE]
    /\ attempt' = [attempt EXCEPT ![c] = @ + 1]
    /\ state'   = [state EXCEPT ![c] = "reconnecting"]
    /\ socket'  = [socket EXCEPT ![c] = "opening"]
    /\ waiting' = [waiting EXCEPT ![c] = TRUE]
    /\ manual'  = [manual EXCEPT ![c] = FALSE]
    /\ UNCHANGED <<once, pending>>

\* handleOpen: the promise of connect() resolves and the strategy is reset.
HandleOpen(c) ==
    /\ socket[c] = "opening"
    /\ socket'  = [socket EXCEPT ![c] = "open"]
    /\ state'   = [state EXCEPT ![c] = "connected"]
    /\ once'    = [once EXCEPT ![c] = TRUE]
    /\ attempt' = [attempt EXCEPT ![c] = 0]
    /\ timer'   = [timer EXCEPT ![c] = FALSE]
    /\ waiting' = [waiting EXCEPT ![c] = FALSE]
    /\ UNCHANGED <<manual, pending>>

\* handleConnectionTimeout: the socket is closed (its close event follows)
\* and connect() rejects.
BadHandleTimeout(c) ==
    /\ socket[c] = "opening"
    /\ socket'  = [socket EXCEPT ![c] = "none"]
    /\ state'   = [state EXCEPT ![c] = "disconnected"]
    /\ waiting' = [waiting EXCEPT ![c] = FALSE]
    /\ UNCHANGED <<attempt, timer, manual, once, pending>>

HandleTimeout(c) ==
    /\ socket[c] = "opening"
    /\ socket'  = [socket EXCEPT ![c] = "closing"]
    /\ state'   = [state EXCEPT ![c] = "disconnected"]
    /\ waiting' = [waiting EXCEPT ![c] = FALSE]
    /\ UNCHANGED <<attempt, timer, manual, once, pending>>

\* handleError (when the socket never opened) and handleClose.  handleError
\* rejects connect(); handleClose drops the socket, rejects what is pending
\* and, unless close() was called, schedules a reconnection while any
\* attempt is left.
BadHandleClose(c) ==
    /\ socket[c] # "none"
    /\ socket'  = [socket EXCEPT ![c] = "none"]
    /\ waiting' = [waiting EXCEPT ![c] = FALSE]
    /\ IF ~manual[c] /\ ~Exhausted(c)
       THEN /\ state' = [state EXCEPT ![c] = "reconnecting"]
            /\ timer' = [timer EXCEPT ![c] = TRUE]
       ELSE /\ state' = [state EXCEPT ![c] = "disconnected"]
            /\ UNCHANGED timer
    /\ UNCHANGED <<attempt, manual, once, pending>>

HandleClose(c) ==
    /\ socket[c] # "none"
    /\ socket'  = [socket EXCEPT ![c] = "none"]
    /\ waiting' = [waiting EXCEPT ![c] = FALSE]
    /\ pending' = [pending EXCEPT ![c] = {}]
    /\ IF ~manual[c] /\ ~Exhausted(c)
       THEN /\ state' = [state EXCEPT ![c] = "reconnecting"]
            /\ timer' = [timer EXCEPT ![c] = TRUE]
       ELSE /\ state' = [state EXCEPT ![c] = "disconnected"]
            /\ UNCHANGED timer
    /\ UNCHANGED <<attempt, manual, once>>

---------------------------------------------------------------------------
(* close()                                                                 *)

\* close(): no reconnection any more; the close event of a live socket is
\* still owed and finds this.socket null.
BadClose(c) ==
    /\ state'   = [state EXCEPT ![c] = "disconnected"]
    /\ socket'  = [socket EXCEPT ![c] = IF @ = "none" THEN "none" ELSE "detached"]
    /\ manual'  = [manual EXCEPT ![c] = TRUE]
    /\ attempt' = [attempt EXCEPT ![c] = 0]
    /\ pending' = [pending EXCEPT ![c] = {}]
    /\ UNCHANGED <<once, waiting, timer>>

Close(c) ==
    /\ state'   = [state EXCEPT ![c] = "disconnected"]
    /\ socket'  = [socket EXCEPT ![c] = IF @ = "none" THEN "none" ELSE "detached"]
    /\ manual'  = [manual EXCEPT ![c] = TRUE]
    /\ timer'   = [timer EXCEPT ![c] = FALSE]
    /\ attempt' = [attempt EXCEPT ![c] = 0]
    /\ pending' = [pending EXCEPT ![c] = {}]
    /\ UNCHANGED <<once, waiting>>

\* handleClose rejects a request whose caller answers with close() in the
\* same turn of the event loop, before the timer just armed can fire.
HandleCloseThenClose(c) ==
    /\ socket[c] \notin {"none", "opening"}
    /\ state'   = [state EXCEPT ![c] = "disconnected"]
    /\ socket'  = [socket EXCEPT ![c] = "none"]
    /\ manual'  = [manual EXCEPT ![c] = TRUE]
    /\ timer'   = [timer EXCEPT ![c] = FALSE]
    /\ attempt' = [attempt EXCEPT ![c] = 0]
    /\ pending' = [pending EXCEPT ![c] = {}]
    /\ waiting' = [waiting EXCEPT ![c] = FALSE]
    /\ UNCHANGED once

---------------------------------------------------------------------------
(* Requests                                                                *)

\* requestWithId on an open socket; on any other the promise rejects at once
\* and nothing changes.
Send(c, r) ==
    /\ socket[c] = "open" /\ r \notin pending[c]
    /\ pending' = [pending EXCEPT ![c] = @ \cup {r}]
    /\ UNCHANGED <<state, socket, attempt, timer, manual, once, waiting>>

\* handleMessage, response branch: the pending request settles.
Receive(c, r) ==
    /\ socket[c] = "open" /\ r \in pending[c]
    /\ pending' = [pending EXCEPT ![c] = @ \ {r}]
    /\ UNCHANGED <<state, socket, attempt, timer, manual, once, waiting>>

\* A response whose continuation sends the caller's next request at once.
ReceiveThenSend(c, r, q) ==
    /\ socket[c] = "open" /\ r \in pending[c] /\ q \notin pending[c] \ {r}
    /\ pending' = [pending EXCEPT ![c] = (@ \ {r}) \cup {q}]
    /\ UNCHANGED <<state, socket, attempt, timer, manual, once, waiting>>

---------------------------------------------------------------------------
Settle(c) ==
    \/ HandleOpen(c)
    \/ HandleTimeout(c)
    \/ HandleClose(c)

Next ==
    \E c \in Clients :
        \/ Connect(c)
        \/ FireReconnect(c)
        \/ Settle(c)
        \/ ~Fresh(c) /\ Close(c)
        \/ HandleCloseThenClose(c)
        \/ \E r \in Requests : Send(c, r) \/ Receive(c, r)
        \/ \E r, q \in Requests : ReceiveThenSend(c, r, q)

\* Timers fire, and a socket that is being opened or closed gets its event.
\* Nothing obliges an open socket to close, the owner to call anything or
\* the backend to answer.
Fairness ==
    \A c \in Clients :
        /\ WF_rpcVars(FireReconnect(c))
        /\ WF_rpcVars(socket[c] # "open" /\ Settle(c))

Spec == Init /\ [][Next]_rpcVars /\ Fairness

---------------------------------------------------------------------------
(* Properties                                                              *)

\* A request is pending only on an open socket: whichever way the socket
\* goes (drop, timeout, close()), no caller is left waiting for an answer
\* that can no longer come, nor answered by a later connection.
PendingOnlyWhenOpen ==
    \A c \in Clients : pending[c] # {} => socket[c] = "open"

\* A client that was started, not closed, and has no socket either has a
\* reconnection armed or has used up its attempts: no order of timeout,
\* error, close and timer events strands it.
NeverStranded ==
    \A c \in Clients :
        ~Fresh(c) /\ ~manual[c] /\ socket[c] = "none" =>
            timer[c] \/ (Exhausted(c) /\ state[c] = "disconnected")

\* A reconnection is armed only while no socket exists and close() was not
\* called, so connect() never opens a second socket beside a live one.
TimerMeansNoSocket ==
    \A c \in Clients : timer[c] => socket[c] = "none" /\ ~manual[c]

\* close() is final: a client closed on purpose never opens a socket again,
\* although FireReconnect's connect() resets manualClose.
ClosedIsFinal ==
    [][\A c \in Clients :
        manual[c] => manual'[c] /\ socket'[c] \notin {"opening", "open"}]_rpcVars

\* A lost connection comes back, or the client gives up after maxAttempts,
\* or its owner closes it.
LostConnectionResolves ==
    \A c \in Clients :
        (once[c] /\ socket[c] = "none") ~>
            (socket[c] = "open" \/ manual[c] \/ Exhausted(c))

\* Every connect() promise settles.
ConnectSettles ==
    \A c \in Clients : waiting[c] ~> ~waiting[c]

=============================================================================

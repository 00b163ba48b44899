----------------------- MODULE StudioConnection_proofs -----------------------
(***************************************************************************)
(* Proofs for any number of clients, handshakes and changes: the shared      *)
(* connection implements its clients, the two layers agree on what is        *)
(* pending, the chain of updates is ordered and its last change arrives.     *)
(***************************************************************************)
EXTENDS StudioConnection, TLAPS

Slot == [client : Clients \cup {NoClient}, step : Steps, first : BOOLEAN,
         current : BOOLEAN, snap : Nat]

\* A handshake in progress belongs to a client that has been open.
HelloAfterOpen ==
    \A h \in Hellos : hello[h].step # "idle" =>
        hello[h].client \in Clients /\ once[hello[h].client]

Inv ==
    /\ once \in [Clients -> BOOLEAN]
    /\ hello \in [Hellos -> Slot]
    /\ capability \in Nat
    /\ HelloAfterOpen

\* No handler of a client makes it forget that it was open.
LEMMA OnceStays ==
    ASSUME once \in [Clients -> BOOLEAN], R!Next
    PROVE  /\ once' \in [Clients -> BOOLEAN]
           /\ \A c \in Clients : once[c] => once'[c]
<1>1. PICK c \in Clients : UNCHANGED once \/ once' = [once EXCEPT ![c] = TRUE]
    BY DEF R!Next, R!Connect, R!FireReconnect, R!Settle, R!HandleOpen,
           R!HandleTimeout, R!HandleClose, R!Close, R!HandleCloseThenClose,
           R!Send, R!Receive, R!ReceiveThenSend
<1> QED
    BY <1>1

\* A client that has been open may be closed.
LEMMA CloseIsStep ==
    ASSUME NEW c \in Clients, once[c], R!Close(c) PROVE R!Next
BY DEF R!Next, R!Fresh

\* Steps of a client, or of none, that leave the handshakes with their clients
\* keep the invariant.
SlotsKept ==
    /\ hello' \in [Hellos -> Slot]
    /\ \A h \in Hellos : hello'[h].step # "idle" =>
           \/ hello[h].step # "idle" /\ hello'[h].client = hello[h].client
           \/ hello'[h].client \in Clients /\ once'[hello'[h].client]

LEMMA KeepsInv ==
    ASSUME Inv, R!Next \/ UNCHANGED rpcVars, SlotsKept, capability' \in Nat PROVE Inv'
<1>1. /\ once' \in [Clients -> BOOLEAN]
      /\ \A c \in Clients : once[c] => once'[c]
    BY OnceStays DEF Inv, rpcVars
<1> QED
    BY <1>1 DEF Inv, SlotsKept, HelloAfterOpen

\* Handshakes that end, well or not, leave the others with their clients.
LEMMA ConcludeKeeps ==
    ASSUME Inv, NEW h \in Hellos, Conclude(h) PROVE SlotsKept
BY DEF Inv, HelloAfterOpen, SlotsKept, Conclude, Idle, Slot, Steps

LEMMA RejectKeeps ==
    ASSUME Inv, NEW c, NEW heard \in BOOLEAN, NEW failed, Reject(c, heard, failed)
    PROVE  SlotsKept
<1>1. \A h \in Hellos : hello'[h] \in {Idle, hello[h], [hello[h] EXCEPT !.current = FALSE]}
    BY DEF Reject
<1>2. hello' \in [Hellos -> Slot]
    BY DEF Reject, Inv, Slot, Idle, Steps
<1> QED
    BY <1>1, <1>2 DEF SlotsKept, Idle, Inv, Slot

LEMMA FailKeeps ==
    ASSUME Inv, NEW h \in Hellos, hello[h].step # "idle", Fail(h)
    PROVE  /\ SlotsKept
           /\ hello[h].first => R!Next
<1>1. CASE hello[h].first
    <2>1. R!Close(hello[h].client) /\ Reject(hello[h].client, FALSE, {h})
        BY <1>1 DEF Fail
    <2> QED
        BY <2>1, RejectKeeps, CloseIsStep DEF Inv, HelloAfterOpen
<1>2. CASE ~hello[h].first
    <2>1. hello' = [hello EXCEPT ![h] = Idle]
        BY <1>2 DEF Fail
    <2> QED
        BY <1>2, <2>1 DEF SlotsKept, Inv, Idle, Slot, Steps
<1> QED
    BY <1>1, <1>2

LEMMA AskSteps ==
    ASSUME Inv, Ask
    PROVE  (R!Next \/ UNCHANGED rpcVars) /\ SlotsKept
BY DEF Inv, SlotsKept, Ask

LEMMA TransportFailsSteps ==
    ASSUME Inv, TransportFails
    PROVE  (R!Next \/ UNCHANGED rpcVars) /\ SlotsKept
BY DEF Inv, SlotsKept, TransportFails

LEMMA CapabilityChangesSteps ==
    ASSUME Inv, CapabilityChanges
    PROVE  (R!Next \/ UNCHANGED rpcVars) /\ SlotsKept
BY DEF Inv, SlotsKept, CapabilityChanges

LEMMA TransportReadySteps ==
    ASSUME Inv, NEW c \in Clients, TransportReady(c)
    PROVE  (R!Next \/ UNCHANGED rpcVars) /\ SlotsKept
BY DEF Inv, SlotsKept, TransportReady, R!Next

LEMMA OpenSteps ==
    ASSUME Inv, NEW c \in Clients, NEW h \in Hellos, Open(c, h)
    PROVE  (R!Next \/ UNCHANGED rpcVars) /\ SlotsKept
<1>1. R!Next
    BY DEF Open, R!Next, R!Settle
<1>2. once' = [once EXCEPT ![c] = TRUE]
    BY DEF Open, R!HandleOpen
<1>3. CASE UNCHANGED hello
    BY <1>1, <1>3 DEF Inv, SlotsKept
<1>4. ASSUME NEW isFirst \in BOOLEAN, StartHello(c, h, isFirst) PROVE SlotsKept
    <2>1. \A k \in Hellos : \/ hello'[k].client = c
                             \/ hello'[k] \in {hello[k], [hello[k] EXCEPT !.current = FALSE]}
        BY <1>4 DEF StartHello
    <2>2. hello' \in [Hellos -> Slot]
        BY <1>4 DEF StartHello, Inv, Slot, Steps
    <2> QED
        BY <1>1, <1>2, <2>1, <2>2 DEF Inv, SlotsKept, HelloAfterOpen, Slot
<1>5. once[c] \in BOOLEAN
    BY DEF Inv
<1> QED
    BY <1>1, <1>3, <1>4, <1>5 DEF Open

LEMMA TimeoutSteps ==
    ASSUME Inv, NEW c \in Clients, Timeout(c)
    PROVE  (R!Next \/ UNCHANGED rpcVars) /\ SlotsKept
BY DEF Inv, SlotsKept, Timeout, R!Next, R!Settle

LEMMA LoseSteps ==
    ASSUME Inv, NEW c \in Clients, Lose(c)
    PROVE  (R!Next \/ UNCHANGED rpcVars) /\ SlotsKept
<1>1. R!Next
    BY DEF Lose, R!Next, R!Settle
<1>2. CASE UNCHANGED hello
    BY <1>1, <1>2 DEF Inv, SlotsKept
<1>3. CASE Reject(c, TRUE, {})
    BY <1>1, <1>3, RejectKeeps
<1> QED
    BY <1>2, <1>3 DEF Lose

LEMMA ReconnectSteps ==
    ASSUME Inv, NEW c \in Clients, Reconnect(c)
    PROVE  (R!Next \/ UNCHANGED rpcVars) /\ SlotsKept
BY DEF Inv, SlotsKept, Reconnect, R!Next

LEMMA SendHelloSteps ==
    ASSUME Inv, NEW h \in Hellos, SendHello(h)
    PROVE  (R!Next \/ UNCHANGED rpcVars) /\ SlotsKept
<1>1. CASE socket[hello[h].client] = "open"
    BY <1>1 DEF SendHello, R!Next, Inv, HelloAfterOpen, SlotsKept, Slot, Steps, Asking
<1>2. CASE socket[hello[h].client] # "open"
    BY <1>2, FailKeeps DEF SendHello
<1> QED
    BY <1>1, <1>2

LEMMA HelloAcceptedSteps ==
    ASSUME Inv, NEW h \in Hellos, HelloAccepted(h)
    PROVE  (R!Next \/ UNCHANGED rpcVars) /\ SlotsKept
BY DEF Inv, SlotsKept, HelloAccepted, R!Next, HelloAfterOpen, Slot, Steps, Asking

LEMMA InfoAnsweredSteps ==
    ASSUME Inv, NEW h \in Hellos, InfoAnswered(h)
    PROVE  (R!Next \/ UNCHANGED rpcVars) /\ SlotsKept
<1>1. R!Next
    BY DEF InfoAnswered, R!Next, Inv, HelloAfterOpen
<1>2. CASE hello[h].current
    BY <1>1, <1>2 DEF InfoAnswered, Inv, SlotsKept, Slot, Steps
<1>3. CASE ~hello[h].current
    BY <1>1, <1>3, ConcludeKeeps DEF InfoAnswered
<1> QED
    BY <1>2, <1>3

LEMMA ReadCapsSteps ==
    ASSUME Inv, NEW h \in Hellos, ReadCaps(h)
    PROVE  (R!Next \/ UNCHANGED rpcVars) /\ SlotsKept
BY DEF Inv, SlotsKept, ReadCaps, Slot, Steps

LEMMA SendCapsSteps ==
    ASSUME Inv, NEW h \in Hellos, SendCaps(h)
    PROVE  (R!Next \/ UNCHANGED rpcVars) /\ SlotsKept
<1>1. CASE StillValid(h)
    BY <1>1 DEF SendCaps, R!Next, Inv, HelloAfterOpen, SlotsKept, Slot, Steps, Asking
<1>2. CASE ~StillValid(h)
    BY <1>2, ConcludeKeeps DEF SendCaps
<1> QED
    BY <1>1, <1>2

LEMMA UpdateAcceptedSteps ==
    ASSUME Inv, NEW h \in Hellos, UpdateAccepted(h)
    PROVE  (R!Next \/ UNCHANGED rpcVars) /\ SlotsKept
BY ConcludeKeeps DEF UpdateAccepted, R!Next, Inv, HelloAfterOpen

LEMMA RefusedSteps ==
    ASSUME Inv, NEW h \in Hellos, Refused(h)
    PROVE  (R!Next \/ UNCHANGED rpcVars) /\ SlotsKept
<1>1. SlotsKept /\ (hello[h].first => R!Next)
    BY FailKeeps DEF Refused
<1>2. CASE ~hello[h].first
    BY <1>1, <1>2 DEF Refused, R!Next, Inv, HelloAfterOpen
<1> QED
    BY <1>1, <1>2

LEMMA UpdateSteps ==
    ASSUME Inv, NEW c \in Clients, UpdateStep(c)
    PROVE  (R!Next \/ UNCHANGED rpcVars) /\ SlotsKept
BY DEF Inv, SlotsKept, UpdateStep, StartUpdate, ReadUpdate, SendUpdate,
       UpdateAnswered, R!Next

LEMMA NextSteps ==
    ASSUME Inv, [Next]_vars
    PROVE  (R!Next \/ UNCHANGED rpcVars) /\ Inv'
<1>0. capability' \in Nat
    <2>1. CASE CapabilityChanges
        BY <2>1 DEF CapabilityChanges, Inv
    <2>2. CASE UNCHANGED vars \/ Ask \/ TransportFails
        BY <2>2 DEF vars, Ask, TransportFails, Inv
    <2>3. ASSUME NEW c \in Clients, TransportReady(c) \/ ConnectionStep(c) \/ UpdateStep(c)
          PROVE  UNCHANGED capability
        BY <2>3 DEF TransportReady, ConnectionStep, Open, Timeout, Lose, Reconnect,
                    UpdateStep, StartUpdate, ReadUpdate, SendUpdate, UpdateAnswered
    <2>4. ASSUME NEW h \in Hellos, HelloStep(h) PROVE UNCHANGED capability
        BY <2>4 DEF HelloStep, SendHello, HelloAccepted, InfoAnswered, ReadCaps, SendCaps,
                    UpdateAccepted, Refused
    <2> QED
        BY <2>1, <2>2, <2>3, <2>4 DEF Next, Inv
<1> SUFFICES (R!Next \/ UNCHANGED rpcVars) /\ SlotsKept
    BY <1>0, KeepsInv
<1>1. CASE UNCHANGED vars
    BY <1>1 DEF vars, SlotsKept, Inv
<1>2. CASE Ask \/ TransportFails \/ CapabilityChanges
    BY <1>2, AskSteps, TransportFailsSteps, CapabilityChangesSteps
<1>3. ASSUME NEW c \in Clients, TransportReady(c) \/ ConnectionStep(c) \/ UpdateStep(c)
      PROVE  (R!Next \/ UNCHANGED rpcVars) /\ SlotsKept
    BY <1>3, TransportReadySteps, OpenSteps, TimeoutSteps, LoseSteps, ReconnectSteps,
       UpdateSteps DEF ConnectionStep
<1>4. ASSUME NEW h \in Hellos, HelloStep(h)
      PROVE  (R!Next \/ UNCHANGED rpcVars) /\ SlotsKept
    BY <1>4, SendHelloSteps, HelloAcceptedSteps, InfoAnsweredSteps, ReadCapsSteps,
       SendCapsSteps, UpdateAcceptedSteps, RefusedSteps DEF HelloStep
<1> QED
    BY <1>1, <1>2, <1>3, <1>4 DEF Next

\* The renderer's shared connection drives its clients only as the handlers of
\* BackendRpcClient allow: each of its steps is one of theirs, or none.
THEOREM ImplementsRpcClient == Spec => UsesRpcClient
<1>1. Init => R!Init /\ Inv
    BY DEF Init, Inv, HelloAfterOpen, Idle, Slot, Steps, R!Init
<1>2. Inv /\ [Next]_vars => [R!Next]_rpcVars /\ Inv'
    BY NextSteps
<1> QED
    BY <1>1, <1>2, PTL DEF Spec, UsesRpcClient

---------------------------------------------------------------------------
(* What is proved of RpcClient holds of the clients of the composition     *)

P == INSTANCE RpcClient_proofs WITH Requests <- Hellos \cup {Updates}

LEMMA SameInit == R!Init => P!IInv
<1>1. R!Init => P!Init
    BY DEF R!Init, P!Init
<1> QED
    BY <1>1, P!InitIInv, BoundsAssumption

LEMMA SameNext == R!Next => P!Next
BY DEF R!Next, R!Connect, R!FireReconnect, R!Settle, R!HandleOpen, R!HandleTimeout,
       R!HandleClose, R!Close, R!HandleCloseThenClose, R!Send, R!Receive,
       R!ReceiveThenSend, R!Fresh, R!Exhausted,
       P!Next, P!Connect, P!FireReconnect, P!Settle, P!HandleOpen, P!HandleTimeout,
       P!HandleClose, P!Close, P!HandleCloseThenClose, P!Send, P!Receive,
       P!ReceiveThenSend, P!Fresh, P!Exhausted

LEMMA KeepsClientInv == P!IInv /\ [R!Next]_rpcVars => P!IInv'
BY SameNext, P!NextIInv, BoundsAssumption DEF rpcVars, P!rpcVars

\* Whatever handshakes, updates and losses interleave: no request of the shared
\* connection outlives its socket, none of its clients is stranded or opens a
\* second socket.
THEOREM ClientsAreSafe ==
    Spec => [](R!PendingOnlyWhenOpen /\ R!NeverStranded /\ R!TimerMeansNoSocket)
<1>1. P!IInv => R!PendingOnlyWhenOpen /\ R!NeverStranded /\ R!TimerMeansNoSocket
    BY DEF P!IInv, P!PendingOnlyWhenOpen, P!NeverStranded, P!TimerMeansNoSocket,
           R!PendingOnlyWhenOpen, R!NeverStranded, R!TimerMeansNoSocket,
           P!Fresh, R!Fresh, P!Exhausted, R!Exhausted
<1>2. Spec => R!Init /\ [][R!Next]_rpcVars
    BY ImplementsRpcClient DEF UsesRpcClient
<1> QED
    BY <1>1, <1>2, SameInit, KeepsClientInv, PTL

---------------------------------------------------------------------------
(* The two layers agree on what is pending                                 *)

Link == [queued : Nat, snap : Nat, step : {"idle", "readCaps", "haveCaps", "update"}]

\* AwaitedIsPending, one request at a time.
Agree ==
    \A c \in Clients :
        /\ \A h \in Hellos : h \in pending[c] <=> hello[h].client = c /\ hello[h].step \in Asking
        /\ Updates \in pending[c] <=> updates[c].step = "update"

\* The part of the clients' invariant that the agreement needs: what is pending
\* is a handshake or the chain, on an open socket.
PendingOnLiveSocket ==
    /\ pending \in [Clients -> SUBSET (Hellos \cup {Updates})]
    /\ \A c \in Clients : pending[c] # {} => socket[c] = "open"

AgreeInv == Inv /\ PendingOnLiveSocket /\ updates \in [Clients -> Link] /\ Agree

\* What each action has to show.
AgreeKept == updates' \in [Clients -> Link] /\ Agree'

LEMMA AgreeMeansAwaited ==
    ASSUME PendingOnLiveSocket, Agree PROVE AwaitedIsPending
<1> SUFFICES ASSUME NEW c \in Clients
             PROVE  pending[c] = {h \in HellosOf(c) : hello[h].step \in Asking}
                                 \cup {u \in {Updates} : updates[c].step = "update"}
    BY DEF AwaitedIsPending
<1>1. pending[c] \subseteq Hellos \cup {Updates}
    BY DEF PendingOnLiveSocket
<1> QED
    BY <1>1, NamesAssumption DEF Agree, HellosOf

\* A client with nothing pending awaits nothing.
LEMMA NothingPending ==
    ASSUME AgreeInv, NEW c \in Clients, socket[c] # "open"
    PROVE  /\ pending[c] = {}
           /\ updates[c].step # "update"
           /\ \A h \in Hellos : hello[h].client = c => hello[h].step \notin Asking
BY DEF AgreeInv, PendingOnLiveSocket, Agree

\* A client whose requests are rejected, whose handshakes that await an answer
\* fail with them and whose chain is dropped.
LEMMA DropAgrees ==
    ASSUME AgreeInv, NEW c \in Clients, NEW heard \in BOOLEAN,
           NEW failed \in SUBSET HellosOf(c), Reject(c, heard, failed), Forget(c, heard),
           pending' = [pending EXCEPT ![c] = {}]
    PROVE  AgreeKept
<1>1. \A h \in Hellos :
          IF hello[h].client = c
          THEN hello'[h].client = c => hello'[h].step \notin Asking
          ELSE hello'[h] = hello[h]
    BY DEF Reject, HellosOf, AgreeInv, Inv, Slot, Idle, Asking
<1>2. \A h \in Hellos : hello'[h].step \in Asking => hello'[h] = hello[h]
    BY DEF Reject, HellosOf, AgreeInv, Inv, Slot, Idle, Asking
<1>3. updates' \in [Clients -> Link] /\ updates' = [updates EXCEPT ![c] = NoUpdates]
    BY DEF Forget, AgreeInv, Link, NoUpdates
<1> QED
    BY <1>1, <1>2, <1>3 DEF AgreeKept, AgreeInv, Agree, PendingOnLiveSocket, NoUpdates

\* A handshake that awaits nothing, or whose answer has just come, ends.
LEMMA ConcludeAgrees ==
    ASSUME AgreeInv, NEW h \in Hellos, hello' = [hello EXCEPT ![h] = Idle],
           UNCHANGED updates,
           \/ hello[h].step \notin Asking /\ UNCHANGED pending
           \/ pending' = [pending EXCEPT ![hello[h].client] = @ \ {h}]
    PROVE  AgreeKept
BY NamesAssumption DEF AgreeKept, AgreeInv, Agree, PendingOnLiveSocket, Inv, Slot, Idle, Asking

\* A handshake goes on with the same client.
LEMMA GoesOnAgrees ==
    ASSUME AgreeInv, NEW h \in Hellos, hello[h].client \in Clients,
           hello' \in [Hellos -> Slot], UNCHANGED updates,
           \A k \in Hellos \ {h} : hello'[k] = hello[k],
           hello'[h].client = hello[h].client,
           pending' = [pending EXCEPT ![hello[h].client] =
                          IF hello'[h].step \in Asking THEN @ \cup {h} ELSE @ \ {h}]
    PROVE  AgreeKept
BY NamesAssumption DEF AgreeKept, AgreeInv, Agree, PendingOnLiveSocket, Inv

LEMMA FailAgrees ==
    ASSUME AgreeInv, NEW h \in Hellos, hello[h].step # "idle", Fail(h),
           \/ hello[h].first
           \/ hello[h].step \notin Asking /\ UNCHANGED pending
           \/ pending' = [pending EXCEPT ![hello[h].client] = @ \ {h}]
    PROVE  AgreeKept
<1>1. CASE hello[h].first
    <2>1. hello[h].client \in Clients /\ {h} \in SUBSET HellosOf(hello[h].client)
        BY DEF AgreeInv, Inv, HelloAfterOpen, HellosOf
    <2> QED
        BY <1>1, <2>1, DropAgrees DEF Fail, R!Close
<1>2. CASE ~hello[h].first
    BY <1>2, ConcludeAgrees DEF Fail
<1> QED
    BY <1>1, <1>2

LEMMA SharedAgrees ==
    ASSUME AgreeInv, Ask \/ TransportFails \/ CapabilityChanges PROVE AgreeKept
<1>1. CASE Ask \/ TransportFails
    BY <1>1 DEF Ask, TransportFails, rpcVars, AgreeKept, AgreeInv, Agree
<1>2. CASE CapabilityChanges
    <2>1. CASE UNCHANGED updates
        BY <1>2, <2>1 DEF CapabilityChanges, rpcVars, AgreeKept, AgreeInv, Agree
    <2>2. CASE updates' = [updates EXCEPT ![backendClient].queued = @ + 1]
        <3>1. updates' \in [Clients -> Link]
            <4>1. CASE backendClient \in Clients
                <5>1. updates[backendClient] \in Link
                    BY <4>1 DEF AgreeInv
                <5>2. [updates[backendClient] EXCEPT !.queued = @ + 1] \in Link
                    BY <5>1 DEF Link
                <5> QED
                    BY <2>2, <5>2 DEF AgreeInv
            <4>2. CASE backendClient \notin Clients
                BY <2>2, <4>2 DEF AgreeInv
            <4> QED
                BY <4>1, <4>2
        <3>2. \A c \in Clients : updates'[c].step = updates[c].step
            BY <2>2 DEF AgreeInv, Link
        <3> QED
            BY <1>2, <3>1, <3>2 DEF CapabilityChanges, rpcVars, AgreeKept, AgreeInv, Agree
    <2> QED
        BY <1>2, <2>1, <2>2 DEF CapabilityChanges
<1> QED
    BY <1>1, <1>2

LEMMA QuietStepsAgree ==
    ASSUME AgreeInv, NEW c \in Clients, TransportReady(c) \/ Timeout(c) \/ Reconnect(c)
    PROVE  AgreeKept
BY DEF TransportReady, Timeout, Reconnect, R!Connect, R!HandleTimeout, R!FireReconnect,
       AgreeKept, AgreeInv, Agree

LEMMA OpenAgrees ==
    ASSUME AgreeInv, NEW c \in Clients, NEW h \in Hellos, Open(c, h) PROVE AgreeKept
<1>1. socket[c] = "opening" /\ UNCHANGED pending
    BY DEF Open, R!HandleOpen
<1>2. CASE UNCHANGED <<hello, updates>>
    BY <1>1, <1>2 DEF AgreeKept, AgreeInv, Agree
<1>3. ASSUME NEW isFirst \in BOOLEAN, StartHello(c, h, isFirst) PROVE AgreeKept
    <2>1. /\ \A k \in Hellos \ {h} : /\ hello'[k].client = hello[k].client
                                      /\ hello'[k].step = hello[k].step
          /\ hello[h].step = "idle" /\ hello'[h].step = "readHello"
        BY <1>3 DEF StartHello, AgreeInv, Inv, Slot
    <2>2. /\ updates' \in [Clients -> Link]
          /\ updates' = [updates EXCEPT ![c] = NoUpdates]
        BY <1>3 DEF StartHello, AgreeInv, Link, NoUpdates
    <2>3. updates[c].step # "update"
        BY <1>1, NothingPending
    <2> QED
        BY <1>1, <2>1, <2>2, <2>3 DEF AgreeKept, AgreeInv, Agree, Asking, NoUpdates
<1>4. once[c] \in BOOLEAN
    BY DEF AgreeInv, Inv
<1> QED
    BY <1>2, <1>3, <1>4 DEF Open

LEMMA LoseAgrees ==
    ASSUME AgreeInv, NEW c \in Clients, Lose(c) PROVE AgreeKept
<1>1. pending' = [pending EXCEPT ![c] = {}]
    BY DEF Lose, R!HandleClose, R!HandleCloseThenClose
<1>2. CASE Reject(c, TRUE, {})
    BY <1>1, <1>2, DropAgrees DEF Lose
<1>3. CASE socket[c] = "opening" /\ UNCHANGED hello
    <2>1. updates' \in [Clients -> Link] /\ updates' = [updates EXCEPT ![c] = NoUpdates]
        BY DEF Lose, Forget, AgreeInv, Link, NoUpdates
    <2>2. \A k \in Hellos : hello[k].client = c => hello[k].step \notin Asking
        BY <1>3, NothingPending
    <2> QED
        BY <1>1, <1>3, <2>1, <2>2 DEF AgreeKept, AgreeInv, Agree, PendingOnLiveSocket, NoUpdates
<1> QED
    BY <1>2, <1>3 DEF Lose

LEMMA SendHelloAgrees ==
    ASSUME AgreeInv, NEW h \in Hellos, SendHello(h) PROVE AgreeKept
<1>1. CASE socket[hello[h].client] = "open"
    <2>1. hello' = [hello EXCEPT ![h].step = "hello", ![h].snap = capability]
        BY <1>1 DEF SendHello
    <2>2. hello' \in [Hellos -> Slot]
        BY ZenonT(60), <2>1 DEF AgreeInv, Inv, Slot, Steps, Asking
    <2>3. /\ hello'[h].client = hello[h].client /\ hello'[h].step = "hello"
          /\ hello[h].client \in Clients /\ UNCHANGED updates
          /\ \A k \in Hellos \ {h} : hello'[k] = hello[k]
        BY <1>1, <2>1 DEF SendHello, AgreeInv, Inv, HelloAfterOpen, Slot
    <2> QED
        BY <1>1, <2>2, <2>3, GoesOnAgrees DEF SendHello, R!Send, Asking
<1>2. CASE socket[hello[h].client] # "open"
    BY <1>2, FailAgrees DEF SendHello, rpcVars, Asking
<1> QED
    BY <1>1, <1>2

LEMMA AnswerAgrees ==
    ASSUME AgreeInv, NEW h \in Hellos, HelloAccepted(h) \/ InfoAnswered(h) \/ UpdateAccepted(h)
    PROVE  AgreeKept
<1> USE DEF AgreeInv, Inv, HelloAfterOpen
<1>1. CASE HelloAccepted(h)
    <2>1. h \in pending[hello[h].client]
        BY <1>1 DEF HelloAccepted, R!ReceiveThenSend
    <2> QED
        BY <1>1, <2>1, GoesOnAgrees DEF HelloAccepted, R!ReceiveThenSend, Slot, Steps, Asking
<1>2. CASE InfoAnswered(h)
    <2>1. CASE hello[h].current
        <3>1. hello' = [hello EXCEPT ![h].step = "readCaps"]
            BY <1>2, <2>1 DEF InfoAnswered
        <3>2. hello' \in [Hellos -> Slot]
            BY <3>1 DEF Slot, Steps
        <3>3. /\ hello'[h].client = hello[h].client /\ hello'[h].step = "readCaps"
              /\ hello[h].client \in Clients /\ UNCHANGED updates
              /\ \A k \in Hellos \ {h} : hello'[k] = hello[k]
            BY <1>2, <3>1 DEF InfoAnswered, Slot
        <3> QED
            BY <1>2, <3>2, <3>3, GoesOnAgrees DEF InfoAnswered, R!Receive, Asking
    <2>2. CASE ~hello[h].current
        BY <1>2, <2>2, ConcludeAgrees DEF InfoAnswered, R!Receive, Conclude
    <2> QED
        BY <2>1, <2>2
<1>3. CASE UpdateAccepted(h)
    BY <1>3, ConcludeAgrees DEF UpdateAccepted, R!Receive, Conclude
<1> QED
    BY <1>1, <1>2, <1>3

LEMMA CapsAgree ==
    ASSUME AgreeInv, NEW h \in Hellos, ReadCaps(h) \/ SendCaps(h) PROVE AgreeKept
<1> USE DEF AgreeInv, Inv, HelloAfterOpen
<1>1. CASE ReadCaps(h)
    <2>1. h \notin pending[hello[h].client]
        BY <1>1 DEF ReadCaps, Agree, Asking
    <2> QED
        BY <1>1, <2>1 DEF ReadCaps, rpcVars, Slot, Steps, Asking, AgreeKept, Agree
<1>2. CASE SendCaps(h) /\ StillValid(h)
    <2>1. hello' = [hello EXCEPT ![h].step = "update"]
        BY <1>2 DEF SendCaps
    <2>2. hello' \in [Hellos -> Slot]
        BY <2>1 DEF Slot, Steps, Asking
    <2>3. /\ hello'[h].client = hello[h].client /\ hello'[h].step = "update"
          /\ hello[h].client \in Clients /\ UNCHANGED updates
          /\ \A k \in Hellos \ {h} : hello'[k] = hello[k]
        BY <1>2, <2>1 DEF SendCaps, Slot
    <2> QED
        BY <1>2, <2>2, <2>3, GoesOnAgrees DEF SendCaps, R!Send, Asking
<1>3. CASE SendCaps(h) /\ ~StillValid(h)
    BY <1>3, ConcludeAgrees DEF SendCaps, Conclude, rpcVars, Asking
<1> QED
    BY <1>1, <1>2, <1>3

LEMMA RefusedAgrees ==
    ASSUME AgreeInv, NEW h \in Hellos, Refused(h) PROVE AgreeKept
BY FailAgrees DEF Refused, R!Receive

LEMMA UpdateAgrees ==
    ASSUME AgreeInv, NEW c \in Clients, UpdateStep(c) PROVE AgreeKept
<1> USE DEF AgreeInv, PendingOnLiveSocket, Agree, AgreeKept, Link
<1>1. CASE StartUpdate(c) \/ ReadUpdate(c)
    <2>1. updates' \in [Clients -> Link]
        BY <1>1 DEF StartUpdate, ReadUpdate, Inv
    <2>2. \A d \in Clients : updates'[d].step = "update" <=> updates[d].step = "update"
        BY <1>1 DEF StartUpdate, ReadUpdate, ChainFree
    <2> QED
        BY <1>1, <2>1, <2>2 DEF StartUpdate, ReadUpdate, rpcVars
<1>2. CASE SendUpdate(c)
    <2>1. updates' = [updates EXCEPT ![c].step = "update"]
        BY <1>2 DEF SendUpdate
    <2>2. updates' \in [Clients -> Link]
        BY <2>1
    <2>3. /\ updates'[c].step = "update"
          /\ \A d \in Clients \ {c} : updates'[d] = updates[d]
        BY <2>1
    <2> QED
        BY <1>2, <2>2, <2>3, NamesAssumption DEF SendUpdate, R!Send
<1>3. CASE \E accepted \in BOOLEAN : UpdateAnswered(c, accepted)
    <2>1. updates' = [updates EXCEPT ![c].step = "idle", ![c].snap = 0]
        BY <1>3 DEF UpdateAnswered
    <2>2. \A l \in Link : [l EXCEPT !.step = "idle", !.snap = 0] \in Link
        OBVIOUS
    <2>3. updates' \in [Clients -> Link]
        <3> HIDE DEF Link
        <3> QED
            BY <2>1, <2>2
    <2>4. /\ updates'[c].step = "idle"
          /\ \A d \in Clients \ {c} : updates'[d] = updates[d]
        BY <2>1
    <2>5. UNCHANGED hello /\ pending' = [pending EXCEPT ![c] = @ \ {Updates}]
        BY <1>3 DEF UpdateAnswered, R!Receive
    <2> QED
        BY <2>3, <2>4, <2>5, NamesAssumption
<1> QED
    BY <1>1, <1>2, <1>3 DEF UpdateStep

LEMMA NextAgrees ==
    ASSUME AgreeInv, [Next]_vars PROVE AgreeKept
<1>1. CASE UNCHANGED vars
    BY <1>1 DEF vars, rpcVars, AgreeInv, AgreeKept, Agree
<1>2. CASE Ask \/ TransportFails \/ CapabilityChanges
    BY <1>2, SharedAgrees
<1>3. ASSUME NEW c \in Clients, TransportReady(c) \/ ConnectionStep(c) \/ UpdateStep(c)
      PROVE  AgreeKept
    BY <1>3, QuietStepsAgree, OpenAgrees, LoseAgrees, UpdateAgrees DEF ConnectionStep
<1>4. ASSUME NEW h \in Hellos, HelloStep(h) PROVE AgreeKept
    BY <1>4, SendHelloAgrees, AnswerAgrees, CapsAgree, RefusedAgrees DEF HelloStep
<1> QED
    BY <1>1, <1>2, <1>3, <1>4 DEF Next

LEMMA InitAgrees == Init => P!IInv /\ AgreeInv
<1>1. Init => P!IInv /\ Inv
    BY SameInit DEF Init, Inv, HelloAfterOpen, Idle, Slot, Steps, R!Init
<1>2. Init => PendingOnLiveSocket /\ updates \in [Clients -> Link] /\ Agree
    BY DEF Init, R!Init, PendingOnLiveSocket, Link, NoUpdates, Agree, Idle, Asking
<1> QED
    BY <1>1, <1>2 DEF AgreeInv

\* Whatever is dropped, refused, closed or repeated: a handshake or an update
\* that awaits an answer has its request pending on a live socket, and nothing
\* is pending that nobody awaits.
THEOREM NobodyAwaitsInVain == Spec => []AwaitedIsPending
<1>1. Init => P!IInv /\ AgreeInv
    BY InitAgrees
<1>2. (P!IInv => PendingOnLiveSocket) /\ (P!IInv' => PendingOnLiveSocket')
    BY DEF P!IInv, P!TypeOK, P!PendingOnlyWhenOpen, PendingOnLiveSocket
<1>3. P!IInv /\ AgreeInv /\ [Next]_vars => P!IInv' /\ AgreeInv'
    <2> SUFFICES ASSUME P!IInv, AgreeInv, [Next]_vars PROVE P!IInv' /\ AgreeInv'
        OBVIOUS
    <2>1. P!IInv' /\ Inv'
        BY NextSteps, KeepsClientInv DEF AgreeInv
    <2>2. PendingOnLiveSocket'
        BY <2>1, <1>2
    <2> QED
        BY <2>1, <2>2, NextAgrees DEF AgreeInv, AgreeKept
<1>4. AgreeInv => AwaitedIsPending
    BY AgreeMeansAwaited DEF AgreeInv
<1> QED
    BY <1>1, <1>3, <1>4, PTL DEF Spec
---------------------------------------------------------------------------
(* The chain of updates is serial, and later is newer                      *)

Opening  == {"readHello", "hello", "info"}
Carrying == {"haveCaps", "update"}

\* Only the current handshake of a client asks anything; one that outlived its
\* connection and has said nothing yet finds no socket to say it on.
NoStaleRequest ==
    \A h \in Hellos :
        /\ hello[h].step \in Asking => hello[h].current
        /\ hello[h].step = "readHello" /\ ~hello[h].current => socket[hello[h].client] # "open"

\* A client has one current handshake, in progress.
OneCurrent ==
    /\ \A h \in Hellos : hello[h].current => hello[h].step # "idle"
    /\ \A h, k \in Hellos :
           hello[h].current /\ hello[k].current /\ hello[h].client = hello[k].client => h = k

\* The chain waits behind the current handshake.
ChainWaits ==
    \A h \in Hellos : hello[h].current =>
        /\ updates[hello[h].client].step = "idle"
        /\ hello[h].step \in Opening => /\ updates[hello[h].client].queued = 0
                                        /\ negotiation[hello[h].client] = "pending"

\* Nothing is newer than the runtime, and what is on its way to the backend is
\* not older than what the backend holds.
NothingOlder ==
    /\ \A h \in Hellos :
           /\ hello[h].snap <= capability
           /\ hello[h].current /\ hello[h].step \in Carrying =>
                  hello[h].snap >= known[hello[h].client]
    /\ \A c \in Clients :
           /\ known[c] <= capability /\ updates[c].snap <= capability
           /\ updates[c].step \in Carrying => updates[c].snap >= known[c]

Held == /\ known \in [Clients -> Nat]
        /\ negotiation \in [Clients -> {"none", "pending", "ready"}]

Serial == Held /\ NoStaleRequest /\ OneCurrent /\ ChainWaits /\ NothingOlder

SerialInv == AgreeInv /\ socket \in [Clients -> R!Sockets] /\ Serial

\* A handshake whose client matters has one.
LEMMA ClientOfStep ==
    ASSUME SerialInv, NEW h \in Hellos, hello[h].step # "idle" \/ hello[h].current
    PROVE  hello[h].client \in Clients
BY DEF SerialInv, Serial, OneCurrent, AgreeInv, Inv, HelloAfterOpen

\* Nothing here changes, but for the sockets of clients that are not open.
LEMMA OtherSerial ==
    ASSUME SerialInv, UNCHANGED <<hello, updates, known, negotiation, capability>>,
           \A d \in Clients : socket'[d] = "open" => socket[d] = "open"
    PROVE  Serial'
<1>1. NoStaleRequest'
    BY ClientOfStep DEF SerialInv, Serial, NoStaleRequest
<1> QED
    BY <1>1 DEF SerialInv, Serial, Held, OneCurrent, ChainWaits, NothingOlder

\* A client is dropped: its requests, its chain and what the backend held.
LEMMA DropSerial ==
    ASSUME SerialInv, NEW c \in Clients, NEW heard \in BOOLEAN,
           NEW failed \in SUBSET HellosOf(c), Reject(c, heard, failed), Forget(c, heard),
           UNCHANGED capability, socket'[c] # "open",
           \A d \in Clients \ {c} : socket'[d] = socket[d]
    PROVE  Serial'
<1> USE DEF SerialInv, Serial
<1>1. \A h \in Hellos : \/ hello'[h] = Idle \/ hello'[h] = hello[h]
                        \/ hello[h].client = c /\ hello'[h] = [hello[h] EXCEPT !.current = FALSE]
    BY DEF Reject, HellosOf
<1>2. \A h \in Hellos : hello'[h].client = c => hello'[h].step \notin Asking
    BY DEF Reject, HellosOf, AgreeInv, Inv, Slot, Idle, Asking
<1>3. heard => \A h \in Hellos : hello'[h].client = c => ~hello'[h].current
    BY DEF Reject, HellosOf, AgreeInv, Inv, Slot, Idle
<1>4. /\ updates' = [updates EXCEPT ![c] = NoUpdates]
      /\ known' = [known EXCEPT ![c] = 0]
      /\ IF heard THEN negotiation' = [negotiation EXCEPT ![c] = "none"]
                  ELSE negotiation' = negotiation
    BY DEF Forget
<1>5. /\ updates'[c] = NoUpdates /\ known'[c] = 0
      /\ \A d \in Clients \ {c} : /\ updates'[d] = updates[d] /\ known'[d] = known[d]
                                  /\ negotiation'[d] = negotiation[d]
      /\ heard \/ negotiation' = negotiation
    BY <1>4 DEF AgreeInv, Held
<1>6. Held'
    BY <1>4 DEF Held
<1>7. ASSUME NEW h \in Hellos
      PROVE
          /\ hello'[h].current => /\ hello[h].current /\ hello'[h].client = hello[h].client
                                  /\ hello'[h].step = hello[h].step /\ hello'[h].snap = hello[h].snap
          /\ hello'[h].step # "idle" => /\ hello'[h].client = hello[h].client
                                        /\ hello'[h].step = hello[h].step
          /\ hello'[h].snap \in {0, hello[h].snap}
          /\ hello'[h].step # "idle" /\ hello'[h].client # c => hello'[h] = hello[h]
    <2>1. CASE hello'[h] = Idle
        BY <2>1 DEF Idle
    <2>2. CASE hello'[h] = hello[h]
        BY <2>2
    <2>3. CASE hello[h].client = c /\ hello'[h] = [hello[h] EXCEPT !.current = FALSE]
        <3>1. hello[h] \in Slot
            BY DEF AgreeInv, Inv
        <3>2. /\ hello'[h].client = hello[h].client /\ hello'[h].step = hello[h].step
              /\ hello'[h].snap = hello[h].snap /\ ~hello'[h].current
            BY <2>3, <3>1 DEF Slot
        <3> QED
            BY <2>3, <3>2
    <2> QED
        BY <1>1, <2>1, <2>2, <2>3
<1>8. NoStaleRequest'
    BY <1>2, <1>7, ClientOfStep DEF NoStaleRequest, Asking
<1>9. OneCurrent'
    BY <1>7 DEF OneCurrent
<1>10. ChainWaits'
    BY <1>3, <1>5, <1>7, ClientOfStep DEF ChainWaits, NoUpdates
<1>11. NothingOlder'
    <2>1. \A h \in Hellos : hello'[h].snap <= capability'
        BY <1>7 DEF NothingOlder, Inv, AgreeInv
    <2>2. ASSUME NEW h \in Hellos, hello'[h].current, hello'[h].step \in Carrying
          PROVE  hello'[h].snap >= known'[hello'[h].client]
        BY <1>5, <1>7, <2>2, ClientOfStep DEF NothingOlder, Inv, AgreeInv, Slot, Held
    <2>3. \A d \in Clients : /\ known'[d] <= capability' /\ updates'[d].snap <= capability'
                             /\ updates'[d].step \in Carrying => updates'[d].snap >= known'[d]
        BY <1>5 DEF NothingOlder, NoUpdates, Inv, AgreeInv, Carrying
    <2> QED
        BY <2>1, <2>2, <2>3 DEF NothingOlder
<1> QED
    BY <1>6, <1>8, <1>9, <1>10, <1>11

\* A handshake ends, and the backend holds what it held or what it brought.
LEMMA ConcludeSerial ==
    ASSUME SerialInv, NEW h \in Hellos, hello' = [hello EXCEPT ![h] = Idle],
           UNCHANGED <<updates, negotiation, capability, socket>>,
           \/ UNCHANGED known
           \/ /\ hello[h].step = "update"
              /\ known' = [known EXCEPT ![hello[h].client] = hello[h].snap]
    PROVE  Serial'
<1> USE DEF SerialInv, Serial
<1>1. hello'[h] = Idle /\ \A k \in Hellos \ {h} : hello'[k] = hello[k]
    BY DEF AgreeInv, Inv
<1>2. NoStaleRequest' /\ OneCurrent' /\ ChainWaits'
    BY <1>1 DEF NoStaleRequest, OneCurrent, ChainWaits, Idle, Asking
<1>3. CASE UNCHANGED known
    BY <1>1, <1>2, <1>3 DEF Held, NothingOlder, Idle, Inv, AgreeInv
<1>4. CASE hello[h].step = "update" /\ known' = [known EXCEPT ![hello[h].client] = hello[h].snap]
    <2> DEFINE c == hello[h].client
    <2>1. c \in Clients /\ hello[h].current
        BY <1>4, ClientOfStep DEF NoStaleRequest, Asking
    <2>2. updates[c].step = "idle" /\ \A k \in Hellos \ {h} : hello[k].current => hello[k].client # c
        BY <2>1 DEF ChainWaits, OneCurrent
    <2>3. known' \in [Clients -> Nat] /\ known'[c] = hello[h].snap
          /\ \A d \in Clients \ {c} : known'[d] = known[d]
        BY <1>4, <2>1 DEF Held, AgreeInv, Inv, Slot
    <2>4. \A k \in Hellos : hello'[k].snap <= capability'
        BY <1>1 DEF NothingOlder, Idle, AgreeInv, Inv
    <2>5. ASSUME NEW k \in Hellos, hello'[k].current, hello'[k].step \in Carrying
          PROVE  hello'[k].snap >= known'[hello'[k].client]
        <3>1. k # h /\ hello'[k] = hello[k] /\ hello[k].client # c
            BY <1>1, <2>2, <2>5 DEF Idle
        <3> QED
            BY <2>3, <2>5, <3>1, ClientOfStep DEF NothingOlder
    <2>6. \A d \in Clients : /\ known'[d] <= capability' /\ updates'[d].snap <= capability'
                             /\ updates'[d].step \in Carrying => updates'[d].snap >= known'[d]
        BY <2>2, <2>3 DEF NothingOlder, Carrying
    <2> QED
        BY <1>2, <2>3, <2>4, <2>5, <2>6 DEF Held, NothingOlder
<1> QED
    BY <1>3, <1>4

\* A handshake goes on with its client, and takes at most one more snapshot of
\* the runtime's capabilities.
LEMMA GoesOnSerial ==
    ASSUME SerialInv, NEW h \in Hellos, hello[h].step # "idle",
           hello' \in [Hellos -> Slot], \A k \in Hellos \ {h} : hello'[k] = hello[k],
           hello'[h].client = hello[h].client, hello'[h].current = hello[h].current,
           hello'[h].step # "idle", hello'[h].step # "readHello",
           hello'[h].step \in Asking => hello[h].current,
           hello'[h].step \in Opening => hello[h].step \in Opening,
           \/ hello'[h].snap = capability
           \/ /\ hello'[h].snap = hello[h].snap
              /\ hello'[h].step \in Carrying => hello[h].step \in Carrying,
           UNCHANGED <<updates, known, capability, socket>>,
           \/ UNCHANGED negotiation
           \/ /\ hello[h].current /\ hello'[h].step \notin Opening
              /\ negotiation' = [negotiation EXCEPT ![hello[h].client] = "ready"]
    PROVE  Serial'
<1> USE DEF SerialInv, Serial
<1>0. hello[h].client \in Clients /\ hello[h] \in Slot /\ capability \in Nat
    BY ClientOfStep DEF AgreeInv, Inv
<1>1. Held'
    BY DEF Held
<1>2. NoStaleRequest' /\ OneCurrent'
    BY DEF NoStaleRequest, OneCurrent
<1>3. ChainWaits'
    <2>1. CASE UNCHANGED negotiation
        BY <2>1 DEF ChainWaits
    <2>2. CASE /\ hello[h].current /\ hello'[h].step \notin Opening
               /\ negotiation' = [negotiation EXCEPT ![hello[h].client] = "ready"]
        <3>1. \A k \in Hellos \ {h} : hello[k].current => negotiation'[hello[k].client] = negotiation[hello[k].client]
            BY <2>2, ClientOfStep DEF OneCurrent, Held
        <3> QED
            BY <2>2, <3>1 DEF ChainWaits
    <2> QED
        BY <2>1, <2>2
<1>4. NothingOlder'
    BY <1>0 DEF NothingOlder, Held
<1> QED
    BY <1>1, <1>2, <1>3, <1>4

LEMMA SharedSerial ==
    ASSUME SerialInv, Ask \/ TransportFails \/ CapabilityChanges PROVE Serial'
<1>1. CASE Ask \/ TransportFails
    BY <1>1, OtherSerial DEF Ask, TransportFails, rpcVars, backendVars
<1>2. CASE CapabilityChanges
    <2> USE DEF SerialInv, Serial
    <2>0. capability \in Nat /\ capability' = capability + 1 /\ updates \in [Clients -> Link]
          /\ UNCHANGED <<hello, known, negotiation, socket>>
        BY <1>2 DEF CapabilityChanges, AgreeInv, Inv, rpcVars, backendVars
    <2>1. \A c \in Clients :
              /\ updates'[c].step = updates[c].step /\ updates'[c].snap = updates[c].snap
              /\ updates'[c].queued = updates[c].queued \/ negotiation[c] = "ready"
        BY <1>2, <2>0 DEF CapabilityChanges, Link
    <2>2. Held' /\ NoStaleRequest' /\ OneCurrent'
        BY <2>0 DEF Held, NoStaleRequest, OneCurrent
    <2>3. ChainWaits'
        BY <2>0, <2>1, ClientOfStep DEF ChainWaits
    <2>4. \A h \in Hellos : /\ hello'[h].snap <= capability'
                            /\ hello'[h].current /\ hello'[h].step \in Carrying =>
                                   hello'[h].snap >= known'[hello'[h].client]
        BY <2>0 DEF NothingOlder, AgreeInv, Inv, Slot
    <2>5. \A c \in Clients : /\ known'[c] <= capability' /\ updates'[c].snap <= capability'
                             /\ updates'[c].step \in Carrying => updates'[c].snap >= known'[c]
        BY <2>0, <2>1 DEF NothingOlder, Held, Link
    <2> QED
        BY <2>2, <2>3, <2>4, <2>5 DEF NothingOlder
<1> QED
    BY <1>1, <1>2

LEMMA QuietStepsSerial ==
    ASSUME SerialInv, NEW c \in Clients, TransportReady(c) \/ Timeout(c) \/ Reconnect(c)
    PROVE  Serial'
<1>1. \A d \in Clients : socket'[d] = "open" => socket[d] = "open"
    BY DEF TransportReady, Timeout, Reconnect, R!Connect, R!HandleTimeout, R!FireReconnect,
           SerialInv
<1> QED
    BY <1>1, OtherSerial DEF TransportReady, Timeout, Reconnect, backendVars

LEMMA OpenSerial ==
    ASSUME SerialInv, PromptHello, NEW c \in Clients, NEW h \in Hellos, Open(c, h)
    PROVE  Serial'
<1> USE DEF SerialInv, Serial
<1>1. /\ socket[c] = "opening" /\ socket' = [socket EXCEPT ![c] = "open"]
      /\ UNCHANGED <<known, capability>>
    BY DEF Open, R!HandleOpen, backendVars
<1>2. socket'[c] = "open" /\ \A d \in Clients \ {c} : socket'[d] = socket[d]
    BY <1>1
<1>3. \A k \in Hellos : hello[k].client = c => hello[k].step \notin Asking \cup {"readHello"}
    BY <1>1, <1>2, NothingPending DEF PromptHello, HellosOf
<1>4. CASE UNCHANGED <<negotiation, hello, updates>>
    <2>1. NoStaleRequest'
        BY <1>2, <1>3, <1>4, ClientOfStep DEF NoStaleRequest
    <2> QED
        BY <1>1, <1>4, <2>1 DEF Held, OneCurrent, ChainWaits, NothingOlder
<1>5. ASSUME NEW isFirst \in BOOLEAN, StartHello(c, h, isFirst) PROVE Serial'
    <2>1. /\ hello[h].step = "idle"
          /\ hello'[h] = [client |-> c, step |-> "readHello", first |-> isFirst,
                          current |-> TRUE, snap |-> 0]
          /\ \A k \in Hellos \ {h} :
                 hello'[k] = IF hello[k].client = c THEN [hello[k] EXCEPT !.current = FALSE]
                                                   ELSE hello[k]
        BY <1>5 DEF StartHello
    <2>2. /\ updates' = [updates EXCEPT ![c] = NoUpdates]
          /\ negotiation' = [negotiation EXCEPT ![c] = "pending"]
        BY <1>5 DEF StartHello
    <2>3. /\ updates'[c] = NoUpdates /\ negotiation'[c] = "pending"
          /\ \A d \in Clients \ {c} : updates'[d] = updates[d] /\ negotiation'[d] = negotiation[d]
        BY <2>2 DEF AgreeInv, Held
    <2>4. ASSUME NEW k \in Hellos \ {h}
          PROVE  /\ hello'[k].client = hello[k].client /\ hello'[k].step = hello[k].step
                 /\ hello'[k].snap = hello[k].snap
                 /\ hello'[k].current => hello[k].current /\ hello[k].client # c
                 /\ hello[k].client # c => hello'[k].current = hello[k].current
        <3>1. hello[k] \in Slot
            BY DEF AgreeInv, Inv
        <3> QED
            BY <2>1, <3>1 DEF Slot
    <2>5. Held'
        BY <1>1, <2>2 DEF Held
    <2>6. NoStaleRequest'
        <3>1. ASSUME NEW k \in Hellos \ {h}
              PROVE  /\ hello'[k].step \in Asking => hello'[k].current
                     /\ hello'[k].step = "readHello" /\ ~hello'[k].current =>
                            socket'[hello'[k].client] # "open"
            BY <1>2, <1>3, <2>4, ClientOfStep DEF NoStaleRequest, Asking
        <3> QED
            BY <2>1, <3>1 DEF NoStaleRequest
    <2>7. OneCurrent'
        BY <2>1, <2>4 DEF OneCurrent
    <2>8. ChainWaits'
        BY <2>1, <2>3, <2>4, ClientOfStep DEF ChainWaits, NoUpdates
    <2>9. NothingOlder'
        <3>1. capability \in Nat
            BY DEF AgreeInv, Inv
        <3>2. ASSUME NEW k \in Hellos
              PROVE  /\ hello'[k].snap <= capability'
                     /\ hello'[k].current /\ hello'[k].step \in Carrying =>
                            hello'[k].snap >= known'[hello'[k].client]
            BY <1>1, <2>1, <2>4, <3>1 DEF NothingOlder, Carrying
        <3>3. \A d \in Clients : /\ known'[d] <= capability' /\ updates'[d].snap <= capability'
                                 /\ updates'[d].step \in Carrying => updates'[d].snap >= known'[d]
            BY <1>1, <2>3, <3>1 DEF NothingOlder, NoUpdates, Carrying
        <3> QED
            BY <3>2, <3>3 DEF NothingOlder
    <2> QED
        BY <2>5, <2>6, <2>7, <2>8, <2>9
<1>6. once[c] \in BOOLEAN
    BY DEF AgreeInv, Inv
<1> QED
    BY <1>4, <1>5, <1>6 DEF Open

LEMMA LoseSerial ==
    ASSUME SerialInv, NEW c \in Clients, Lose(c) PROVE Serial'
<1> USE DEF SerialInv, Serial
<1>1. socket' = [socket EXCEPT ![c] = "none"]
    BY DEF Lose, R!HandleClose, R!HandleCloseThenClose
<1>2. socket'[c] # "open" /\ \A d \in Clients \ {c} : socket'[d] = socket[d]
    BY <1>1
<1>3. CASE Reject(c, TRUE, {})
    BY <1>2, <1>3, DropSerial DEF Lose
<1>4. CASE ~once[c] /\ UNCHANGED hello
    <2>1. \A h \in Hellos : hello[h].step # "idle" \/ hello[h].current => hello[h].client # c
        BY <1>4, ClientOfStep DEF AgreeInv, Inv, HelloAfterOpen, OneCurrent
    <2>2. /\ updates' = [updates EXCEPT ![c] = NoUpdates]
          /\ known' = [known EXCEPT ![c] = 0]
          /\ negotiation' = [negotiation EXCEPT ![c] = "none"]
          /\ UNCHANGED capability
        BY DEF Lose, Forget
    <2>3. /\ updates'[c] = NoUpdates /\ known'[c] = 0
          /\ \A d \in Clients \ {c} : /\ updates'[d] = updates[d] /\ known'[d] = known[d]
                                      /\ negotiation'[d] = negotiation[d]
        BY <2>2 DEF AgreeInv, Held
    <2>4. Held'
        BY <2>2 DEF Held
    <2>5. NoStaleRequest' /\ OneCurrent'
        BY <1>2, <1>4, <2>1, ClientOfStep DEF NoStaleRequest, OneCurrent
    <2>6. ChainWaits'
        BY <1>4, <2>1, <2>3, ClientOfStep DEF ChainWaits
    <2>7. NothingOlder'
        <3>1. \A h \in Hellos : /\ hello'[h].snap <= capability'
                                /\ hello'[h].current /\ hello'[h].step \in Carrying =>
                                       hello'[h].snap >= known'[hello'[h].client]
            BY <1>4, <2>1, <2>2, <2>3, ClientOfStep DEF NothingOlder
        <3>2. \A d \in Clients : /\ known'[d] <= capability' /\ updates'[d].snap <= capability'
                                 /\ updates'[d].step \in Carrying => updates'[d].snap >= known'[d]
            BY <2>2, <2>3 DEF NothingOlder, NoUpdates, Carrying, AgreeInv, Inv
        <3> QED
            BY <3>1, <3>2 DEF NothingOlder
    <2> QED
        BY <2>4, <2>5, <2>6, <2>7
<1> QED
    BY <1>3, <1>4 DEF Lose

\* A handshake whose client is closed with it, or that only ends.
LEMMA FailSerial ==
    ASSUME SerialInv, NEW h \in Hellos, hello[h].step # "idle", Fail(h), UNCHANGED capability,
           hello[h].first \/ UNCHANGED socket
    PROVE  Serial'
<1> DEFINE c == hello[h].client
<1>0. c \in Clients
    BY ClientOfStep
<1>1. CASE hello[h].first
    <2>1. R!Close(c) /\ Reject(c, FALSE, {h}) /\ Forget(c, FALSE)
        BY <1>1 DEF Fail
    <2>2. socket'[c] # "open" /\ \A d \in Clients \ {c} : socket'[d] = socket[d]
        BY <1>0, <2>1 DEF R!Close, SerialInv
    <2>3. {h} \in SUBSET HellosOf(c)
        BY DEF HellosOf
    <2> QED
        BY <1>0, <2>1, <2>2, <2>3, DropSerial
<1>2. CASE ~hello[h].first
    BY <1>2, ConcludeSerial DEF Fail, backendVars
<1> QED
    BY <1>1, <1>2

\* A slot moved to another step, with or without another snapshot, is a slot.
LEMMA SlotMoves ==
    ASSUME SerialInv, NEW h \in Hellos, NEW step \in Steps
    PROVE  /\ [hello EXCEPT ![h].step = step] \in [Hellos -> Slot]
           /\ [hello EXCEPT ![h].step = step, ![h].snap = capability] \in [Hellos -> Slot]
<1>1. hello \in [Hellos -> Slot] /\ hello[h] \in Slot /\ capability \in Nat
    BY DEF SerialInv, AgreeInv, Inv
<1>2. [hello[h] EXCEPT !.step = step] \in Slot
    BY <1>1 DEF Slot
<1>3. [hello[h] EXCEPT !.step = step, !.snap = capability] \in Slot
    BY <1>1 DEF Slot
<1>4. [hello EXCEPT ![h].step = step] \in [Hellos -> Slot]
    BY <1>1, <1>2
<1>5. [hello EXCEPT ![h].step = step, ![h].snap = capability] \in [Hellos -> Slot]
    BY <1>1, <1>3
<1> QED
    BY <1>4, <1>5

LEMMA SendHelloSerial ==
    ASSUME SerialInv, NEW h \in Hellos, SendHello(h) PROVE Serial'
<1> USE DEF SerialInv, Serial
<1>0. hello[h].step = "readHello" /\ UNCHANGED capability
    BY DEF SendHello
<1>1. CASE socket[hello[h].client] = "open"
    <2>1. /\ hello' = [hello EXCEPT ![h].step = "hello", ![h].snap = capability]
          /\ UNCHANGED <<negotiation, updates, known, socket>>
        BY <1>1 DEF SendHello, R!Send, backendVars
    <2>2. hello' \in [Hellos -> Slot]
        BY <2>1, SlotMoves DEF Steps, Asking
    <2>3. /\ hello'[h].client = hello[h].client /\ hello'[h].step = "hello"
          /\ hello'[h].current = hello[h].current /\ hello'[h].snap = capability
          /\ \A k \in Hellos \ {h} : hello'[k] = hello[k]
        BY <2>1 DEF AgreeInv, Inv, Slot
    <2>4. hello[h].current
        BY <1>0, <1>1 DEF NoStaleRequest
    <2> QED
        BY <1>0, <2>1, <2>2, <2>3, <2>4, GoesOnSerial DEF Opening
<1>2. CASE socket[hello[h].client] # "open"
    <2>1. Fail(h) /\ (hello[h].first \/ UNCHANGED socket)
        BY <1>2 DEF SendHello, rpcVars
    <2> QED
        BY <1>0, <2>1, FailSerial
<1> QED
    BY <1>1, <1>2

\* The backend takes a hello: the chain has not started, and no other
\* handshake carries anything.
LEMMA HelloAcceptedSerial ==
    ASSUME SerialInv, NEW h \in Hellos, HelloAccepted(h) PROVE Serial'
<1> USE DEF SerialInv, Serial
<1> DEFINE c == hello[h].client
<1>1. /\ hello[h].step = "hello" /\ hello' = [hello EXCEPT ![h].step = "info"]
      /\ known' = [known EXCEPT ![c] = hello[h].snap]
      /\ UNCHANGED <<negotiation, updates, capability, socket>>
    BY DEF HelloAccepted, R!ReceiveThenSend
<1>2. c \in Clients /\ hello[h].current
    BY <1>1, ClientOfStep DEF NoStaleRequest, Asking
<1>3. /\ hello'[h].client = c /\ hello'[h].step = "info" /\ hello'[h].current
      /\ hello'[h].snap = hello[h].snap
      /\ \A k \in Hellos \ {h} : hello'[k] = hello[k]
    BY <1>1, <1>2 DEF AgreeInv, Inv, Slot
<1>4. /\ updates[c].step = "idle"
      /\ \A k \in Hellos \ {h} : hello[k].current => hello[k].client # c
    BY <1>2 DEF ChainWaits, OneCurrent
<1>5. /\ known' \in [Clients -> Nat] /\ known'[c] = hello[h].snap
      /\ \A d \in Clients \ {c} : known'[d] = known[d]
    BY <1>1, <1>2 DEF Held, AgreeInv, Inv, Slot
<1>6. NoStaleRequest' /\ OneCurrent'
    BY <1>1, <1>2, <1>3 DEF NoStaleRequest, OneCurrent
<1>7. ChainWaits'
    BY <1>1, <1>2, <1>3 DEF ChainWaits, Opening
<1>8. NothingOlder'
    <2>1. ASSUME NEW k \in Hellos
          PROVE  /\ hello'[k].snap <= capability'
                 /\ hello'[k].current /\ hello'[k].step \in Carrying =>
                        hello'[k].snap >= known'[hello'[k].client]
        BY <1>1, <1>3, <1>4, <1>5, ClientOfStep DEF NothingOlder, Carrying
    <2>2. \A d \in Clients : /\ known'[d] <= capability' /\ updates'[d].snap <= capability'
                             /\ updates'[d].step \in Carrying => updates'[d].snap >= known'[d]
        BY <1>1, <1>4, <1>5 DEF NothingOlder, Carrying
    <2> QED
        BY <2>1, <2>2 DEF NothingOlder
<1> QED
    BY <1>1, <1>5, <1>6, <1>7, <1>8 DEF Held

LEMMA InfoAnsweredSerial ==
    ASSUME SerialInv, NEW h \in Hellos, InfoAnswered(h) PROVE Serial'
<1> USE DEF SerialInv, Serial
<1>1. hello[h].step = "info" /\ UNCHANGED <<updates, capability, known, socket>>
    BY DEF InfoAnswered, R!Receive, backendVars
<1>2. CASE hello[h].current
    <2>1. /\ hello' = [hello EXCEPT ![h].step = "readCaps"]
          /\ negotiation' = [negotiation EXCEPT ![hello[h].client] = "ready"]
        BY <1>2 DEF InfoAnswered
    <2>2. hello' \in [Hellos -> Slot]
        BY <2>1, SlotMoves DEF Steps, Asking
    <2>3. /\ hello'[h].client = hello[h].client /\ hello'[h].step = "readCaps"
          /\ hello'[h].current = hello[h].current /\ hello'[h].snap = hello[h].snap
          /\ \A k \in Hellos \ {h} : hello'[k] = hello[k]
        BY <2>1 DEF AgreeInv, Inv, Slot
    <2> QED
        BY <1>1, <1>2, <2>1, <2>2, <2>3, GoesOnSerial DEF Opening, Asking, Carrying
<1>3. CASE ~hello[h].current
    BY <1>1, <1>3, ConcludeSerial DEF InfoAnswered, Conclude
<1> QED
    BY <1>2, <1>3

LEMMA CapsSerial ==
    ASSUME SerialInv, NEW h \in Hellos, ReadCaps(h) \/ SendCaps(h) PROVE Serial'
<1> USE DEF SerialInv, Serial
<1>1. CASE ReadCaps(h)
    <2>1. /\ hello' = [hello EXCEPT ![h].step = "haveCaps", ![h].snap = capability]
          /\ hello[h].step = "readCaps"
          /\ UNCHANGED <<updates, capability, known, socket, negotiation>>
        BY <1>1 DEF ReadCaps, rpcVars, backendVars
    <2>2. hello' \in [Hellos -> Slot]
        BY <2>1, SlotMoves DEF Steps, Asking
    <2>3. /\ hello'[h].client = hello[h].client /\ hello'[h].step = "haveCaps"
          /\ hello'[h].current = hello[h].current /\ hello'[h].snap = capability
          /\ \A k \in Hellos \ {h} : hello'[k] = hello[k]
        BY <2>1 DEF AgreeInv, Inv, Slot
    <2> QED
        BY <2>1, <2>2, <2>3, GoesOnSerial DEF Opening, Asking
<1>2. CASE SendCaps(h) /\ StillValid(h)
    <2>1. /\ hello' = [hello EXCEPT ![h].step = "update"]
          /\ hello[h].step = "haveCaps" /\ hello[h].current
          /\ UNCHANGED <<updates, capability, known, socket, negotiation>>
        BY <1>2 DEF SendCaps, StillValid, R!Send, backendVars
    <2>2. hello' \in [Hellos -> Slot]
        BY <2>1, SlotMoves DEF Steps, Asking
    <2>3. /\ hello'[h].client = hello[h].client /\ hello'[h].step = "update"
          /\ hello'[h].current = hello[h].current /\ hello'[h].snap = hello[h].snap
          /\ \A k \in Hellos \ {h} : hello'[k] = hello[k]
        BY <2>1 DEF AgreeInv, Inv, Slot
    <2> QED
        BY <2>1, <2>2, <2>3, GoesOnSerial DEF Opening, Carrying
<1>3. CASE SendCaps(h) /\ ~StillValid(h)
    BY <1>3, ConcludeSerial DEF SendCaps, Conclude, rpcVars, backendVars
<1> QED
    BY <1>1, <1>2, <1>3

LEMMA EndsSerial ==
    ASSUME SerialInv, NEW h \in Hellos, UpdateAccepted(h) \/ Refused(h) PROVE Serial'
<1>1. CASE UpdateAccepted(h)
    BY <1>1, ConcludeSerial DEF UpdateAccepted, Conclude, R!Receive
<1>2. CASE Refused(h)
    <2>1. hello[h].step # "idle" /\ (hello[h].first \/ UNCHANGED socket)
        BY <1>2 DEF Refused, R!Receive
    <2> QED
        BY <1>2, <2>1, FailSerial DEF Refused
<1> QED
    BY <1>1, <1>2

\* A link of the chain starts only when no current handshake is on its way to
\* the backend.
LEMMA StartsBehind ==
    ASSUME SerialInv, NEW c \in Clients, updates[c].step # "idle" \/ StartUpdate(c)
    PROVE  \A h \in Hellos : hello[h].current => hello[h].client # c
<1>1. CASE updates[c].step # "idle"
    BY <1>1 DEF SerialInv, Serial, ChainWaits
<1>2. CASE StartUpdate(c)
    <2>1. ASSUME NEW h \in Hellos, hello[h].current, hello[h].client = c PROVE FALSE
        <3>1. hello[h].step \in Opening
            BY <1>2, <2>1 DEF StartUpdate, ChainFree, HellosOf, SerialInv, Serial, OneCurrent,
               AgreeInv, Inv, Slot, Steps, Opening, Asking
        <3>2. updates[c].queued = 0
            BY <2>1, <3>1 DEF SerialInv, Serial, ChainWaits
        <3> QED
            BY <1>2, <3>2 DEF StartUpdate
    <2> QED
        BY <2>1
<1> QED
    BY <1>1, <1>2

LEMMA UpdateSerial ==
    ASSUME SerialInv, NEW c \in Clients, UpdateStep(c) PROVE Serial'
<1> USE DEF SerialInv, Serial
<1>0. /\ UNCHANGED <<hello, negotiation, capability, socket>>
      /\ updates[c].step # "idle" \/ StartUpdate(c)
      /\ updates[c] \in Link /\ capability \in Nat
    BY DEF UpdateStep, StartUpdate, ReadUpdate, SendUpdate, UpdateAnswered, R!Send,
           R!Receive, rpcVars, backendVars, AgreeInv, Inv
<1>1. \A h \in Hellos : hello[h].current => hello[h].client # c
    BY <1>0, StartsBehind
<1>2. /\ \A d \in Clients \ {c} : updates'[d] = updates[d] /\ known'[d] = known[d]
      /\ updates'[c].snap <= capability /\ known'[c] <= capability /\ known'[c] \in Nat
      /\ updates'[c].step \in Carrying => updates'[c].snap >= known'[c]
    <2>1. CASE StartUpdate(c)
        <3>1. updates'[c].step \in {"readCaps", "idle"} /\ updates'[c].snap = updates[c].snap
              /\ \A d \in Clients \ {c} : updates'[d] = updates[d]
            BY <2>1, <1>0 DEF StartUpdate, AgreeInv, Link
        <3> QED
            BY <2>1, <3>1 DEF StartUpdate, backendVars, NothingOlder, Carrying, Held
    <2>2. CASE ReadUpdate(c)
        <3>1. updates'[c].snap = capability
              /\ \A d \in Clients \ {c} : updates'[d] = updates[d]
            BY <2>2, <1>0 DEF ReadUpdate, AgreeInv, Link
        <3>2. UNCHANGED known /\ known[c] <= capability /\ known[c] \in Nat
            BY <2>2 DEF ReadUpdate, backendVars, NothingOlder, Held
        <3> QED
            BY <1>0, <3>1, <3>2
    <2>3. CASE SendUpdate(c)
        <3>1. updates'[c].snap = updates[c].snap /\ updates[c].step \in Carrying
              /\ \A d \in Clients \ {c} : updates'[d] = updates[d]
            BY <2>3, <1>0 DEF SendUpdate, AgreeInv, Link, Carrying
        <3> QED
            BY <2>3, <3>1 DEF SendUpdate, backendVars, NothingOlder, Held
    <2>4. ASSUME NEW accepted \in BOOLEAN, UpdateAnswered(c, accepted)
          PROVE  /\ \A d \in Clients \ {c} : updates'[d] = updates[d] /\ known'[d] = known[d]
                 /\ updates'[c].snap <= capability /\ known'[c] <= capability /\ known'[c] \in Nat
                 /\ updates'[c].step \in Carrying => updates'[c].snap >= known'[c]
        <3>1. updates'[c].snap = 0 /\ updates'[c].step = "idle"
              /\ \A d \in Clients \ {c} : updates'[d] = updates[d]
            BY <2>4, <1>0 DEF UpdateAnswered, AgreeInv, Link
        <3>2. /\ \A d \in Clients \ {c} : known'[d] = known[d]
              /\ known'[c] \in {known[c], updates[c].snap}
            BY <2>4, <1>0 DEF UpdateAnswered, Held
        <3> QED
            BY <1>0, <3>1, <3>2 DEF NothingOlder, Held, Link, Carrying
    <2> QED
        BY <2>1, <2>2, <2>3, <2>4 DEF UpdateStep
<1>3. known' \in [Clients -> Nat]
    BY <1>0 DEF UpdateStep, StartUpdate, ReadUpdate, SendUpdate, UpdateAnswered,
           rpcVars, backendVars, Held, Link
<1>4. NoStaleRequest' /\ OneCurrent' /\ Held'
    BY <1>0, <1>3 DEF NoStaleRequest, OneCurrent, Held
<1>5. ChainWaits'
    BY <1>0, <1>1, <1>2, ClientOfStep DEF ChainWaits
<1>6. NothingOlder'
    <2>1. \A h \in Hellos : /\ hello'[h].snap <= capability'
                            /\ hello'[h].current /\ hello'[h].step \in Carrying =>
                                   hello'[h].snap >= known'[hello'[h].client]
        BY <1>0, <1>1, <1>2, ClientOfStep DEF NothingOlder
    <2>2. \A d \in Clients : /\ known'[d] <= capability' /\ updates'[d].snap <= capability'
                             /\ updates'[d].step \in Carrying => updates'[d].snap >= known'[d]
        BY <1>0, <1>2 DEF NothingOlder
    <2> QED
        BY <2>1, <2>2 DEF NothingOlder
<1> QED
    BY <1>4, <1>5, <1>6

LEMMA NextSerial ==
    ASSUME SerialInv, [Next /\ PromptHello]_vars PROVE Serial'
<1>1. CASE UNCHANGED vars
    BY <1>1, OtherSerial DEF vars, rpcVars, backendVars
<1>2. CASE Ask \/ TransportFails \/ CapabilityChanges
    BY <1>2, SharedSerial
<1>3. ASSUME NEW c \in Clients, PromptHello,
             TransportReady(c) \/ ConnectionStep(c) \/ UpdateStep(c)
      PROVE  Serial'
    BY <1>3, QuietStepsSerial, OpenSerial, LoseSerial, UpdateSerial DEF ConnectionStep
<1>4. ASSUME NEW h \in Hellos, HelloStep(h) PROVE Serial'
    BY <1>4, SendHelloSerial, HelloAcceptedSerial, InfoAnsweredSerial, CapsSerial, EndsSerial
       DEF HelloStep
<1> QED
    BY <1>1, <1>2, <1>3, <1>4 DEF Next

\* What one step may do to what the backend holds for c.
Newer(c) ==
    \/ known'[c] >= known[c]
    \/ ~greeted'[c]
    \/ \E h \in HellosOf(c) : hello[h].step = "hello" /\ hello'[h].step = "info"

LEMMA UnchangedIsNewer == ASSUME SerialInv, UNCHANGED known PROVE \A d \in Clients : Newer(d)
BY DEF SerialInv, Serial, Held, Newer

LEMMA ForgetIsNewer ==
    ASSUME SerialInv, greeted \in [Clients -> BOOLEAN], NEW c \in Clients,
           NEW heard \in BOOLEAN, Forget(c, heard)
    PROVE  \A d \in Clients : Newer(d)
BY DEF SerialInv, Serial, Held, Newer, Forget

LEMMA HelloStepIsNewer ==
    ASSUME SerialInv, greeted \in [Clients -> BOOLEAN], NEW h \in Hellos, HelloStep(h)
    PROVE  \A d \in Clients : Newer(d)
<1> USE DEF SerialInv, Serial
<1> DEFINE c == hello[h].client
<1>1. CASE InfoAnswered(h) \/ ReadCaps(h) \/ SendCaps(h)
    BY <1>1, UnchangedIsNewer DEF InfoAnswered, ReadCaps, SendCaps, backendVars
<1>2. CASE HelloAccepted(h)
    <2>1. hello[h].step = "hello" /\ hello'[h].step = "info" /\ h \in HellosOf(c)
          /\ known' = [known EXCEPT ![c] = hello[h].snap]
        BY <1>2 DEF HelloAccepted, HellosOf, AgreeInv, Inv, Slot
    <2> QED
        BY <2>1 DEF Newer, Held
<1>3. CASE UpdateAccepted(h)
    <2>1. hello[h].step = "update" /\ known' = [known EXCEPT ![c] = hello[h].snap]
        BY <1>3 DEF UpdateAccepted
    <2>2. hello[h].snap >= known[c] /\ c \in Clients
        BY <2>1, ClientOfStep DEF NoStaleRequest, NothingOlder, Asking, Carrying
    <2> QED
        BY <2>1, <2>2 DEF Newer, Held
<1>4. CASE SendHello(h) \/ Refused(h)
    <2>1. c \in Clients
        BY <1>4, ClientOfStep DEF SendHello, Refused
    <2>2. UNCHANGED known \/ Forget(c, FALSE)
        BY <1>4 DEF SendHello, Refused, Fail, backendVars
    <2> QED
        BY <2>1, <2>2, UnchangedIsNewer, ForgetIsNewer
<1> QED
    BY <1>1, <1>2, <1>3, <1>4 DEF HelloStep

LEMMA NextIsNewer ==
    ASSUME SerialInv, greeted \in [Clients -> BOOLEAN], [Next]_vars
    PROVE  \A d \in Clients : Newer(d)
<1> USE DEF SerialInv, Serial
<1>1. CASE UNCHANGED vars \/ Ask \/ TransportFails \/ CapabilityChanges
    BY <1>1, UnchangedIsNewer DEF vars, Ask, TransportFails, CapabilityChanges, backendVars
<1>2. ASSUME NEW c \in Clients, TransportReady(c) \/ ConnectionStep(c) \/ UpdateStep(c)
      PROVE  \A d \in Clients : Newer(d)
    <2>1. CASE Lose(c)
        BY <2>1, ForgetIsNewer DEF Lose
    <2>2. ASSUME NEW accepted \in BOOLEAN, UpdateAnswered(c, accepted)
          PROVE  \A d \in Clients : Newer(d)
        <3>1. updates[c].snap >= known[c]
            BY <2>2 DEF UpdateAnswered, NothingOlder, Carrying
        <3> QED
            BY <2>2, <3>1 DEF UpdateAnswered, Newer, Held
    <2>3. CASE UNCHANGED known
        BY <2>3, UnchangedIsNewer
    <2> QED
        BY <1>2, <2>1, <2>2, <2>3 DEF TransportReady, ConnectionStep, Open, Timeout, Reconnect,
           UpdateStep, StartUpdate, ReadUpdate, SendUpdate, backendVars
<1>3. ASSUME NEW h \in Hellos, HelloStep(h) PROVE \A d \in Clients : Newer(d)
    BY <1>3, HelloStepIsNewer
<1> QED
    BY <1>1, <1>2, <1>3 DEF Next

LEMMA GreetedTyped ==
    ASSUME greeted \in [Clients -> BOOLEAN], AgreeInv, [Next]_vars
    PROVE  greeted' \in [Clients -> BOOLEAN]
<1>1. CASE UNCHANGED greeted
    BY <1>1
<1>2. ASSUME NEW c, NEW heard, Forget(c, heard) PROVE greeted' \in [Clients -> BOOLEAN]
    BY <1>2 DEF Forget
<1>3. ASSUME NEW c \in Clients, TransportReady(c) \/ ConnectionStep(c) \/ UpdateStep(c)
      PROVE  UNCHANGED greeted \/ \E heard : Forget(c, heard)
    BY <1>3 DEF TransportReady, ConnectionStep, Open, Timeout, Lose, Reconnect,
       UpdateStep, StartUpdate, ReadUpdate, SendUpdate, UpdateAnswered, backendVars
<1>4. ASSUME NEW h \in Hellos, HelloStep(h) PROVE greeted' \in [Clients -> BOOLEAN]
    <2>1. CASE HelloAccepted(h)
        BY <2>1 DEF HelloAccepted
    <2>2. CASE ~HelloAccepted(h)
        BY <1>2, <1>4, <2>2 DEF HelloStep, SendHello, InfoAnswered, ReadCaps, SendCaps,
           UpdateAccepted, Refused, Fail, backendVars
    <2> QED
        BY <2>1, <2>2
<1> QED
    BY <1>1, <1>2, <1>3, <1>4 DEF Next, vars, Ask, TransportFails, CapabilityChanges, backendVars

\* What a settled connection keeps: the clients' own invariant, the agreement
\* on what is pending and the order of the chain.
ChainInv == P!IInv /\ SerialInv /\ greeted \in [Clients -> BOOLEAN]

LEMMA InitChain == Init => ChainInv
<1>1. Init => Serial /\ socket \in [Clients -> R!Sockets] /\ greeted \in [Clients -> BOOLEAN]
    BY DEF Init, R!Init, R!Sockets, Serial, Held, NoStaleRequest, OneCurrent, ChainWaits,
           NothingOlder, Idle, NoUpdates, Asking, Carrying, Opening
<1> QED
    BY <1>1, InitAgrees DEF ChainInv, SerialInv

LEMMA NextChain ==
    ASSUME ChainInv, [Next /\ PromptHello]_vars PROVE ChainInv'
<1> USE DEF ChainInv
<1>1. P!IInv' /\ Inv'
    BY NextSteps, KeepsClientInv DEF SerialInv, AgreeInv
<1>2. PendingOnLiveSocket' /\ socket' \in [Clients -> R!Sockets]
    BY <1>1 DEF P!IInv, P!TypeOK, P!PendingOnlyWhenOpen, PendingOnLiveSocket, P!Sockets, R!Sockets
<1>3. AgreeKept /\ Serial'
    BY NextAgrees, NextSerial DEF SerialInv
<1> QED
    BY <1>1, <1>2, <1>3, GreetedTyped DEF SerialInv, AgreeInv, AgreeKept

\* On one connection a capabilities.update never carries an older snapshot than
\* what the backend already holds, with any number of clients, handshakes and
\* changes: getClientHello answers before the client is open again, and nothing
\* else is assumed.
THEOREM UpdatesAreOrdered == PromptSpec => NewestUpdateWins
<1>1. ChainInv /\ [Next /\ PromptHello]_vars =>
          [\A c \in Clients : \/ known'[c] >= known[c]
                              \/ ~greeted'[c]
                              \/ \E h \in HellosOf(c) :
                                     hello[h].step = "hello" /\ hello'[h].step = "info"]_vars
    BY NextIsNewer DEF ChainInv, Newer
<1> QED
    BY <1>1, InitChain, NextChain, PTL DEF PromptSpec, NewestUpdateWins

---------------------------------------------------------------------------
(* The last change reaches the backend                                     *)

\* The client of a first handshake is the one connectBackendClient waits for,
\* and the client that is shared has been open.
FirstIsAwaited ==
    /\ \A h \in Hellos : hello[h].first => /\ hello[h].step # "idle"
                                           /\ hello[h].client = opener /\ promise = "connect"
    /\ \A h, k \in Hellos : hello[h].first /\ hello[k].first => h = k
    /\ backendClient # NoClient => backendClient \in Clients /\ once[backendClient]

\* The clients that are shared, or will be.
Shared(c) == c = backendClient \/ (promise = "connect" /\ opener = c)

\* The backend holds the newest capabilities, or something still to come brings
\* them: a link of the chain, or the current handshake.
Coming(c) ==
    \/ known[c] = capability
    \/ updates[c].queued > 0
    \/ updates[c].step = "readCaps"
    \/ updates[c].step \in Carrying /\ updates[c].snap = capability
    \/ \E h \in Hellos :
           /\ hello[h].client = c /\ hello[h].current
           /\ \/ hello[h].step = "readCaps"
              \/ hello[h].step \in Carrying /\ hello[h].snap = capability

Latest ==
    \A c \in Clients : Shared(c) /\ R!IsOpen(c) /\ negotiation[c] = "ready" => Coming(c)

SettledInv == SerialInv /\ state \in [Clients -> R!States] /\ FirstIsAwaited /\ Latest

\* What a step keeps of who waits for a first handshake.
LEMMA SlotsKeepFirst ==
    ASSUME AgreeInv, FirstIsAwaited, UNCHANGED <<backendClient, promise, opener>>,
           \A c \in Clients : once[c] => once'[c],
           \A h \in Hellos : hello'[h].first => /\ hello[h].first /\ hello'[h].step # "idle"
                                                /\ hello'[h].client = hello[h].client
    PROVE  FirstIsAwaited'
BY DEF FirstIsAwaited

\* The first handshake ends: its client is shared or given up.
LEMMA EndKeepsFirst ==
    ASSUME AgreeInv, FirstIsAwaited,
           backendClient' \in Clients => backendClient' = backendClient \/ once[backendClient'],
           backendClient' \in Clients \cup {NoClient},
           \A c \in Clients : once[c] => once'[c],
           \A h \in Hellos : ~hello'[h].first
    PROVE  FirstIsAwaited'
BY NamesAssumption DEF FirstIsAwaited

LEMMA ConcludeFirst ==
    ASSUME AgreeInv, FirstIsAwaited, NEW h \in Hellos, hello[h].step # "idle", Conclude(h),
           \A c \in Clients : once[c] => once'[c]
    PROVE  FirstIsAwaited'
<1>1. hello'[h] = Idle /\ \A k \in Hellos \ {h} : hello'[k] = hello[k]
    BY DEF Conclude, AgreeInv, Inv
<1>2. CASE hello[h].first
    <2>1. \A k \in Hellos : ~hello'[k].first
        BY <1>1, <1>2 DEF FirstIsAwaited, Idle
    <2>2. hello[h].client \in Clients /\ once[hello[h].client] /\ backendClient' = hello[h].client
        BY <1>2 DEF Conclude, AgreeInv, Inv, HelloAfterOpen
    <2> QED
        BY <2>1, <2>2, EndKeepsFirst
<1>3. CASE ~hello[h].first
    BY <1>1, <1>3, SlotsKeepFirst DEF Conclude, sharedVars, Idle, FirstIsAwaited
<1> QED
    BY <1>2, <1>3

LEMMA RejectFirst ==
    ASSUME AgreeInv, FirstIsAwaited, NEW c \in Clients, NEW heard \in BOOLEAN,
           NEW failed \in SUBSET HellosOf(c), Reject(c, heard, failed),
           \A d \in Clients : once[d] => once'[d],
           \A h \in failed : hello[h].step # "idle"
    PROVE  FirstIsAwaited'
<1>1. \A h \in Hellos : \/ hello'[h] = Idle
                        \/ hello'[h] = hello[h]
                        \/ hello[h].client = c /\ hello'[h] = [hello[h] EXCEPT !.current = FALSE]
    BY DEF Reject, HellosOf
<1>2. ASSUME NEW h \in Hellos, hello'[h].first
      PROVE  /\ hello[h].first /\ hello'[h].step = hello[h].step
             /\ hello'[h].client = hello[h].client
    <2>1. hello[h] \in Slot
        BY DEF AgreeInv, Inv
    <2>2. hello'[h] # Idle
        BY <1>2 DEF Idle
    <2>3. CASE hello'[h] = [hello[h] EXCEPT !.current = FALSE]
        BY <1>2, <2>1, <2>3 DEF Slot
    <2> QED
        BY <1>1, <1>2, <2>2, <2>3
<1>3. CASE \E h \in HellosOf(c) : hello[h].first /\ hello'[h] = Idle /\ (hello[h].step \in Asking \/ h \in failed)
    <2>1. \A k \in Hellos : ~hello'[k].first
        BY <1>2, <1>3 DEF FirstIsAwaited, Idle, HellosOf
    <2>2. once[c]
        BY <1>3 DEF HellosOf, AgreeInv, Inv, HelloAfterOpen, FirstIsAwaited
    <2>3. backendClient' \in {c, backendClient}
        BY DEF Reject
    <2> QED
        BY <2>1, <2>2, <2>3, EndKeepsFirst DEF FirstIsAwaited
<1>4. CASE ~\E h \in HellosOf(c) : hello[h].first /\ hello'[h] = Idle /\ (hello[h].step \in Asking \/ h \in failed)
    <2>1. ~\E h \in HellosOf(c) : hello[h].first /\ (hello[h].step \in Asking \/ h \in failed)
        BY <1>4 DEF Reject, HellosOf, Asking
    <2>2. UNCHANGED <<backendClient, promise, opener>>
        BY <2>1 DEF Reject, HellosOf, Asking
    <2> QED
        BY <1>2, <2>2, SlotsKeepFirst DEF FirstIsAwaited
<1> QED
    BY <1>3, <1>4

LEMMA FailFirst ==
    ASSUME AgreeInv, FirstIsAwaited, NEW h \in Hellos, hello[h].step # "idle", Fail(h),
           \A c \in Clients : once[c] => once'[c]
    PROVE  FirstIsAwaited'
<1>1. CASE hello[h].first
    <2>1. hello[h].client \in Clients /\ {h} \in SUBSET HellosOf(hello[h].client)
        BY DEF AgreeInv, Inv, HelloAfterOpen, HellosOf
    <2> QED
        BY <1>1, <2>1, RejectFirst DEF Fail
<1>2. CASE ~hello[h].first
    <2>1. hello'[h] = Idle /\ \A k \in Hellos \ {h} : hello'[k] = hello[k]
        BY <1>2 DEF Fail, AgreeInv, Inv
    <2> QED
        BY <1>2, <2>1, SlotsKeepFirst DEF Fail, sharedVars, Idle, FirstIsAwaited
<1> QED
    BY <1>1, <1>2

LEMMA HelloStepFirst ==
    ASSUME AgreeInv, FirstIsAwaited, NEW h \in Hellos, HelloStep(h),
           \A c \in Clients : once[c] => once'[c]
    PROVE  FirstIsAwaited'
<1>0. hello[h].step # "idle"
    BY DEF HelloStep, SendHello, HelloAccepted, InfoAnswered, ReadCaps, SendCaps,
           UpdateAccepted, Refused
<1>1. CASE Conclude(h)
    BY <1>0, <1>1, ConcludeFirst
<1>2. CASE Fail(h)
    BY <1>0, <1>2, FailFirst
<1>3. ASSUME NEW step \in Steps \ {"idle"}, NEW snap,
             \/ hello' = [hello EXCEPT ![h].step = step]
             \/ hello' = [hello EXCEPT ![h].step = step, ![h].snap = snap],
             UNCHANGED sharedVars
      PROVE  FirstIsAwaited'
    <2>1. \A k \in Hellos \ {h} : hello'[k] = hello[k]
        BY <1>3 DEF AgreeInv, Inv
    <2>2. hello'[h].first = hello[h].first /\ hello'[h].client = hello[h].client /\ hello'[h].step # "idle"
        BY <1>3 DEF AgreeInv, Inv, Slot
    <2> QED
        BY <1>3, <2>1, <2>2, SlotsKeepFirst DEF sharedVars, FirstIsAwaited
<1>4. \/ Conclude(h) \/ Fail(h)
      \/ /\ UNCHANGED sharedVars
         /\ \E step \in Steps \ {"idle"} : \/ hello' = [hello EXCEPT ![h].step = step]
                                           \/ hello' = [hello EXCEPT ![h].step = step, ![h].snap = capability]
    BY DEF HelloStep, SendHello, HelloAccepted, InfoAnswered, ReadCaps, SendCaps,
           UpdateAccepted, Refused, Steps, Asking
<1> QED
    BY <1>1, <1>2, <1>3, <1>4

LEMMA OpenFirst ==
    ASSUME AgreeInv, FirstIsAwaited, NEW c \in Clients, NEW h \in Hellos, Open(c, h),
           \A d \in Clients : once[d] => once'[d]
    PROVE  FirstIsAwaited'
<1>1. CASE UNCHANGED hello
    BY <1>1, SlotsKeepFirst DEF Open, sharedVars, FirstIsAwaited
<1>2. CASE StartHello(c, h, ~once[c]) /\ (once[c] \/ (promise = "connect" /\ opener = c))
    <2>1. /\ hello'[h].step = "readHello" /\ hello'[h].first = ~once[c] /\ hello'[h].client = c
          /\ \A k \in Hellos \ {h} :
                 hello'[k] = IF hello[k].client = c THEN [hello[k] EXCEPT !.current = FALSE]
                                                   ELSE hello[k]
        BY <1>2 DEF StartHello
    <2>2. ASSUME NEW k \in Hellos \ {h}
          PROVE  /\ hello'[k].first = hello[k].first /\ hello'[k].step = hello[k].step
                 /\ hello'[k].client = hello[k].client
        <3>1. hello[k] \in Slot
            BY DEF AgreeInv, Inv
        <3> QED
            BY <2>1, <3>1 DEF Slot
    <2>3. ~once[c] => \A k \in Hellos \ {h} : ~hello[k].first
        BY <1>2 DEF FirstIsAwaited, AgreeInv, Inv, HelloAfterOpen
    <2>4. UNCHANGED <<backendClient, promise, opener>>
        BY DEF Open, sharedVars
    <2> QED
        BY ZenonT(60), <1>2, <2>1, <2>2, <2>3, <2>4 DEF FirstIsAwaited
<1> QED
    BY <1>1, <1>2 DEF Open

LEMMA LoseFirst ==
    ASSUME AgreeInv, FirstIsAwaited, NEW c \in Clients, Lose(c),
           \A d \in Clients : once[d] => once'[d]
    PROVE  FirstIsAwaited'
<1>1. CASE Reject(c, TRUE, {})
    <2>1. {} \in SUBSET HellosOf(c)
        OBVIOUS
    <2> QED
        BY <1>1, <2>1, RejectFirst
<1>2. CASE opener = c /\ ~once[c] /\ UNCHANGED <<hello, backendClient>>
    <2>1. \A h \in Hellos : ~hello[h].first
        BY <1>2 DEF FirstIsAwaited, AgreeInv, Inv, HelloAfterOpen
    <2> QED
        BY <1>2, <2>1 DEF FirstIsAwaited
<1> QED
    BY <1>1, <1>2 DEF Lose

LEMMA NextFirst ==
    ASSUME AgreeInv, FirstIsAwaited, [Next]_vars PROVE FirstIsAwaited'
<1>1. \A c \in Clients : once[c] => once'[c]
    BY NextSteps, OnceStays DEF AgreeInv, Inv, rpcVars
<1>2. CASE UNCHANGED vars \/ Ask \/ TransportFails \/ CapabilityChanges
    BY <1>1, <1>2 DEF vars, rpcVars, sharedVars, Ask, TransportFails, CapabilityChanges, FirstIsAwaited
<1>3. ASSUME NEW c \in Clients, TransportReady(c) \/ Timeout(c)
      PROVE  FirstIsAwaited'
    <2>1. UNCHANGED <<hello, backendClient>> /\ \A h \in Hellos : ~hello[h].first \/ UNCHANGED <<promise, opener>>
        BY <1>3 DEF TransportReady, Timeout, FirstIsAwaited, AgreeInv, Inv, HelloAfterOpen
    <2> QED
        BY <1>1, <2>1 DEF FirstIsAwaited
<1>4. ASSUME NEW c \in Clients, Reconnect(c) \/ UpdateStep(c)
      PROVE  FirstIsAwaited'
    BY <1>1, <1>4, SlotsKeepFirst DEF Reconnect, UpdateStep, StartUpdate, ReadUpdate, SendUpdate,
       UpdateAnswered, sharedVars, FirstIsAwaited
<1>5. ASSUME NEW c \in Clients, ConnectionStep(c) PROVE FirstIsAwaited'
    BY <1>1, <1>3, <1>4, <1>5, OpenFirst, LoseFirst DEF ConnectionStep
<1>6. ASSUME NEW h \in Hellos, HelloStep(h) PROVE FirstIsAwaited'
    BY <1>1, <1>6, HelloStepFirst
<1> QED
    BY <1>2, <1>3, <1>4, <1>5, <1>6 DEF Next

\* A client that is not touched still has coming to it what it had.
LEMMA UntouchedLatest ==
    ASSUME SettledInv, NEW d \in Clients, UNCHANGED capability, updates'[d] = updates[d],
           known'[d] = known[d], negotiation'[d] = negotiation[d],
           Shared(d)' => Shared(d), R!IsOpen(d)' => R!IsOpen(d),
           \A h \in Hellos : hello[h].client = d /\ hello[h].current
                             /\ hello[h].step \in {"readCaps", "haveCaps", "update"} => hello'[h] = hello[h]
    PROVE  Shared(d)' /\ R!IsOpen(d)' /\ negotiation'[d] = "ready" => Coming(d)'
<1> SUFFICES ASSUME Shared(d)', R!IsOpen(d)', negotiation'[d] = "ready" PROVE Coming(d)'
    OBVIOUS
<1>1. Coming(d)
    BY DEF SettledInv, Latest
<1> QED
    BY <1>1 DEF Coming, Carrying

\* A client whose socket is gone: only the others matter.
LEMMA DropLatest ==
    ASSUME SettledInv, NEW c \in Clients, NEW heard \in BOOLEAN,
           NEW failed \in SUBSET HellosOf(c), Reject(c, heard, failed), Forget(c, heard),
           UNCHANGED capability, socket'[c] # "open",
           \A d \in Clients \ {c} : socket'[d] = socket[d] /\ state'[d] = state[d]
    PROVE  Latest'
<1> USE DEF SettledInv, SerialInv, Serial
<1> SUFFICES ASSUME NEW d \in Clients
             PROVE  Shared(d)' /\ R!IsOpen(d)' /\ negotiation'[d] = "ready" => Coming(d)'
    BY DEF Latest
<1>1. CASE d = c
    BY <1>1 DEF R!IsOpen
<1>2. CASE d # c
    <2>1. updates'[d] = updates[d] /\ known'[d] = known[d] /\ negotiation'[d] = negotiation[d]
        BY <1>2 DEF Forget, AgreeInv, Held
    <2>2. Shared(d)' => Shared(d)
        BY <1>2, NamesAssumption DEF Reject, Shared
    <2>3. R!IsOpen(d)' => R!IsOpen(d)
        BY <1>2 DEF R!IsOpen
    <2>4. \A h \in Hellos : hello[h].client = d => hello'[h] = hello[h]
        BY <1>2 DEF Reject, HellosOf
    <2> QED
        BY <2>1, <2>2, <2>3, <2>4, UntouchedLatest
<1> QED
    BY <1>1, <1>2

LEMMA SharedLatest ==
    ASSUME SettledInv, SettledChanges, Ask \/ TransportFails \/ CapabilityChanges PROVE Latest'
<1> USE DEF SettledInv, SerialInv, Serial
<1> SUFFICES ASSUME NEW d \in Clients
             PROVE  Shared(d)' /\ R!IsOpen(d)' /\ negotiation'[d] = "ready" => Coming(d)'
    BY DEF Latest
<1>1. CASE Ask \/ TransportFails
    <2>1. UNCHANGED <<hello, updates, known, negotiation, capability, state, socket, backendClient, opener>>
        BY <1>1 DEF Ask, TransportFails, rpcVars, backendVars
    <2>2. (Shared(d)' => Shared(d)) /\ (R!IsOpen(d)' => R!IsOpen(d))
        BY <1>1, <2>1 DEF Ask, TransportFails, Shared, R!IsOpen
    <2> QED
        BY <2>1, <2>2, UntouchedLatest
<1>2. CASE CapabilityChanges
    <2>1. promise # "connect"
        BY <1>2 DEF CapabilityChanges, SettledChanges, AgreeInv, Inv
    <2>2. UNCHANGED <<backendClient, promise, negotiation, state, socket>>
        BY <1>2 DEF CapabilityChanges, rpcVars, sharedVars
    <2>3. ASSUME Shared(d)', R!IsOpen(d)', negotiation'[d] = "ready" PROVE Coming(d)'
        <3>1. d = backendClient /\ SharedOpen /\ negotiation[backendClient] = "ready"
            BY <2>1, <2>2, <2>3, NamesAssumption DEF Shared, SharedOpen, R!IsOpen
        <3>2. updates' = [updates EXCEPT ![d].queued = @ + 1] /\ updates[d] \in Link
            BY <1>2, <3>1 DEF CapabilityChanges, AgreeInv
        <3>3. updates'[d].queued = updates[d].queued + 1
            BY <3>2 DEF AgreeInv, Link
        <3> QED
            BY <3>2, <3>3 DEF Coming, Link
    <2> QED
        BY <2>3
<1> QED
    BY <1>1, <1>2

LEMMA QuietStepsLatest ==
    ASSUME SettledInv, NEW c \in Clients, TransportReady(c) \/ Timeout(c) \/ Reconnect(c)
    PROVE  Latest'
<1> USE DEF SettledInv, SerialInv, Serial
<1> SUFFICES ASSUME NEW d \in Clients
             PROVE  Shared(d)' /\ R!IsOpen(d)' /\ negotiation'[d] = "ready" => Coming(d)'
    BY DEF Latest
<1>1. /\ socket'[c] # "open"
      /\ d # c => socket'[d] = socket[d] /\ state'[d] = state[d]
    BY DEF TransportReady, Timeout, Reconnect, R!Connect, R!HandleTimeout, R!FireReconnect
<1>2. CASE d = c
    BY <1>1, <1>2 DEF R!IsOpen
<1>3. CASE d # c
    <2>1. UNCHANGED <<hello, updates, known, negotiation, capability>>
        BY DEF TransportReady, Timeout, Reconnect, backendVars
    <2>2. Shared(d)' => Shared(d)
        BY <1>3, NamesAssumption DEF TransportReady, Timeout, Reconnect, sharedVars, Shared
    <2>3. R!IsOpen(d)' => R!IsOpen(d)
        BY <1>1, <1>3 DEF R!IsOpen
    <2> QED
        BY <2>1, <2>2, <2>3, UntouchedLatest
<1> QED
    BY <1>2, <1>3

LEMMA OpenLatest ==
    ASSUME SettledInv, NEW c \in Clients, NEW h \in Hellos, Open(c, h) PROVE Latest'
<1> USE DEF SettledInv, SerialInv, Serial
<1> SUFFICES ASSUME NEW d \in Clients
             PROVE  Shared(d)' /\ R!IsOpen(d)' /\ negotiation'[d] = "ready" => Coming(d)'
    BY DEF Latest
<1>0. UNCHANGED <<sharedVars, known, capability>>
    BY DEF Open, backendVars
<1>1. CASE d = c
    <2>1. CASE StartHello(c, h, ~once[c])
        BY <1>1, <2>1 DEF StartHello, Held
    <2>2. CASE ~once[c] /\ ~(promise = "connect" /\ opener = c)
        BY <1>0, <1>1, <2>2, NamesAssumption DEF Shared, sharedVars, FirstIsAwaited
    <2> QED
        BY <2>1, <2>2 DEF Open, AgreeInv, Inv
<1>2. CASE d # c
    <2>1. socket'[d] = socket[d] /\ state'[d] = state[d]
        BY <1>2 DEF Open, R!HandleOpen
    <2>2. (Shared(d)' => Shared(d)) /\ (R!IsOpen(d)' => R!IsOpen(d))
        BY <1>0, <2>1 DEF Shared, sharedVars, R!IsOpen
    <2>3. updates'[d] = updates[d] /\ negotiation'[d] = negotiation[d]
        BY <1>2 DEF Open, StartHello, AgreeInv, Held
    <2>4. \A k \in Hellos : hello[k].client = d /\ hello[k].current => hello'[k] = hello[k]
        BY <1>2 DEF Open, StartHello, OneCurrent
    <2> QED
        BY <1>0, <2>2, <2>3, <2>4, UntouchedLatest
<1> QED
    BY <1>1, <1>2

LEMMA LoseLatest ==
    ASSUME SettledInv, NEW c \in Clients, Lose(c) PROVE Latest'
<1> USE DEF SettledInv, SerialInv, Serial
<1>1. /\ socket'[c] # "open"
      /\ \A d \in Clients \ {c} : socket'[d] = socket[d] /\ state'[d] = state[d]
    BY DEF Lose, R!HandleClose, R!HandleCloseThenClose
<1>2. CASE Reject(c, TRUE, {})
    <2>1. {} \in SUBSET HellosOf(c) /\ UNCHANGED capability /\ Forget(c, TRUE)
        BY DEF Lose
    <2> QED
        BY <1>1, <1>2, <2>1, DropLatest
<1>3. CASE promise' = "none" /\ UNCHANGED <<backendClient, hello>>
    <2> SUFFICES ASSUME NEW d \in Clients
                 PROVE  Shared(d)' /\ R!IsOpen(d)' /\ negotiation'[d] = "ready" => Coming(d)'
        BY DEF Latest
    <2>1. CASE d = c
        BY <1>1, <2>1 DEF R!IsOpen
    <2>2. CASE d # c
        <3>1. /\ updates'[d] = updates[d] /\ known'[d] = known[d]
              /\ negotiation'[d] = negotiation[d] /\ UNCHANGED capability
            BY <2>2 DEF Lose, Forget, AgreeInv, Held
        <3>2. (Shared(d)' => Shared(d)) /\ (R!IsOpen(d)' => R!IsOpen(d))
            BY <1>1, <1>3, <2>2 DEF Shared, R!IsOpen
        <3> QED
            BY <1>3, <3>1, <3>2, UntouchedLatest
    <2> QED
        BY <2>1, <2>2
<1> QED
    BY <1>2, <1>3 DEF Lose

LEMMA ConcludeShares ==
    ASSUME SettledInv, NEW h \in Hellos, Conclude(h), NEW d \in Clients
    PROVE  Shared(d)' => Shared(d)
BY DEF SettledInv, FirstIsAwaited, Conclude, Shared, sharedVars

LEMMA SendHelloLatest ==
    ASSUME SettledInv, NEW h \in Hellos, SendHello(h) PROVE Latest'
<1> USE DEF SettledInv, SerialInv, Serial
<1> DEFINE c == hello[h].client
<1>0. hello[h].step = "readHello" /\ UNCHANGED capability /\ c \in Clients
    BY ClientOfStep DEF SendHello
<1>1. CASE socket[c] # "open" /\ hello[h].first
    <2>1. R!Close(c) /\ Reject(c, FALSE, {h}) /\ Forget(c, FALSE)
        BY <1>1 DEF SendHello, Fail
    <2>2. /\ socket'[c] # "open"
          /\ \A d \in Clients \ {c} : socket'[d] = socket[d] /\ state'[d] = state[d]
        BY <1>0, <2>1 DEF R!Close
    <2>3. {h} \in SUBSET HellosOf(c)
        BY DEF HellosOf
    <2> QED
        BY <1>0, <2>1, <2>2, <2>3, DropLatest
<1>2. CASE socket[c] = "open" \/ ~hello[h].first
    <2> SUFFICES ASSUME NEW d \in Clients
                 PROVE  Shared(d)' /\ R!IsOpen(d)' /\ negotiation'[d] = "ready" => Coming(d)'
        BY DEF Latest
    <2>1. /\ UNCHANGED <<sharedVars, state, socket, updates, known, negotiation>>
          /\ \A k \in Hellos \ {h} : hello'[k] = hello[k]
        BY <1>2 DEF SendHello, Fail, R!Send, rpcVars, backendVars, AgreeInv, Inv
    <2>2. (Shared(d)' => Shared(d)) /\ (R!IsOpen(d)' => R!IsOpen(d))
        BY <2>1 DEF Shared, sharedVars, R!IsOpen
    <2> QED
        BY <1>0, <2>1, <2>2, UntouchedLatest
<1> QED
    BY <1>1, <1>2

LEMMA HelloAcceptedLatest ==
    ASSUME SettledInv, NEW h \in Hellos, HelloAccepted(h) \/ InfoAnswered(h) PROVE Latest'
<1> USE DEF SettledInv, SerialInv, Serial
<1> DEFINE c == hello[h].client
<1>0. /\ hello[h].step \in {"hello", "info"} /\ c \in Clients /\ hello[h].current
      /\ UNCHANGED <<sharedVars, state, socket, updates, capability>>
      /\ \A k \in Hellos \ {h} : hello'[k] = hello[k]
    BY ClientOfStep DEF HelloAccepted, InfoAnswered, R!ReceiveThenSend, R!Receive, backendVars,
       NoStaleRequest, Asking, AgreeInv, Inv
<1>1. negotiation[c] = "pending"
    BY <1>0 DEF ChainWaits, Opening
<1> SUFFICES ASSUME NEW d \in Clients
             PROVE  Shared(d)' /\ R!IsOpen(d)' /\ negotiation'[d] = "ready" => Coming(d)'
    BY DEF Latest
<1>2. CASE d = c /\ HelloAccepted(h)
    BY <1>1, <1>2 DEF HelloAccepted
<1>3. CASE d = c /\ InfoAnswered(h)
    <2>1. hello' = [hello EXCEPT ![h].step = "readCaps"]
        BY <1>0, <1>3 DEF InfoAnswered
    <2>2. hello'[h].step = "readCaps" /\ hello'[h].client = c /\ hello'[h].current
        BY <1>0, <2>1 DEF AgreeInv, Inv, Slot
    <2> QED
        BY <1>3, <2>2 DEF Coming
<1>4. CASE d # c
    <2>1. known'[d] = known[d] /\ negotiation'[d] = negotiation[d]
        BY <1>0, <1>4 DEF HelloAccepted, InfoAnswered, backendVars, Held
    <2>2. (Shared(d)' => Shared(d)) /\ (R!IsOpen(d)' => R!IsOpen(d))
        BY <1>0 DEF Shared, sharedVars, R!IsOpen
    <2> QED
        BY <1>0, <1>4, <2>1, <2>2, UntouchedLatest
<1> QED
    BY <1>2, <1>3, <1>4

LEMMA CapsLatest ==
    ASSUME SettledInv, NEW h \in Hellos, ReadCaps(h) \/ SendCaps(h) PROVE Latest'
<1> USE DEF SettledInv, SerialInv, Serial
<1> DEFINE c == hello[h].client
<1>0. /\ hello[h].step \in {"readCaps", "haveCaps"} /\ c \in Clients
      /\ UNCHANGED <<state, socket, updates, known, negotiation, capability>>
      /\ \A k \in Hellos \ {h} : hello'[k] = hello[k]
    BY ClientOfStep DEF ReadCaps, SendCaps, R!Send, Conclude, rpcVars, backendVars, AgreeInv, Inv
<1> SUFFICES ASSUME NEW d \in Clients, Shared(d)', R!IsOpen(d)', negotiation'[d] = "ready"
             PROVE  Coming(d)'
    BY DEF Latest
<1>1. Shared(d) /\ R!IsOpen(d) /\ negotiation[d] = "ready"
    <2>1. UNCHANGED sharedVars \/ Conclude(h)
        BY DEF ReadCaps, SendCaps
    <2> QED
        BY <1>0, <2>1, ConcludeShares DEF Shared, sharedVars, R!IsOpen
<1>2. Coming(d)
    BY <1>1 DEF Latest
<1>3. CASE d = c /\ hello[h].current
    <2>1. \/ hello' = [hello EXCEPT ![h].step = "haveCaps", ![h].snap = capability]
          \/ hello[h].step = "haveCaps" /\ hello' = [hello EXCEPT ![h].step = "update"]
        BY <1>1, <1>3 DEF ReadCaps, SendCaps, StillValid
    <2>2. /\ hello'[h].client = c /\ hello'[h].current /\ hello'[h].step \in Carrying
          /\ \/ hello'[h].snap = capability
             \/ hello[h].step = "haveCaps" /\ hello'[h].snap = hello[h].snap
        BY <1>3, <2>1 DEF AgreeInv, Inv, Slot, Carrying
    <2> QED
        BY <1>0, <1>2, <1>3, <2>2 DEF Coming, Carrying
<1>4. CASE ~(d = c /\ hello[h].current)
    BY <1>0, <1>2, <1>4 DEF Coming
<1> QED
    BY <1>3, <1>4

LEMMA UpdateAcceptedLatest ==
    ASSUME SettledInv, NEW h \in Hellos, UpdateAccepted(h) PROVE Latest'
<1> USE DEF SettledInv, SerialInv, Serial
<1> DEFINE c == hello[h].client
<1>0. /\ hello[h].step = "update" /\ c \in Clients /\ hello[h].current /\ Conclude(h)
      /\ UNCHANGED <<state, socket, updates, negotiation, capability>>
      /\ known' = [known EXCEPT ![c] = hello[h].snap]
      /\ \A k \in Hellos \ {h} : hello'[k] = hello[k]
    BY ClientOfStep DEF UpdateAccepted, R!Receive, Conclude, NoStaleRequest, Asking, AgreeInv, Inv
<1> SUFFICES ASSUME NEW d \in Clients, Shared(d)', R!IsOpen(d)', negotiation'[d] = "ready"
             PROVE  Coming(d)'
    BY DEF Latest
<1>1. Shared(d) /\ R!IsOpen(d) /\ negotiation[d] = "ready"
    BY <1>0, ConcludeShares DEF R!IsOpen
<1>2. Coming(d)
    BY <1>1 DEF Latest
<1>3. CASE d = c
    <2>1. known'[c] = hello[h].snap /\ hello[h].snap >= known[c] /\ hello[h].snap <= capability
        BY <1>0 DEF NothingOlder, Held, Carrying
    <2>2. known[c] = capability => known'[c] = capability
        BY SMTT(30), <1>0, <2>1 DEF AgreeInv, Inv, Slot
    <2> QED
        BY <1>0, <1>2, <1>3, <2>1, <2>2 DEF Coming
<1>4. CASE d # c
    <2>1. known'[d] = known[d]
        BY <1>0, <1>4 DEF Held
    <2> QED
        BY <1>0, <1>2, <1>4, <2>1 DEF Coming
<1> QED
    BY <1>3, <1>4

LEMMA UpdateLatest ==
    ASSUME SettledInv, NEW c \in Clients,
           StartUpdate(c) \/ ReadUpdate(c) \/ SendUpdate(c) \/ UpdateAnswered(c, TRUE)
    PROVE  Latest'
<1> USE DEF SettledInv, SerialInv, Serial
<1>0. UNCHANGED <<sharedVars, state, socket, negotiation, capability, hello>>
    BY DEF StartUpdate, ReadUpdate, SendUpdate, UpdateAnswered, R!Send, R!Receive, rpcVars
<1> SUFFICES ASSUME NEW d \in Clients, Shared(d)', R!IsOpen(d)', negotiation'[d] = "ready"
             PROVE  Coming(d)'
    BY DEF Latest
<1>1. Shared(d) /\ R!IsOpen(d) /\ negotiation[d] = "ready"
    BY <1>0 DEF Shared, sharedVars, R!IsOpen
<1>2. Coming(d) /\ updates[d] \in Link
    BY <1>1 DEF Latest, AgreeInv
<1>3. CASE d # c
    <2>1. updates'[d] = updates[d] /\ known'[d] = known[d]
        BY <1>3 DEF StartUpdate, ReadUpdate, SendUpdate, UpdateAnswered, backendVars, AgreeInv, Held
    <2> QED
        BY <1>0, <1>2, <2>1 DEF Coming
<1>4. CASE d = c /\ StartUpdate(c)
    <2>1. updates'[c].step = "readCaps"
        BY <1>1, <1>2, <1>4 DEF StartUpdate, AgreeInv, Link
    <2> QED
        BY <1>4, <2>1 DEF Coming
<1>5. CASE d = c /\ ReadUpdate(c)
    <2>1. updates'[c].step = "haveCaps" /\ updates'[c].snap = capability
        BY <1>2, <1>5 DEF ReadUpdate, AgreeInv, Link
    <2> QED
        BY <1>0, <1>5, <2>1 DEF Coming, Carrying
<1>6. CASE d = c /\ SendUpdate(c)
    <2>1. /\ updates'[c].step = "update" /\ updates'[c].snap = updates[c].snap
          /\ updates'[c].queued = updates[c].queued /\ updates[c].step = "haveCaps"
          /\ UNCHANGED known
        BY <1>2, <1>6 DEF SendUpdate, AgreeInv, Link, backendVars
    <2> QED
        BY <1>0, <1>2, <1>6, <2>1 DEF Coming, Carrying
<1>7. CASE d = c /\ UpdateAnswered(c, TRUE)
    <2>1. /\ updates'[c].queued = updates[c].queued /\ updates[c].step = "update"
          /\ known'[c] = updates[c].snap
        BY <1>2, <1>7 DEF UpdateAnswered, AgreeInv, Link, Held
    <2>2. updates[c].snap >= known[c] /\ updates[c].snap <= capability
        BY <2>1 DEF NothingOlder, Carrying
    <2>3. known[c] = capability => known'[c] = capability
        <3>1. updates[c].snap \in Nat /\ known[c] \in Nat /\ capability \in Nat
            BY DEF AgreeInv, Inv, Link, Held
        <3> QED
            BY <2>1, <2>2, <3>1
    <2> QED
        BY <1>0, <1>2, <1>7, <2>1, <2>3 DEF Coming, Carrying
<1> QED
    BY <1>3, <1>4, <1>5, <1>6, <1>7

LEMMA NextLatest ==
    ASSUME SettledInv, [Next /\ PromptHello /\ SettledChanges /\ ~Refusal]_vars PROVE Latest'
<1>1. CASE UNCHANGED vars
    BY <1>1 DEF vars, rpcVars, sharedVars, backendVars, SettledInv, Latest, Coming, Shared, R!IsOpen
<1>2. ASSUME SettledChanges, Ask \/ TransportFails \/ CapabilityChanges PROVE Latest'
    BY <1>2, SharedLatest
<1>3. ASSUME NEW c \in Clients, ~Refusal,
             TransportReady(c) \/ ConnectionStep(c) \/ UpdateStep(c)
      PROVE  Latest'
    <2>1. CASE UpdateStep(c)
        <3>1. ~UpdateAnswered(c, FALSE)
            BY <1>3 DEF Refusal
        <3> QED
            BY <2>1, <3>1, UpdateLatest DEF UpdateStep
    <2>2. CASE TransportReady(c) \/ ConnectionStep(c)
        BY <2>2, QuietStepsLatest, OpenLatest, LoseLatest DEF ConnectionStep
    <2> QED
        BY <1>3, <2>1, <2>2
<1>4. ASSUME NEW h \in Hellos, ~Refusal, HelloStep(h) PROVE Latest'
    BY <1>4, SendHelloLatest, HelloAcceptedLatest, CapsLatest, UpdateAcceptedLatest
       DEF HelloStep, Refusal
<1> QED
    BY <1>1, <1>2, <1>3, <1>4 DEF Next

LEMMA LatestMeansCurrent ==
    ASSUME SettledInv PROVE CapabilitiesCurrentWhenQuiet
<1> SUFFICES ASSUME Quiet, SharedOpen, negotiation[backendClient] = "ready"
             PROVE  known[backendClient] = capability
    BY DEF CapabilitiesCurrentWhenQuiet
<1>1. backendClient \in Clients
    BY DEF SharedOpen, SettledInv, FirstIsAwaited
<1>2. Coming(backendClient)
    BY <1>1 DEF SettledInv, Latest, Shared, SharedOpen
<1>3. \A h \in Hellos : ~hello[h].current
    BY DEF Quiet, SettledInv, SerialInv, Serial, OneCurrent
<1> QED
    BY <1>1, <1>2, <1>3 DEF Coming, Quiet, NoUpdates, Carrying

\* With nothing in progress the backend has the runtime's capabilities of now:
\* no interleaving of changes, reads, answers, losses and generations of the
\* client loses the last change or lets an older value overwrite it.  Assumed
\* are a getClientHello that answers before the client is open again, no change
\* during a first handshake, and a backend that refuses nothing.
THEOREM LastChangeArrives == SettledSpec => []CapabilitiesCurrentWhenQuiet
<1> DEFINE I == ChainInv /\ SettledInv
<1>1. Init => I
    <2>1. Init => state \in [Clients -> R!States] /\ FirstIsAwaited /\ Latest
        BY DEF Init, R!Init, R!States, FirstIsAwaited, Idle, Latest, R!IsOpen
    <2> QED
        BY <2>1, InitChain DEF ChainInv, SettledInv
<1>2. I /\ [Next /\ PromptHello /\ SettledChanges /\ ~Refusal]_vars => I'
    <2> SUFFICES ASSUME I, [Next /\ PromptHello /\ SettledChanges /\ ~Refusal]_vars PROVE I'
        OBVIOUS
    <2>1. ChainInv'
        BY NextChain
    <2>2. state' \in [Clients -> R!States]
        BY <2>1 DEF ChainInv, P!IInv, P!TypeOK, P!States, R!States
    <2> QED
        BY <2>1, <2>2, NextFirst, NextLatest DEF ChainInv, SettledInv, SerialInv
<1>3. I => CapabilitiesCurrentWhenQuiet
    BY LatestMeansCurrent
<1> QED
    BY <1>1, <1>2, <1>3, PTL DEF SettledSpec
=============================================================================

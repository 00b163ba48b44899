-------------------------- MODULE RpcClient_proofs --------------------------
(***************************************************************************)
(* The safety properties of RpcClient, for any clients, requests and        *)
(* number of attempts.                                                      *)
(***************************************************************************)
EXTENDS RpcClient, TLAPS

\* close() leaves no socket but one whose close event is owed.
ClosedHasNoSocket ==
    \A c \in Clients : manual[c] => socket[c] \in {"none", "detached"}

\* scheduleReconnect arms the timer only while an attempt is left.
TimerHasAttempts ==
    \A c \in Clients : timer[c] => attempt[c] < MaxAttempts

IInv ==
    /\ TypeOK
    /\ PendingOnlyWhenOpen
    /\ NeverStranded
    /\ TimerMeansNoSocket
    /\ ClosedHasNoSocket
    /\ TimerHasAttempts

USE DEF IInv, TypeOK, States, Sockets, PendingOnlyWhenOpen, NeverStranded,
        TimerMeansNoSocket, ClosedHasNoSocket, TimerHasAttempts, Fresh, Exhausted

LEMMA InitIInv == Init => IInv
BY MaxAttemptsAssumption DEF Init

LEMMA ConnectIInv ==
    ASSUME IInv, NEW c \in Clients, Connect(c) PROVE IInv'
BY MaxAttemptsAssumption DEF Connect

LEMMA FireReconnectIInv ==
    ASSUME IInv, NEW c \in Clients, FireReconnect(c) PROVE IInv'
BY MaxAttemptsAssumption DEF FireReconnect

LEMMA HandleOpenIInv ==
    ASSUME IInv, NEW c \in Clients, HandleOpen(c) PROVE IInv'
BY MaxAttemptsAssumption DEF HandleOpen

LEMMA HandleTimeoutIInv ==
    ASSUME IInv, NEW c \in Clients, HandleTimeout(c) PROVE IInv'
BY MaxAttemptsAssumption DEF HandleTimeout

LEMMA HandleCloseIInv ==
    ASSUME IInv, NEW c \in Clients, HandleClose(c) PROVE IInv'
<1> USE DEF HandleClose
<1>1. CASE ~manual[c] /\ ~Exhausted(c)
    <2>1. /\ timer' = [timer EXCEPT ![c] = TRUE]
          /\ state' = [state EXCEPT ![c] = "reconnecting"]
        BY <1>1
    <2>2. TypeOK'
        BY <2>1
    <2>3. NeverStranded' /\ PendingOnlyWhenOpen' /\ ClosedHasNoSocket'
        BY <2>1
    <2>4. TimerMeansNoSocket'
        BY <1>1, <2>1
    <2>5. TimerHasAttempts'
        BY <1>1, <2>1, MaxAttemptsAssumption
    <2> QED BY <2>2, <2>3, <2>4, <2>5
<1>2. CASE manual[c] \/ Exhausted(c)
    <2>1. UNCHANGED timer /\ state' = [state EXCEPT ![c] = "disconnected"]
        BY <1>2
    <2>2. TypeOK'
        BY <2>1
    <2>3. NeverStranded'
        BY <1>2, <2>1, MaxAttemptsAssumption
    <2>4. PendingOnlyWhenOpen' /\ TimerMeansNoSocket' /\ ClosedHasNoSocket'
        BY <2>1
    <2>5. TimerHasAttempts'
        BY <2>1
    <2> QED BY <2>2, <2>3, <2>4, <2>5
<1> QED BY <1>1, <1>2

LEMMA CloseIInv ==
    ASSUME IInv, NEW c \in Clients, Close(c) PROVE IInv'
BY MaxAttemptsAssumption DEF Close

LEMMA HandleCloseThenCloseIInv ==
    ASSUME IInv, NEW c \in Clients, HandleCloseThenClose(c) PROVE IInv'
BY MaxAttemptsAssumption DEF HandleCloseThenClose

LEMMA SendIInv ==
    ASSUME IInv, NEW c \in Clients, NEW r \in Requests, Send(c, r) PROVE IInv'
BY MaxAttemptsAssumption DEF Send

LEMMA ReceiveIInv ==
    ASSUME IInv, NEW c \in Clients, NEW r \in Requests, Receive(c, r) PROVE IInv'
BY MaxAttemptsAssumption DEF Receive

LEMMA ReceiveThenSendIInv ==
    ASSUME IInv, NEW c \in Clients, NEW r \in Requests, NEW q \in Requests,
           ReceiveThenSend(c, r, q)
    PROVE  IInv'
BY MaxAttemptsAssumption DEF ReceiveThenSend

LEMMA NextIInv == IInv /\ [Next]_rpcVars => IInv'
<1> SUFFICES ASSUME IInv, [Next]_rpcVars PROVE IInv'
    OBVIOUS
<1>1. CASE UNCHANGED rpcVars
    BY <1>1 DEF rpcVars
<1>2. CASE Next
    <2> PICK c \in Clients :
            \/ Connect(c) \/ FireReconnect(c) \/ Settle(c) \/ Close(c)
            \/ HandleCloseThenClose(c)
            \/ \E r \in Requests : Send(c, r) \/ Receive(c, r)
            \/ \E r, q \in Requests : ReceiveThenSend(c, r, q)
        BY <1>2 DEF Next
    <2>1. CASE Settle(c)
        BY <2>1, HandleOpenIInv, HandleTimeoutIInv, HandleCloseIInv, Zenon DEF Settle
    <2> QED
        BY <2>1, ConnectIInv, FireReconnectIInv, CloseIInv, HandleCloseThenCloseIInv,
           SendIInv, ReceiveIInv, ReceiveThenSendIInv, Zenon
<1> QED BY <1>1, <1>2

LEMMA AlwaysIInv == Spec => []IInv
BY InitIInv, NextIInv, PTL DEF Spec

\* Every variable of a client keeps its type: no order of events drives
\* attempt beyond maxAttempts or the state out of its four values.
THEOREM TypeCorrect == Spec => []TypeOK
BY AlwaysIInv, PTL

\* No request is left pending by the loss of its socket.
THEOREM PendingSafe == Spec => []PendingOnlyWhenOpen
BY AlwaysIInv, PTL

\* A client that lost its socket is never left with nothing to wake it up.
THEOREM NobodyStranded == Spec => []NeverStranded
BY AlwaysIInv, PTL

\* No second socket is opened beside a live one.
THEOREM NoSecondSocket == Spec => []TimerMeansNoSocket
BY AlwaysIInv, PTL

\* After close() a client opens no socket again.
THEOREM ClosingIsFinal == Spec => ClosedIsFinal
<1> DEFINE Final == \A c \in Clients :
        manual[c] => manual'[c] /\ socket'[c] \notin {"opening", "open"}
<1>1. IInv /\ [Next]_rpcVars => [Final]_rpcVars
    <2> SUFFICES ASSUME IInv, Next PROVE Final
        OBVIOUS
    <2> SUFFICES ASSUME NEW d \in Clients, manual[d]
                 PROVE  manual'[d] /\ socket'[d] \notin {"opening", "open"}
        OBVIOUS
    <2> QED
        BY DEF Next, Settle, Connect, FireReconnect, HandleOpen, HandleTimeout,
               HandleClose, Close, HandleCloseThenClose, Send, Receive, ReceiveThenSend
<1> QED BY <1>1, AlwaysIInv, PTL DEF Spec, ClosedIsFinal

=============================================================================

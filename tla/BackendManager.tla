--------------------------- MODULE BackendManager ---------------------------
(***************************************************************************)
(* The packaged application's hold on the shared backend runtime             *)
(* (src/main/services/backend-manager.ts): start, stopAndWait, restart,      *)
(* detach, getReadyConnectionInfo, the health check, the restart after a     *)
(* crash and the runtime lease.  Every method is asynchronous and any two    *)
(* may overlap: what runs between two awaits is one step, and a step works   *)
(* on the pair [m, calls] of the object's fields and of the calls in         *)
(* progress, because settling one promise resumes all that await it.        *)
(*                                                                         *)
(* The backend is external: `runtime acquire` brings it up, an authenticated *)
(* backend.shutdown takes it down, it may crash, and a request to it, an     *)
(* acquire or a lease may fail.                                              *)
(***************************************************************************)
EXTENDS Naturals, FiniteSets

CONSTANTS
    Callers,      \* calls made by the bootstrap, the updater, windows, quit
    Kinds,        \* what they may call: "start", "restart", "ready", "stop"
    Respawns,     \* runs of the restart timer's callback
    MaxAttempts,  \* maxRestartAttempts
    MaxPolls,     \* pings of one waitUntilHealthy before its deadline
    MaxCrashes,   \* bound: crashes of the backend
    MaxFaults,    \* bound: failed requests, acquires and leases
    MaxMissing,   \* bound: launch targets that are not found
    MaxDetaches   \* bound: calls of detach and forceStop

Nobody == "nobody"

ASSUME BackendAssumption ==
    /\ IsFiniteSet(Callers) /\ IsFiniteSet(Respawns)
    /\ Callers \cap Respawns = {} /\ Nobody \notin Callers \cup Respawns
    /\ Kinds \subseteq {"start", "restart", "ready", "stop"}
    /\ {MaxAttempts, MaxPolls, MaxCrashes, MaxFaults, MaxMissing, MaxDetaches} \subseteq Nat

VARIABLES
    m,        \* the fields of the BackendManager object
    calls,    \* for every call: what was called, where it awaits, the answer
    tick,     \* the ping of a health check in flight
    server,   \* the backend process
    crashes, faults, missing, detaches

vars == <<m, calls, tick, server, crashes, faults, missing, detaches>>

Ids == Callers \cup Respawns

\* What a request in flight has come to.
Answers == {"none", "asked", "ok", "bad"}

\* authToken, connectionId and activeTarget are set and cleared together:
\* token.  `leaked` are armed restart timers that restartTimer no longer names.
Manager == [status: {"stopped", "starting", "healthy", "unhealthy"},
            shutting: BOOLEAN, interval: BOOLEAN, timer: BOOLEAN,
            leaked: Nat, attempts: Nat, token: BOOLEAN,
            lease: {"none", "opening", "open"}, info: Ids \cup {Nobody}]

Call == [kind: Kinds \cup {"none", "respawn"},
         pc: {"idle", "checking", "joined", "stopping", "acquiring", "leasing",
              "checked", "polling", "handing", "ok", "threw"},
         answer: Answers, polls: Nat]

Init ==
    /\ m = [status |-> "stopped", shutting |-> FALSE, interval |-> FALSE,
            timer |-> FALSE, leaked |-> 0, attempts |-> 0, token |-> FALSE,
            lease |-> "none", info |-> Nobody]
    /\ calls = [k \in Ids |-> [kind |-> "none", pc |-> "idle",
                               answer |-> "none", polls |-> 0]]
    /\ tick = "none"
    /\ server = "down"
    /\ crashes = 0 /\ faults = 0 /\ missing = 0 /\ detaches = 0

---------------------------------------------------------------------------
(* Parts of the methods, on s = [m, calls]                                  *)

\* The calls K go on to await `pc`.
To(s, K, pc, answer) ==
    [s EXCEPT !.calls = [j \in Ids |->
        IF j \in K THEN [@[j] EXCEPT !.pc = pc, !.answer = answer] ELSE @[j]]]

\* What a request made now will be answered: an unauthenticated one is refused.
Ask(mm) == IF mm.token THEN "asked" ELSE "bad"

\* handleProcessCrash(), n times: `again` of them arm a restart timer, and
\* each of these but the last is one that restartTimer does not name.
Crashed(mm, n) ==
    LET left  == MaxAttempts - mm.attempts
        again == IF n <= left THEN n ELSE left
    IN  IF n = 0 THEN mm
        ELSE [mm EXCEPT
                !.attempts = @ + again,
                !.status = IF again < n THEN "unhealthy" ELSE "starting",
                !.timer = @ \/ again > 0,
                !.leaked = IF mm.timer \/ again = 0 THEN @ + again
                                                    ELSE @ + again - 1]

\* The callers of getReadyConnectionInfo whom connectionInfoPromise answers.
Joined(s, K) ==
    IF s.m.info \in K THEN K \cup {j \in Ids : s.calls[j].pc = "joined"} ELSE K

\* Where a call ends: a restart timer's callback returns to nobody.  `outcome`
\* is "ok" or "threw".
Done(j, outcome) == IF j \in Respawns THEN "idle" ELSE outcome

BadFinish(s, K, outcome) ==
    [s EXCEPT !.m.info = IF @ \in K THEN Nobody ELSE @,
              !.calls = [j \in Ids |->
                  IF j \in K THEN [@[j] EXCEPT !.pc = Done(j, outcome), !.answer = "none"]
                             ELSE @[j]]]

\* The calls K return or throw to their callers, the owner of
\* connectionInfoPromise with all who await it.
Finish(s, K, outcome) ==
    [s EXCEPT !.m.info = IF @ \in K THEN Nobody ELSE @,
              !.calls = [j \in Ids |->
                  IF j \in Joined(s, K)
                  THEN [@[j] EXCEPT !.pc = Done(j, outcome), !.answer = "none"]
                  ELSE @[j]]]

\* What the calls K await rejects.  The restart timer's callback catches, and
\* counts the failure as one more crash; it does not look at isShuttingDown again.
Throw(s, K) ==
    Finish([s EXCEPT !.m = Crashed(@, Cardinality(K \cap Respawns))], K, "threw")

\* waitUntilHealthy() begins with a ping.
Poll(s, K) ==
    [s EXCEPT !.calls = [j \in Ids |->
        IF j \in K THEN [@[j] EXCEPT !.pc = "polling", !.answer = Ask(s.m), !.polls = 1]
                   ELSE @[j]]]

\* What follows ensureRuntimeLease(): after an acquire ("leasing") the health
\* check starts and the caller waits for a healthy backend; "checked" and
\* "handing" are the two calls in getReadyConnectionInfo.
Leased(s, K) ==
    LET acquired == {k \in K \ Respawns : s.calls[k].pc = "leasing"}
    IN  Poll(Finish([s EXCEPT !.m.interval = @ \/ acquired # {}],
                    K \ acquired, "ok"),
             acquired)

\* ensureRuntimeLease(), awaited at `pc`: nothing while shutting down or when
\* the lease is open, the one promise in flight if there is one, else a socket.
BadLease(s, k, pc) ==
    LET t == To(s, {k}, pc, "none") IN
    CASE s.m.lease = "open"    -> Leased(t, {k})
      [] s.m.lease = "opening" -> t
      [] OTHER -> IF s.m.token THEN [t EXCEPT !.m.lease = "opening"]
                               ELSE Throw(t, {k})

Lease(s, k, pc) ==
    LET t == To(s, {k}, pc, "none") IN
    CASE s.m.shutting \/ s.m.lease = "open" -> Leased(t, {k})
      [] ~s.m.shutting /\ s.m.lease = "opening" -> t
      [] OTHER -> IF s.m.token THEN [t EXCEPT !.m.lease = "opening"]
                               ELSE Throw(t, {k})

\* Those who await runtimeLeasePromise.
Leasing(s) ==
    {k \in Ids : s.calls[k].pc \in {"leasing", "checked", "handing"}}

\* The lease socket opens, or it fails: everyone who awaits it goes on.
LeaseSettles(s, opened) ==
    IF opened THEN Leased([s EXCEPT !.m.lease = "open"], Leasing(s))
              ELSE Throw([s EXCEPT !.m.lease = "none"], Leasing(s))

\* stopAndWait() and detach() after the shutdown request: closeRuntimeLease()
\* and the fields; a socket terminated while connecting rejects afterwards.
Release(s) ==
    LET t == [s EXCEPT !.m.token = FALSE, !.m.status = "stopped",
                       !.m.lease = "none"]
    IN  IF s.m.lease = "opening" THEN LeaseSettles(t, FALSE) ELSE t

\* resolveBackendLaunchTarget(), and spawnProcess() of what it found.
Spawn(s, k, found) ==
    IF found THEN To(s, {k}, "acquiring", "asked")
    ELSE Throw([s EXCEPT !.m.status = "unhealthy"], {k})

\* stopAndWait() returns: to its caller, or to restart().
Stopped(s, k, found) ==
    LET t == Release(s) IN
    IF s.calls[k].kind = "stop" THEN Finish(t, {k}, "ok")
    ELSE Spawn([t EXCEPT !.m.shutting = FALSE, !.m.status = "starting"], k, found)

\* stopAndWait() up to its await: this.process is never set, so that the
\* request is all there is, and without a token there is none.
StopAndWait(s, k, found) ==
    LET t == [s EXCEPT !.m.shutting = TRUE, !.m.interval = FALSE,
                       !.m.timer = FALSE, !.m.attempts = 0]
    IN  IF s.m.token THEN To(t, {k}, "stopping", "asked") ELSE Stopped(t, k, found)

---------------------------------------------------------------------------
(* The calls                                                               *)

Set(s) == m' = s.m /\ calls' = s.calls

\* k is called as `kind`; s is the pair it starts from.
Begins(k, kind) == calls[k].kind = "none" /\ kind \in Kinds

As(k, kind) == [m |-> m, calls |-> [calls EXCEPT ![k].kind = kind]]

\* Whether the launch target is found: the installed backend may be damaged.
Found(found) == IF found THEN UNCHANGED missing
                         ELSE missing < MaxMissing /\ missing' = missing + 1

\* start() and then waitUntilHealthy(), as the bootstrap calls them.
Start(k, found) ==
    /\ Begins(k, "start")
    /\ Found(found)
    /\ LET s == [As(k, "start") EXCEPT !.m.shutting = FALSE]
       IN  IF m.status \in {"starting", "healthy"}
           THEN /\ found
                /\ Set(Poll([s EXCEPT !.m.interval = TRUE], {k}))
           ELSE Set(Spawn([s EXCEPT !.m.status = "starting"], k, found))
    /\ UNCHANGED <<tick, server, crashes, faults, detaches>>

\* stopAndWait(); restartAndWaitHealthy().
Stop(k, kind, found) ==
    /\ kind \in {"stop", "restart"} /\ Begins(k, kind)
    /\ kind = "restart" \/ found
    /\ m.token => found
    /\ Found(found)
    /\ Set(StopAndWait(As(k, kind), k, found))
    /\ UNCHANGED <<tick, server, crashes, faults, detaches>>

\* getReadyConnectionInfo(): the first ping.
Ready(k) ==
    /\ Begins(k, "ready")
    /\ Set(To(As(k, "ready"), {k}, "checking", Ask(m)))
    /\ UNCHANGED <<tick, server, crashes, faults, missing, detaches>>

\* detach(), which forceStop() comes to as this.process is null.
Detach ==
    /\ detaches < MaxDetaches
    /\ detaches' = detaches + 1
    /\ Set(Release([m |-> [m EXCEPT !.shutting = TRUE, !.interval = FALSE,
                                    !.timer = FALSE], calls |-> calls]))
    /\ UNCHANGED <<tick, server, crashes, faults, missing>>

Now == [m |-> m, calls |-> calls]

Answered(k, pc) == calls[k].pc = pc /\ calls[k].answer \in {"ok", "bad"}

\* The first ping of getReadyConnectionInfo has been answered.
Checked(k, found) ==
    /\ Answered(k, "checking")
    /\ LET own == [Now EXCEPT !.m.info = k] IN
       IF calls[k].answer = "ok"
       THEN found /\ Set(Lease([Now EXCEPT !.m.status = "healthy"], k, "checked"))
       ELSE IF m.info # Nobody
            THEN found /\ Set(To(Now, {k}, "joined", "none"))
            ELSE IF m.status = "starting"
                 THEN found /\ Set(Poll(own, {k}))
                 ELSE (m.token => found) /\ Set(StopAndWait(own, k, found))
    /\ Found(found)
    /\ UNCHANGED <<tick, server, crashes, faults, detaches>>

\* The shutdown request has been answered or has failed.
StopReturns(k, found) ==
    /\ Answered(k, "stopping")
    /\ calls[k].kind = "stop" => found
    /\ Found(found)
    /\ Set(Stopped(Now, k, found))
    /\ UNCHANGED <<tick, server, crashes, faults, detaches>>

\* spawnProcess() returns: the runtime is up and its token known.
Acquired(k) ==
    /\ calls[k].pc = "acquiring"
    /\ server' = "up"
    /\ Set(Lease([Now EXCEPT !.m.token = TRUE], k, "leasing"))
    /\ UNCHANGED <<tick, crashes, faults, missing, detaches>>

\* spawnProcess() throws.
AcquireFails(k) ==
    /\ calls[k].pc = "acquiring" /\ faults < MaxFaults
    /\ faults' = faults + 1
    /\ Set(Throw(Now, {k}))
    /\ UNCHANGED <<tick, server, crashes, missing, detaches>>

\* A ping of waitUntilHealthy has been answered: healthy, or once more after a
\* delay, or the deadline.
BadPolled(k) ==
    /\ Answered(k, "polling")
    /\ LET s == [Now EXCEPT !.m.status = "healthy", !.m.attempts = 0] IN
       Set(CASE calls[k].answer = "ok" -> Finish(s, {k}, "ok")
             [] calls[k].answer = "bad" /\ calls[k].polls < MaxPolls ->
                   [To(Now, {k}, "polling", Ask(m)) EXCEPT !.calls[k].polls = @ + 1]
             [] OTHER -> Throw([Now EXCEPT !.m.status = "unhealthy"], {k}))
    /\ UNCHANGED <<tick, server, crashes, faults, missing, detaches>>

Polled(k) ==
    /\ Answered(k, "polling")
    /\ LET s == [Now EXCEPT !.m.status = "healthy", !.m.attempts = 0] IN
       Set(CASE calls[k].answer = "ok" ->
                   IF calls[k].kind = "ready" THEN Lease(s, k, "handing")
                                              ELSE Finish(s, {k}, "ok")
             [] calls[k].answer = "bad" /\ calls[k].polls < MaxPolls ->
                   [To(Now, {k}, "polling", Ask(m)) EXCEPT !.calls[k].polls = @ + 1]
             [] OTHER -> Throw([Now EXCEPT !.m.status = "unhealthy"], {k}))
    /\ UNCHANGED <<tick, server, crashes, faults, missing, detaches>>

---------------------------------------------------------------------------
(* Timers                                                                  *)

\* The health check pings.
Tick ==
    /\ m.interval /\ tick = "none"
    /\ tick' = Ask(m)
    /\ UNCHANGED <<m, calls, server, crashes, faults, missing, detaches>>

\* Nobody awaits the lease a health check restores.
Restored(mm) ==
    IF ~mm.shutting /\ mm.lease = "none" /\ mm.token
    THEN [mm EXCEPT !.lease = "opening"] ELSE mm

\* Its answer, which comes even after the health check was stopped.
BadTicked ==
    /\ tick \in {"ok", "bad"}
    /\ tick' = "none"
    /\ m' = IF tick = "ok"
            THEN Restored([m EXCEPT !.status = "healthy", !.attempts = 0])
            ELSE [m EXCEPT !.status = "unhealthy"]
    /\ UNCHANGED <<calls, server, crashes, faults, missing, detaches>>

Ticked ==
    /\ tick \in {"ok", "bad"}
    /\ tick' = "none"
    /\ m' = CASE tick = "ok" ->
                    Restored([m EXCEPT !.status = "healthy", !.attempts = 0])
              [] tick = "bad" /\ m.status = "healthy" /\ ~m.shutting -> Crashed(m, 1)
              [] OTHER -> [m EXCEPT !.status = "unhealthy"]
    /\ UNCHANGED <<calls, server, crashes, faults, missing, detaches>>

\* A restart timer fires: restartTimer's, or one it no longer names.
Fire(k, found) ==
    /\ calls[k].pc = "idle"
    /\ LET mm == IF m.timer THEN [m EXCEPT !.timer = FALSE]
                            ELSE [m EXCEPT !.leaked = @ - 1]
           s == [m |-> mm, calls |-> [calls EXCEPT ![k].kind = "respawn"]]
       IN  /\ m.timer \/ m.leaked > 0
           /\ m.shutting => found
           /\ IF m.shutting THEN m' = mm /\ UNCHANGED calls
              ELSE IF found THEN Set(Spawn(s, k, TRUE))
              ELSE m' = [mm EXCEPT !.status = "unhealthy"] /\ UNCHANGED calls
    /\ Found(found)
    /\ UNCHANGED <<tick, server, crashes, faults, detaches>>

---------------------------------------------------------------------------
(* The backend                                                             *)

\* It answers a ping, or the ping times out.
AnswerTo(up) == IF up /\ server = "up" THEN "ok" ELSE "bad"

Lost(up) == IF ~up /\ server = "up"
            THEN faults < MaxFaults /\ faults' = faults + 1
            ELSE UNCHANGED faults

AnswerTick(up) ==
    /\ tick = "asked"
    /\ tick' = AnswerTo(up)
    /\ Lost(up)
    /\ UNCHANGED <<m, calls, server, crashes, missing, detaches>>

AnswerPing(k, up) ==
    /\ calls[k].pc \in {"checking", "polling"} /\ calls[k].answer = "asked"
    /\ calls' = [calls EXCEPT ![k].answer = AnswerTo(up)]
    /\ Lost(up)
    /\ UNCHANGED <<m, tick, server, crashes, missing, detaches>>

\* It answers backend.shutdown and goes down, or the request is lost.
AnswerStop(k, up) ==
    /\ calls[k].pc = "stopping" /\ calls[k].answer = "asked"
    /\ calls' = [calls EXCEPT ![k].answer = AnswerTo(up)]
    /\ server' = IF up THEN "down" ELSE server
    /\ Lost(up)
    /\ UNCHANGED <<m, tick, crashes, missing, detaches>>

Crash ==
    /\ server = "up" /\ crashes < MaxCrashes
    /\ server' = "down" /\ crashes' = crashes + 1
    /\ UNCHANGED <<m, calls, tick, faults, missing, detaches>>

\* The lease socket opens, cannot, or closes with the backend.
LeaseOpens ==
    /\ m.lease = "opening" /\ server = "up"
    /\ Set(LeaseSettles(Now, TRUE))
    /\ UNCHANGED <<tick, server, crashes, faults, missing, detaches>>

LeaseFails ==
    /\ m.lease = "opening"
    /\ Lost(FALSE)
    /\ Set(LeaseSettles(Now, FALSE))
    /\ UNCHANGED <<tick, server, crashes, missing, detaches>>

LeaseCloses ==
    /\ m.lease = "open" /\ server = "down"
    /\ m' = [m EXCEPT !.lease = "none"]
    /\ UNCHANGED <<calls, tick, server, crashes, faults, missing, detaches>>

---------------------------------------------------------------------------
CallerStep(k) ==
    \/ \E found \in BOOLEAN : Checked(k, found) \/ StopReturns(k, found)
    \/ Acquired(k) \/ AcquireFails(k) \/ Polled(k)
    \/ \E up \in BOOLEAN : AnswerPing(k, up) \/ AnswerStop(k, up)

TickStep == Ticked \/ \E up \in BOOLEAN : AnswerTick(up)

LeaseStep == LeaseOpens \/ LeaseFails \/ LeaseCloses

FireStep == \E k \in Respawns, found \in BOOLEAN : Fire(k, found)

Next ==
    \/ \E k \in Callers, found \in BOOLEAN :
          Start(k, found) \/ Stop(k, "stop", found) \/ Stop(k, "restart", found)
    \/ \E k \in Callers : Ready(k)
    \/ Detach
    \/ \E k \in Ids : CallerStep(k)
    \/ Tick \/ TickStep \/ FireStep \/ Crash \/ LeaseStep

Spec == Init /\ [][Next]_vars

\* Timers fire, requests are answered or time out and promises resume; nobody
\* has to call anything.
Fairness ==
    /\ \A k \in Ids : WF_vars(CallerStep(k))
    /\ WF_vars(Tick) /\ WF_vars(TickStep)
    /\ WF_vars(FireStep) /\ WF_vars(LeaseStep)

FairSpec == Spec /\ Fairness

---------------------------------------------------------------------------
(* Properties                                                              *)

\* The fields, the calls and the requests have their types; restartAttempts
\* stays within its limit whatever fails when.
TypeOK ==
    /\ m \in Manager /\ m.attempts <= MaxAttempts
    /\ calls \in [Ids -> Call]
    /\ tick \in Answers /\ server \in {"up", "down"}

\* The application has let go of the backend: stop or detach is through.
Released == m.shutting /\ \A k \in Ids : calls[k].pc # "stopping"

\* Once stop or detach is through, the lease is neither held nor being opened,
\* whichever calls, timers and pings were in flight: a lease left behind keeps
\* the shared backend running for an application that has quit.
NoLeaseAfterStop == Released => m.lease = "none"

\* Whoever waits for another's recovery (connectionInfoPromise) waits for one
\* that is going on, so that every window gets its answer.
JoinedAreServed ==
    (\E k \in Ids : calls[k].pc = "joined") =>
        /\ m.info \in Callers
        /\ calls[m.info].kind = "ready"
        /\ calls[m.info].pc \in {"stopping", "acquiring", "leasing", "polling", "handing"}

\* getReadyConnectionInfo returns connection details only with the runtime's
\* token known and the lease held, unless the application is letting go of it.
ReadyIsLeased ==
    [][\A k \in Callers :
         calls[k].kind = "ready" /\ calls[k].pc # "ok" /\ calls'[k].pc = "ok" =>
             m'.shutting \/ (m'.token /\ m'.lease = "open")]_vars

\* Every call returns or throws.
CallsReturn == \A k \in Callers : calls[k].pc # "idle" ~> calls[k].pc \in {"ok", "threw"}

\* No caller and no restart is at work: only the health check watches.
Watched ==
    /\ m.interval /\ m.status = "healthy"
    /\ \A k \in Ids : calls[k].pc \in {"idle", "ok", "threw"}

\* Somebody asks for something again.
Called == \E k \in Callers : calls[k].pc \notin {"idle", "ok", "threw"}

\* A backend that goes down while the health check alone watches it, and had
\* found it healthy, is brought back with its lease, unless a call made
\* meanwhile takes over.
Recovers ==
    (Watched /\ server = "down") ~>
        \/ m.status = "healthy" /\ server = "up" /\ m.lease = "open"
        \/ Called

\* Stopping clears the health check: none is left once stop is through.
StopClearsHealthCheck == Released => ~m.interval

\* The application data is reset after the backend was stopped
\* (src/main/index.ts): with no request lost and no detach, it is down then and
\* stays down.
StoppedIsDown == Released => server = "down"

\* start() goes on to wait for a healthy backend only with the shared runtime
\* acquired.
StartAcquires ==
    [][\A k \in Callers :
         /\ calls'[k].kind = "start"
         /\ calls[k].pc # "polling" /\ calls'[k].pc = "polling"
         => m'.token]_vars

=============================================================================

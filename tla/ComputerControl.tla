--------------------------- MODULE ComputerControl ---------------------------
(***************************************************************************)
(* The permission of the agent to observe and to operate one window of the *)
(* user: ComputerService (computer-service.ts), the client of the native   *)
(* helper (helper-client.ts), the overlay that shows who is in control     *)
(* (computer-overlay.ts) and the input controller of the helper            *)
(* (control.cpp), with the turns of the session that ask for it.           *)
(*                                                                         *)
(* The service has no locks: each of its async methods reads fields, awaits*)
(* the helper or the overlay, and goes on with what it read.  A generation *)
(* counter that every revocation, pause, start and end of a turn increases *)
(* tells a method that it has been overtaken.  A captured generation is    *)
(* only ever compared for equality with the present one, so a flow keeps   *)
(* `fresh': whether the generation it captured is still the present one.   *)
(* `same' does so for the other object it has captured: the access of a      *)
(* resumption, the question whose windows are listed.                        *)
(***************************************************************************)
EXTENDS Naturals, FiniteSets

CONSTANTS
    Slots,      \* the async calls that can be in progress at once (bound)
    MaxTurns,   \* turns of the session (bound)
    None        \* no slot, no access, no decision, no control

ASSUME SlotsAssumption == IsFiniteSet(Slots) /\ None \notin Slots
ASSUME TurnsAssumption == MaxTurns \in Nat \ {0}

VARIABLES
    s,        \* the fields of ComputerService
    flows,    \* its async calls in progress, each at one of its awaits
    link,     \* NativeComputerHelper: the child, and the priority requests under way
    native,   \* InputController of the child
    overlay,  \* ComputerOverlay
    turn,     \* the turn of the session that is running
    consent   \* history: what the user granted to each turn, while it stands

vars == <<s, flows, link, native, overlay, turn, consent>>

Turns == 1..MaxTurns
Modes == {"observe", "control"}
Signals == {"beat", "pause", "stop"}

Grant   == [turn : Turns, mode : Modes]
Control == [turn : Turns, state : {"running", "paused", "cancelled"}, resuming : BOOLEAN]

ASSUME NoneAssumption == None \notin Grant \cup Control

Kinds == {"none", "hello", "request", "trust", "list", "decide", "resume",
          "observe", "act", "probe"}

\* What a call awaits: the health check, the readiness of the helper, an
\* answer of the helper to the method named, the thumbnails or the overlay.
Awaits == {"idle", "readiness", "queued", "waiting", "hello", "list", "thumbs",
           "select", "validate", "target", "overlay", "start", "observe", "act"}

\* The promise awaited: none yet, a helper that is starting, an answer, an
\* answer that is on its way back, settled.
Promises == {"none", "starting", "sent", "answered", "kept", "broken"}

Flow == [kind : Kinds, turn : Turns, mode : Modes, pc : Awaits, req : Promises,
         fresh : BOOLEAN, same : BOOLEAN, latest : BOOLEAN]

Idle == [kind |-> "none", turn |-> 1, mode |-> "observe", pc |-> "idle",
         req |-> "none", fresh |-> FALSE, same |-> FALSE, latest |-> FALSE]

\* The awaits of startControl.
Starting == {"waiting", "target", "overlay", "start"}

Init ==
    /\ s = [setting |-> "control", access |-> None, control |-> None,
            decision |-> None, target |-> FALSE, denied |-> {}, listed |-> FALSE,
            frame |-> FALSE, busy |-> None, resuming |-> None, trusted |-> None,
            flight |-> None, health |-> None, monitor |-> FALSE, beat |-> FALSE,
            early |-> "none"]
    /\ flows = [f \in Slots |-> Idle]
    /\ link = [proc |-> "none", beat |-> "none", pause |-> "none", stop |-> "none"]
    /\ native = "idle"
    /\ overlay = "closed"
    /\ turn = 1
    /\ consent = [t \in Turns |-> {}]

\* A request of the helper that is not a priority one is under way.
UnderWay(fl) == fl.req \in {"sent", "answered"}

Now == [s |-> s, flows |-> flows, link |-> link, native |-> native,
        overlay |-> overlay, consent |-> consent]

Set(w) ==
    /\ s' = w.s /\ flows' = w.flows /\ link' = w.link /\ native' = w.native
    /\ overlay' = w.overlay /\ consent' = w.consent

---------------------------------------------------------------------------
(* What the methods of the service do between two awaits, as functions of  *)
(* the state                                                               *)

\* ++this.generation: every captured generation is out of date but f's.
Bumped(w, f) ==
    [w EXCEPT !.flows = [g \in Slots |-> [w.flows[g] EXCEPT !.fresh = @ /\ g = f]]]

\* The access, or the question, that calls of these kinds captured is replaced.
Replaced(w, kinds) ==
    [w EXCEPT !.flows = [g \in Slots |->
                           [w.flows[g] EXCEPT !.same = @ /\ w.flows[g].kind \notin kinds]]]

\* A new observation, or none: what an action refers to is no longer the latest.
Framed(w, shown) ==
    [w EXCEPT !.s.frame = shown,
              !.flows = [g \in Slots |-> [w.flows[g] EXCEPT !.latest = FALSE]]]

\* Mutant: a pause or a stop that is not sent to the helper.
BadSignal(w, g) == w

\* A priority request: it does not wait for the one in progress.
Signal(w, g) ==
    [w EXCEPT !.link[g] = IF w.link.proc = "up" THEN "sent" ELSE "starting",
              !.link.proc = IF @ = "none" THEN "starting" ELSE @]

CloseOverlay(w) ==
    [w EXCEPT !.overlay = IF @ \in {"opening", "doomed"} THEN "doomed" ELSE "closed"]

\* The requests a stop of the helper rejects, and the calls that waited for its
\* readiness.
Rejected(fl) == UnderWay(fl) \/ fl.pc = "readiness"

\* helper.stop(): the child is killed; a start under way ends with an error.
Unlinked(w) ==
    LET Kept(g) == IF w.link[g] = "sent" THEN "none" ELSE w.link[g]
    IN [w EXCEPT !.link = [proc |-> IF @.proc \in {"starting", "doomed"} THEN "doomed" ELSE "none",
                           beat |-> Kept("beat"), pause |-> Kept("pause"), stop |-> Kept("stop")],
                 !.native = "idle"]

\* The turns whose request waits for the readiness of the helper (checkingInput).
Checking(w) == {w.flows[f].turn : f \in {g \in Slots : w.flows[g].pc = "readiness"}}

TurnOf(grant) == IF grant = None THEN {} ELSE {grant.turn}

\* revoke().  The calls that stop() rejects unwind before anything else runs;
\* what they do then (another revoke) changes nothing more.
Cancelled(control) == IF control = None THEN None ELSE [control EXCEPT !.state = "cancelled"]

Without(slot, gone) == IF slot \in gone THEN None ELSE slot

Revoked(w) ==
    LET ended == TurnOf(w.s.access) \cup TurnOf(w.s.decision)
        gone  == {f \in Slots : Rejected(w.flows[f])}
        x == Unlinked(Framed(Bumped(Replaced(w, {"list", "resume"}), None), FALSE))
        fields == [x.s EXCEPT
                     !.access = None, !.decision = None, !.target = FALSE,
                     !.denied = @ \cup ended \cup Checking(w),
                     !.listed = FALSE, !.busy = None, !.resuming = None,
                     !.flight = None, !.monitor = FALSE, !.beat = FALSE, !.early = "none",
                     !.trusted = Without(@, gone), !.health = Without(@, gone),
                     !.control = Cancelled(@)]
        y == [x EXCEPT !.s = fields,
                       !.flows = [f \in Slots |-> IF f \in gone THEN Idle ELSE x.flows[f]],
                       !.consent = [t \in Turns |-> {}]]
    IN IF w.s.control = None THEN CloseOverlay(y) ELSE y

\* pause(), when there is a control that is not cancelled.
Paused(w) ==
    IF w.s.control = None \/ w.s.control.state = "cancelled" THEN w
    ELSE Signal([Framed(Bumped(w, None), FALSE) EXCEPT
                    !.s.control.state = "paused", !.s.control.resuming = FALSE],
                "pause")

\* finish(), for the scope of turn t.
Finished(w, t) ==
    LET mine == {t} \cap (TurnOf(w.s.access) \cup TurnOf(w.s.decision) \cup Checking(w))
        v == Bumped(Replaced(w, {"list", "resume"}), None)
        x == CloseOverlay(Signal(Framed(v, FALSE), "stop"))
    IN IF mine = {} THEN w
       ELSE [x EXCEPT
              !.s = [x.s EXCEPT !.denied = @ \cup TurnOf(w.s.access) \cup ({t} \cap Checking(w)),
                                !.access = None, !.decision = None, !.control = None,
                                !.busy = Without(@, {w.s.resuming}),
                                !.resuming = None, !.beat = FALSE, !.early = "none"]]

\* The finally blocks of the call f; with the check of the helper's readiness
\* the calls end that wait for it and have not been let go.
Released(w, f) ==
    LET Ends(g) == \/ g = f
                   \/ w.s.flight = f /\ w.flows[g].pc = "readiness" /\ w.flows[g].req = "none"
        held == IF w.flows[f].kind = "resume" /\ w.s.resuming # f THEN {} ELSE {f}
    IN [w EXCEPT !.flows = [g \in Slots |-> IF Ends(g) THEN Idle ELSE w.flows[g]],
                 !.s = [w.s EXCEPT !.busy = Without(@, held), !.health = Without(@, {f}),
                                   !.trusted = Without(@, {f}), !.flight = Without(@, {f}),
                                   !.resuming = Without(@, {f}),
                                   !.control = IF @ # None /\ w.s.resuming = f
                                               THEN [w.s.control EXCEPT !.resuming = FALSE]
                                               ELSE @]]

\* Nothing that the call captured has changed.
Stands(fl) == fl.fresh /\ (fl.kind \in {"list", "resume"} => fl.same)

\* What its catch blocks do, by the code of the error: "busy" and "cancelled"
\* by their names, "stopped" for a helper that is gone, "native" for
\* computer_native_failed, "refused" for any other.
Revokes(fl, code) ==
    \/ fl.kind \in {"decide", "trust"} /\ fl.pc \in Starting
    \/ fl.kind \in {"observe", "act"} /\ code \in {"stopped", "native"}
    \/ fl.kind = "resume" /\ Stands(fl) /\ code = "stopped"
    \/ fl.kind = "probe" /\ fl.fresh /\ code # "busy"

Pauses(fl, code) ==
    \/ fl.kind = "act"
    \/ fl.kind = "resume" /\ Stands(fl)

Throw(w, f, code) ==
    LET fl == w.flows[f]
        y == IF fl.pc = "start" THEN [w EXCEPT !.s.early = "none"] ELSE w
        x == IF fl.kind = "act" THEN Framed(y, FALSE) ELSE y
    IN IF Revokes(fl, code) THEN Released(Revoked(x), f)
       ELSE IF Pauses(fl, code) THEN Released(Paused(x), f)
       ELSE Released(x, f)

\* helper.request(): one request at a time but for the priority ones, after a
\* start of the helper if there is none.
Ask(w, f, method) ==
    LET x == [w EXCEPT !.flows[f].pc = method]
    IN IF w.link.proc # "up"
       THEN [x EXCEPT !.flows[f].req = "starting",
                      !.link.proc = IF @ = "none" THEN "starting" ELSE @]
       ELSE IF \E g \in Slots \ {f} : UnderWay(w.flows[g]) THEN Throw(x, f, "busy")
       ELSE [x EXCEPT !.flows[f].req = "sent"]

\* await this.healthCheck, and then the request.
AfterHealth(w, f, place, method) ==
    IF w.s.health # None THEN [w EXCEPT !.flows[f].pc = place, !.flows[f].req = "none"]
    ELSE Ask(w, f, method)

\* startControl(), up to its first await.
StartControl(w, f) ==
    LET x == [w EXCEPT !.flows[f].pc = "waiting"]
    IN IF w.s.access = None \/ w.s.setting # "control" THEN Throw(x, f, "refused")
       ELSE AfterHealth([Bumped(x, f) EXCEPT !.flows[f].fresh = TRUE], f, "waiting", "target")

Call(kind, t, mode) ==
    [kind |-> kind, turn |-> t, mode |-> mode, pc |-> "idle", req |-> "none",
     fresh |-> TRUE, same |-> kind \in {"list", "resume"}, latest |-> FALSE]

\* The promises that the calls wait for settle.
Settled(w, waiting, how) ==
    [w EXCEPT !.flows = [f \in Slots |-> IF f \in waiting THEN [w.flows[f] EXCEPT !.req = how]
                                          ELSE w.flows[f]]]

\* decide() ends: the grant is published and the health check begins.
Granted(w, f) ==
    Released([Replaced(w, {"list"}) EXCEPT
                 !.s.decision = None, !.s.listed = FALSE, !.s.monitor = TRUE], f)

\* The request_access tool, past the readiness of the helper: the grant the turn
\* has, one that full trust renews for the window chosen before, or a question.
RequestAccess(w, f) ==
    LET fl == w.flows[f]
        has == w.s.access # None /\ w.s.access.turn = fl.turn
               /\ (fl.mode = "observe" \/ w.s.access.mode = "control")
        renews == /\ w.s.access = None /\ fl.kind = "trust" /\ fl.mode = "control"
                  /\ w.s.target
    IN IF fl.turn \in w.s.denied \/ w.s.trusted # None \/ w.s.decision # None \/ has
       THEN Released(w, f)
       ELSE IF renews
       THEN AfterHealth([w EXCEPT !.s.trusted = f, !.consent[fl.turn] = {"control"}],
                        f, "queued", "validate")
       ELSE LET x == IF w.s.access = None THEN w ELSE Framed(Replaced(w, {"resume"}), FALSE)
            IN Released([x EXCEPT !.s.access = None,
                                  !.s.decision = [turn |-> fl.turn, mode |-> fl.mode]], f)

\* The observe and action tools, up to their first await.
UseAccess(w, f) ==
    IF \/ w.s.access = None \/ w.flows[f].turn # w.s.access.turn
       \/ w.s.control # None /\ w.s.control.state = "paused"
       \/ w.s.busy # None \/ w.flows[f].turn \in w.s.denied
    THEN Released(w, f)
    ELSE AfterHealth([w EXCEPT !.s.busy = f], f, "queued", "validate")

---------------------------------------------------------------------------
(* Promise reactions run before any other event                            *)

Ready(f) ==
    \/ flows[f].req \in {"kept", "broken"}
    \/ flows[f].pc \in {"queued", "waiting"} /\ s.health = None

Quiet == \A f \in Slots : ~Ready(f)

\* executeOnce() once the helper is known to be ready for input.
Admitted(f) ==
    /\ flows[f].pc = "readiness" /\ flows[f].req = "kept"
    /\ LET x == [Now EXCEPT !.flows[f].req = "none"]
       IN Set(IF ~flows[f].fresh THEN Released(x, f)
              ELSE IF flows[f].kind = "act" THEN UseAccess(x, f)
              ELSE RequestAccess(x, f))
    /\ UNCHANGED turn

\* The request for which the call has waited.
Request(fl) ==
    IF fl.pc = "waiting" THEN "target"
    ELSE IF fl.kind \in {"hello", "list"} THEN fl.kind
    ELSE IF fl.kind = "decide" THEN "select" ELSE "validate"

\* The health check is over; only startControl and a renewal go on without
\* looking at the generation first.
HealthOver(f) ==
    /\ flows[f].pc \in {"queued", "waiting"} /\ s.health = None
    /\ Set(IF flows[f].pc = "queued" /\ flows[f].kind # "trust" /\ ~Stands(flows[f])
           THEN Throw(Now, f, "cancelled")
           ELSE Ask(Now, f, Request(flows[f])))
    /\ UNCHANGED turn

\* The helper is up, or not, for a request that waited for it.
Linked(f) ==
    /\ flows[f].pc \notin {"readiness", "overlay"} /\ flows[f].req \in {"kept", "broken"}
    /\ Set(IF flows[f].req = "kept" THEN Ask(Now, f, flows[f].pc)
           ELSE Throw(Now, f, "cancelled"))
    /\ UNCHANGED turn

\* Mutant: control starts although the overlay did not come up.
BadPrepared(f) ==
    /\ flows[f].pc = "overlay" /\ flows[f].req \in {"kept", "broken"}
    /\ Set(IF ~flows[f].fresh \/ s.access = None THEN Throw(Now, f, "cancelled")
           ELSE Ask([Now EXCEPT !.s.early = "open"], f, "start"))
    /\ UNCHANGED turn

\* startControl() with the overlay on the screen, or not.
Prepared(f) ==
    /\ flows[f].pc = "overlay" /\ flows[f].req \in {"kept", "broken"}
    /\ LET x == Ask([Now EXCEPT !.s.early = "open"], f, "start")
       IN Set(IF flows[f].req = "broken" THEN Throw(Now, f, "refused")
              ELSE IF ~flows[f].fresh \/ s.access = None THEN Throw(Now, f, "cancelled")
              ELSE x)
    /\ UNCHANGED turn

Reaction(f) == Admitted(f) \/ HealthOver(f) \/ Linked(f) \/ Prepared(f)

---------------------------------------------------------------------------
(* Calls of the renderer: tools of the agent, and the user                 *)

Free(f) == Quiet /\ flows[f].kind = "none"

\* executeOnce() for control or an action: the helper says first whether it can
\* do that, once for all that ask meanwhile.
Check(w, f, g, call) ==
    LET x == [w EXCEPT !.flows[f] = [call EXCEPT !.pc = "readiness"]]
    IN IF w.s.flight # None THEN x
       ELSE AfterHealth([x EXCEPT !.flows[g] = Call("hello", call.turn, call.mode),
                                  !.s.flight = g], g, "queued", "hello")

\* A tool call that needs the helper ready to act.
Execute(f, g, kind, latest) ==
    /\ Free(f) /\ Free(g) /\ f # g
    /\ turn \in Turns \ s.denied /\ s.setting = "control"
    /\ kind \in {"request", "trust", "act"} /\ (latest => kind = "act" /\ s.frame)
    /\ Set(Check(Now, f, g, [Call(kind, turn, "control") EXCEPT !.latest = latest]))
    /\ UNCHANGED turn

\* A tool call for observation.
Observe(f, kind) ==
    /\ Free(f) /\ turn \in Turns \ s.denied /\ s.setting # "off"
    /\ kind \in {"request", "observe"}
    /\ LET x == [Now EXCEPT !.flows[f] = Call(kind, turn, "observe")]
       IN Set(IF kind = "request" THEN RequestAccess(x, f) ELSE UseAccess(x, f))
    /\ UNCHANGED turn

\* The dialog lists the windows.
List(f) ==
    /\ Free(f) /\ s.decision # None
    /\ Set(AfterHealth([Now EXCEPT !.flows[f] = Call("list", s.decision.turn, s.decision.mode)],
                       f, "queued", "list"))
    /\ UNCHANGED turn

\* The user chooses a window; to refuse is to revoke.
Decide(f) ==
    /\ Free(f) /\ s.decision # None /\ s.listed
    /\ \A g \in Slots : flows[g].kind = "decide" => ~flows[g].fresh
    /\ Set(AfterHealth([Now EXCEPT !.flows[f] = Call("decide", s.decision.turn, s.decision.mode),
                                   !.consent[s.decision.turn] = {s.decision.mode}],
                       f, "queued", "select"))
    /\ UNCHANGED turn

\* Mutant: the resumption under way is not noted.
BadResume(f) ==
    /\ Free(f)
    /\ s.control # None /\ s.control.state = "paused" /\ s.access # None
    /\ s.resuming = None /\ s.busy = None
    /\ Set(StartControl([Framed(Now, FALSE) EXCEPT
                            !.s.busy = f, !.s.control.resuming = TRUE,
                            !.flows[f] = [Call("resume", s.access.turn, "control")
                                            EXCEPT !.fresh = FALSE]], f))
    /\ UNCHANGED turn

\* The user has the agent go on.
Resume(f) ==
    /\ Free(f)
    /\ s.control # None /\ s.control.state = "paused" /\ s.access # None
    /\ s.resuming = None /\ s.busy = None
    /\ Set(StartControl([Framed(Now, FALSE) EXCEPT
                            !.s.busy = f, !.s.resuming = f, !.s.control.resuming = TRUE,
                            !.flows[f] = [Call("resume", s.access.turn, "control")
                                            EXCEPT !.fresh = FALSE]], f))
    /\ UNCHANGED turn

\* A display is added, removed or changed.
DisplayChanged ==
    /\ Quiet /\ overlay = "open"
    /\ s.control # None /\ s.control.state # "cancelled"
    /\ Set(Paused(Now)) /\ UNCHANGED turn

\* The run ends, is cancelled or fails; the next one may begin.
TurnEnds ==
    /\ Quiet /\ turn \in Turns
    /\ Set([Finished(Now, turn) EXCEPT !.consent[turn] = {}]) /\ turn' = turn + 1

\* The user stops or refuses, the window of the application goes away, the
\* screen is locked, the connection or the session changes, or a tool call is
\* cancelled.
Revoke == Quiet /\ Set(Revoked(Now)) /\ UNCHANGED turn

\* Nobody has answered for two minutes; once the window is selected no timer runs.
ConsentExpires ==
    /\ Quiet /\ s.decision # None
    /\ \A f \in Slots : ~(flows[f].kind = "decide" /\ flows[f].pc \in Starting)
    /\ Set(Revoked(Now)) /\ UNCHANGED turn

\* A call has taken twenty seconds.
Deadline(f) ==
    /\ Quiet
    /\ \/ flows[f].kind \in {"observe", "act"} /\ flows[f].pc # "readiness"
       \/ flows[f].kind = "resume" /\ flows[f].same
    /\ Set(Revoked(Now)) /\ UNCHANGED turn

\* The renderer or the helper has been silent.
HeartbeatLost == Quiet /\ s.beat /\ Set(Revoked(Now)) /\ UNCHANGED turn

\* A heartbeat of the service; one that finds no helper starts it.
Heartbeat == Quiet /\ s.beat /\ link.beat = "none" /\ Set(Signal(Now, "beat")) /\ UNCHANGED turn

\* Mutant: the overlay outlives the control.
BadAcknowledge ==
    /\ Quiet /\ s.control # None /\ s.control.state = "cancelled"
    /\ Set([Now EXCEPT !.s.control = None]) /\ UNCHANGED turn

\* acknowledgeControl(), once the backend knows of the cancellation.
Acknowledge ==
    /\ Quiet /\ s.control # None /\ s.control.state = "cancelled"
    /\ Set([CloseOverlay(Now) EXCEPT !.s.control = None]) /\ UNCHANGED turn

\* setEnabled, setControlEnabled.
Allow(setting) ==
    /\ Quiet /\ setting # s.setting
    /\ LET x == IF \/ setting = "off"
                  \/ /\ setting = "observe"
                     /\ s.control # None \/ (s.decision # None /\ s.decision.mode = "control")
               THEN Revoked(Now) ELSE Now
       IN Set([x EXCEPT !.s.setting = setting])
    /\ UNCHANGED turn

\* The interval that looks whether the window is still there.
Probe(f) ==
    /\ Free(f)
    /\ s.monitor /\ s.busy = None /\ s.decision = None /\ s.trusted = None
    /\ Checking(Now) = {} /\ (s.access # None \/ s.target) /\ s.health = None
    /\ Set(Ask([Now EXCEPT !.flows[f] = Call("probe", 1, "observe"), !.s.health = f], f, "validate"))
    /\ UNCHANGED turn

---------------------------------------------------------------------------
(* The helper                                                              *)

\* A start ends: the resources are verified and the child is spawned, or not;
\* one that a stop has overtaken always fails.
HelperStarts(ok) ==
    /\ Quiet /\ link.proc \in {"starting", "doomed"} /\ (ok => link.proc = "starting")
    /\ LET waiting == {f \in Slots : flows[f].req = "starting"}
           x == Settled(Now, waiting, IF ok THEN "kept" ELSE "broken")
           Told(g) == IF link[g] # "starting" THEN link[g] ELSE IF ok THEN "sent" ELSE "none"
           y == [x EXCEPT !.link = [proc |-> IF ok THEN "up" ELSE "none", beat |-> Told("beat"),
                                    pause |-> Told("pause"), stop |-> Told("stop")]]
       IN Set(IF ~ok /\ \E g \in Signals : link[g] = "starting" THEN Revoked(y) ELSE y)
    /\ UNCHANGED turn

\* The child exits, times out or breaks the protocol.
HelperDies ==
    /\ Quiet /\ link.proc = "up"
    /\ LET sent == {f \in Slots : UnderWay(flows[f])}
           x == Unlinked(Now)
           y == IF sent = {} THEN x ELSE Throw(x, CHOOSE f \in sent : TRUE, "stopped")
       IN Set(IF \E g \in Signals : link[g] = "sent" THEN Revoked(y) ELSE y)
    /\ UNCHANGED turn

\* A request to the helper ends with an error of its own.
HelperFails(f, code) ==
    /\ Quiet /\ UnderWay(flows[f]) /\ code \in {"refused", "native"}
    /\ (flows[f].pc = "start" => native \in {"begun", "cancelled"})
    /\ LET x == IF flows[f].pc = "start" THEN [Now EXCEPT !.native = "idle"] ELSE Now
       IN Set(Throw(x, f, code))
    /\ UNCHANGED turn

Answer(f, method) == Quiet /\ flows[f].pc = method /\ flows[f].req = "sent" /\ UNCHANGED turn

HelloAnswered(f) ==
    /\ Answer(f, "hello")
    /\ LET waiting == {g \in Slots : flows[g].pc = "readiness" /\ s.flight = f}
       IN Set(Released(Settled(Now, waiting, "kept"), f))

ListAnswered(f) ==
    /\ Answer(f, "list")
    /\ Set(IF Stands(flows[f]) THEN [Now EXCEPT !.flows[f].pc = "thumbs", !.flows[f].req = "none"]
           ELSE Throw(Now, f, "cancelled"))

ThumbsLoaded(f) ==
    /\ Quiet /\ flows[f].pc = "thumbs"
    /\ Set(IF Stands(flows[f]) THEN Released([Now EXCEPT !.s.listed = TRUE], f)
           ELSE Throw(Now, f, "cancelled"))
    /\ UNCHANGED turn

\* Mutant: decide() goes on whatever happened while the window was selected.
BadSelected(f) ==
    /\ Answer(f, "select")
    /\ LET y == [Now EXCEPT !.native = "idle", !.s.target = TRUE,
                            !.s.access = [turn |-> flows[f].turn, mode |-> flows[f].mode]]
       IN Set(IF flows[f].mode = "control" THEN StartControl(y, f) ELSE Granted(y, f))

\* decide(): the window is selected.
Selected(f) ==
    /\ Answer(f, "select")
    /\ LET x == [Now EXCEPT !.native = "idle"]
           y == [x EXCEPT !.s.access = [turn |-> flows[f].turn, mode |-> flows[f].mode],
                          !.s.target = TRUE]
       IN Set(IF ~flows[f].fresh THEN Throw(x, f, "cancelled")
              ELSE IF flows[f].mode = "control" THEN StartControl(y, f)
              ELSE Granted(y, f))

\* The window is found to be valid or not: for a renewal of full trust, for the
\* health check, for a tool.
Validated(f, valid) ==
    /\ Answer(f, "validate")
    /\ LET fl == flows[f]
           gone == Throw(Revoked(Now), f, "refused")
           acts == /\ s.access # None /\ s.access.mode = "control"
                   /\ s.control # None /\ s.control.state = "running"
                   /\ s.frame /\ fl.latest
       IN Set(IF fl.kind = "probe"
              THEN Released(IF ~valid /\ fl.fresh THEN Revoked(Now) ELSE Now, f)
              ELSE IF fl.kind = "trust"
              THEN IF ~fl.fresh THEN Throw(Now, f, "cancelled")
                   ELSE IF ~valid THEN gone
                   ELSE StartControl([Now EXCEPT !.s.access = [turn |-> fl.turn, mode |-> "control"]], f)
              ELSE IF ~valid THEN gone
              ELSE IF ~fl.fresh THEN Throw(Now, f, "cancelled")
              ELSE IF fl.kind = "observe" THEN Ask([Now EXCEPT !.flows[f].req = "none"], f, "observe")
              ELSE IF acts THEN Ask([Now EXCEPT !.flows[f].req = "none"], f, "act")
              ELSE Throw(Now, f, "refused"))

\* startControl(): the bounds of the window are known; overlay.prepare().
TargetAnswered(f) ==
    /\ Answer(f, "target")
    /\ Set([Now EXCEPT !.flows[f].pc = "overlay",
                       !.flows[f].req = IF overlay = "open" THEN "kept" ELSE "none",
                       !.overlay = IF @ = "closed" THEN "opening" ELSE @])

\* Mutant: an observation is published whatever happened meanwhile.
BadObserveAnswered(f) ==
    /\ Answer(f, "observe")
    /\ LET x == Framed(Now, TRUE)
       IN Set(IF flows[f].kind = "resume" /\ s.control # None
              THEN Released([x EXCEPT !.s.control.state = "running"], f)
              ELSE Released(x, f))

ObserveAnswered(f) ==
    /\ Answer(f, "observe")
    /\ LET x == Framed(Now, TRUE)
       IN Set(IF ~Stands(flows[f]) THEN Throw(Now, f, "cancelled")
              ELSE IF flows[f].kind = "resume"
              THEN Released([x EXCEPT !.s.control.state = "running"], f)
              ELSE Released(x, f))

\* Input reaches the window.
Injects(f) ==
    /\ Answer(f, "act") /\ native = "active"
    /\ flows' = [flows EXCEPT ![f].req = "answered"]
    /\ UNCHANGED <<s, link, native, overlay, consent>>

ActAnswered(f) ==
    /\ Quiet /\ flows[f].pc = "act" /\ flows[f].req = "answered"
    /\ Set(IF ~flows[f].fresh THEN Throw(Now, f, "refused") ELSE Released(Framed(Now, FALSE), f))
    /\ UNCHANGED turn

---------------------------------------------------------------------------
(* The overlay, and the input controller of the helper                     *)

\* The windows of the overlay are up; or they do not come up, or were closed
\* meanwhile.  Whoever asked for them shares the outcome.
OverlaySettles(ok) ==
    /\ Quiet /\ overlay \in {"opening", "doomed"} /\ (ok => overlay = "opening")
    /\ LET waiting == {f \in Slots : flows[f].pc = "overlay"}
       IN Set([Settled(Now, waiting, IF ok THEN "kept" ELSE "broken") EXCEPT
                  !.overlay = IF ok THEN "open" ELSE "closed"])
    /\ UNCHANGED turn

Native(value) == native' = value /\ UNCHANGED <<link, overlay, turn, consent>>

\* InputController::start on the worker thread, cut where it holds no lock: its
\* generation is taken, input is armed, and when the user has let go it is on.
NativeBegins(f) ==
    /\ Answer(f, "start") /\ native \in {"idle", "active"}
    /\ Native("begun") /\ UNCHANGED <<s, flows>>

NativeArms(f) ==
    /\ Answer(f, "start") /\ native = "begun"
    /\ Native("arming") /\ UNCHANGED <<s, flows>>

NativeActivates(f) ==
    /\ Answer(f, "start") /\ native = "arming"
    /\ Native("active")
    /\ flows' = [flows EXCEPT ![f].req = "answered"] /\ UNCHANGED s

\* A control that starts is published: at once, or with the first observation
\* when it resumes.
Controlled(w, f, running) ==
    LET fl == w.flows[f]
        control == [turn |-> w.s.access.turn, state |-> IF running THEN "running" ELSE "paused",
                    resuming |-> FALSE]
        x == [w EXCEPT !.s.early = "none", !.s.beat = TRUE,
                       !.s.control = IF fl.kind = "resume" /\ running THEN @ ELSE control]
        y == IF w.s.early = "paused" THEN [Bumped(x, f) EXCEPT !.flows[f].fresh = TRUE] ELSE x
    IN IF fl.kind = "decide" THEN Granted(y, f)
       ELSE IF fl.kind = "resume" /\ running
       THEN Ask([y EXCEPT !.flows[f].req = "none"], f, "observe")
       ELSE Released(y, f)

\* control.start is answered: input is on, or the user was in the way.
StartAnswered(f, active) ==
    /\ Quiet /\ flows[f].pc = "start"
    /\ \/ active /\ flows[f].req = "answered"
       \/ ~active /\ flows[f].req = "sent" /\ native \in {"arming", "paused"}
    /\ LET x == IF active THEN Now ELSE [Now EXCEPT !.native = "idle"]
       IN Set(IF ~flows[f].fresh \/ s.access = None
              THEN Throw(x, f, "cancelled")
              ELSE Controlled(x, f, active /\ s.early # "paused"))
    /\ UNCHANGED turn

\* InputController::pause: what it does, and what the service does when told.
\* A pause that comes before the answer to control.start is kept for it, and
\* one of a start that has been overtaken is not heard.
Heard ==
    /\ s.control # None
    /\ \/ s.control.state = "running"
       \/ /\ s.control.state = "paused" /\ s.resuming # None
          /\ flows[s.resuming].pc = "observe" /\ flows[s.resuming].fresh

NativePauses(w) ==
    LET x == [w EXCEPT !.native = IF @ = "active" THEN "idle" ELSE "paused"]
    IN IF w.native \notin {"arming", "active"} THEN w
       ELSE IF w.s.early = "open" THEN [x EXCEPT !.s.early = "paused"]
       ELSE IF Heard THEN Paused(x) ELSE x

\* The user touches mouse or keyboard, or another window comes to the front.
UserTakesOver ==
    /\ Quiet /\ native \in {"arming", "active"}
    /\ Set(NativePauses(Now)) /\ UNCHANGED turn

\* The reader thread of the helper gets a priority request.
SignalArrives(g) ==
    /\ Quiet /\ link[g] = "sent"
    /\ LET x == [Now EXCEPT !.link[g] = "none"]
           stopped == [idle |-> "idle", begun |-> "cancelled", arming |-> "paused",
                       active |-> "idle", cancelled |-> "cancelled", paused |-> "paused"]
       IN Set(CASE g = "pause" -> NativePauses(x)
                [] g = "stop" -> [x EXCEPT !.native = stopped[@]]
                [] OTHER -> x)
    /\ UNCHANGED turn

---------------------------------------------------------------------------
Tool == \E f \in Slots :
          \/ \E g \in Slots, kind \in {"request", "trust", "act"}, latest \in BOOLEAN :
                Execute(f, g, kind, latest)
          \/ \E kind \in {"request", "observe"} : Observe(f, kind)

User == \/ \E f \in Slots : List(f) \/ Decide(f) \/ Resume(f)
        \/ Revoke \/ \E setting \in {"off", "observe", "control"} : Allow(setting)
        \/ UserTakesOver \/ DisplayChanged

HelperStep(f) ==
    \/ \E code \in {"refused", "native"} : HelperFails(f, code)
    \/ HelloAnswered(f) \/ ListAnswered(f) \/ Selected(f)
    \/ \E valid \in BOOLEAN : Validated(f, valid)
    \/ TargetAnswered(f) \/ ObserveAnswered(f) \/ Injects(f) \/ ActAnswered(f)
    \/ NativeBegins(f) \/ NativeArms(f) \/ NativeActivates(f)
    \/ \E active \in BOOLEAN : StartAnswered(f, active)

Next ==
    \/ Tool \/ User \/ TurnEnds \/ Acknowledge
    \/ ConsentExpires \/ HeartbeatLost \/ Heartbeat \/ HelperDies
    \/ \E ok \in BOOLEAN : HelperStarts(ok) \/ OverlaySettles(ok)
    \/ \E g \in Signals : SignalArrives(g)
    \/ \E f \in Slots : \/ Reaction(f) \/ HelperStep(f) \/ ThumbsLoaded(f)
                        \/ Deadline(f) \/ Probe(f)

Spec == Init /\ [][Next]_vars

\* A turn does not end while full trust looks whether the window is still there,
\* or a resumption asks where it is; and the cancellation of a control is
\* acknowledged before the next one starts.
Orderly ==
    \A f \in Slots :
        /\ \/ flows[f].kind = "trust" /\ flows[f].pc \in {"queued", "validate"}
           \/ flows[f].kind = "resume" /\ flows[f].pc \in {"waiting", "target"}
           => turn' = turn
        /\ flows[f].pc \in Starting /\ s.control # None /\ turn' = turn => s'.control # None

OrderlySpec == Init /\ [][Next /\ Orderly]_vars

---------------------------------------------------------------------------
(* Properties                                                              *)

TypeOK ==
    /\ s \in [setting : {"off", "observe", "control"}, access : Grant \cup {None},
              control : Control \cup {None}, decision : Grant \cup {None},
              target : BOOLEAN, denied : SUBSET Turns, listed : BOOLEAN, frame : BOOLEAN,
              busy : Slots \cup {None}, resuming : Slots \cup {None},
              trusted : Slots \cup {None}, flight : Slots \cup {None},
              health : Slots \cup {None}, monitor : BOOLEAN, beat : BOOLEAN,
              early : {"none", "open", "paused"}]
    /\ flows \in [Slots -> Flow]
    /\ link \in [proc : {"none", "starting", "doomed", "up"}, beat : {"none", "starting", "sent"},
                 pause : {"none", "starting", "sent"}, stop : {"none", "starting", "sent"}]
    /\ native \in {"idle", "begun", "arming", "active", "cancelled", "paused"}
    /\ overlay \in {"closed", "opening", "doomed", "open"}
    /\ turn \in 1..MaxTurns + 1
    /\ consent \in [Turns -> SUBSET Modes]

\* Whatever answers late, access is held only with what the user granted to a
\* turn that has not ended, and has not withdrawn (decide, revoke, finish).
ConsentBacksAccess ==
    s.access # None => s.access.mode \in consent[s.access.turn]

\* What stands for a call in progress has that call: however the calls end, no
\* lock is left behind that would turn every later call away as busy.
LocksHaveOwners ==
    /\ s.busy # None => flows[s.busy].kind \in {"observe", "act", "resume"}
    /\ s.resuming # None => flows[s.resuming].kind = "resume" /\ s.busy = s.resuming
    /\ s.health # None => flows[s.health].kind = "probe"
    /\ s.trusted # None => flows[s.trusted].kind = "trust"
    /\ s.flight # None => flows[s.flight].kind = "hello"
    /\ s.early # "none" => \E f \in Slots : flows[f].pc = "start"

\* Whoever the agent controls the window for sees it: while control runs the
\* overlay is up.
ControlIsShown ==
    s.control # None /\ s.control.state = "running" => overlay = "open"

\* The overlay does not stay on the screen without a control to show or to start.
NoOrphanOverlay ==
    overlay = "open" => \/ s.control # None
                        \/ \E f \in Slots : flows[f].pc \in Starting

\* Input reaches the window only for a turn that has the control and an action
\* that nothing has overtaken; but for the time a pause or a stop takes from the
\* service to the helper.
InputHasAuthority ==
    [][\A f \in Slots : Injects(f) =>
         \/ /\ s.access = [turn |-> flows[f].turn, mode |-> "control"]
            /\ s.control # None /\ s.control.state = "running" /\ flows[f].fresh
         \/ \E g \in {"pause", "stop"} : link[g] # "none"]_vars

\* The window is seen only with access: no observation that answers late is
\* published once the access it was made with is gone, or before a new one is given.
FrameHasAccess == s.frame => s.access # None

=============================================================================

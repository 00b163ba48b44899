----------------------------- MODULE RemoteAccess -----------------------------
(***************************************************************************)
(* Remote access to the studio from paired devices of the local network:   *)
(* RemoteAccessService (remote-access.ts) with its configuration on disk   *)
(* (remote-access-store.ts), the gateways it creates and stops             *)
(* (remote-gateway.ts, http-server-lifetime.ts), and the end of the        *)
(* program (index.ts, shutdown.ts).                                        *)
(*                                                                         *)
(* The calls of the service interleave at their awaits.  A generation that *)
(* every stop increases tells a start that it has been overtaken; as it is *)
(* only compared for equality, a call keeps `fresh': whether the one it    *)
(* captured is still the present one.                                      *)
(***************************************************************************)
EXTENDS Naturals, Sequences, FiniteSets

CONSTANTS
    Calls,        \* calls of the service that can be in progress at once (bound)
    Quit,         \* the stop that belongs to the end of the program
    Gateways,     \* gateways that can exist at once (bound)
    Devices,      \* devices that are paired over time (bound)
    MaxRestarts,  \* crashes and new starts of the program (bound)
    Torn,         \* the file of the configuration after a crash in a write of it
    None

ASSUME CallsAssumption == IsFiniteSet(Calls) /\ Quit \notin Calls
ASSUME NoneAssumption == None \notin Calls \cup {Quit} \cup Gateways \cup Devices
ASSUME RestartsAssumption == MaxRestarts \in Nat

VARIABLES
    r,         \* the fields of RemoteAccessService
    gw,        \* the gateways
    calls,     \* the calls in progress, each at one of its awaits
    writes,    \* updateTail: the configurations to write, the first being written
    disk,      \* remote-access.json
    app,       \* where the program is between its start and its end
    issued,    \* history: the devices that were ever paired
    gone,      \* history: the devices whose revocation has returned
    restarts

vars == <<r, gw, calls, writes, disk, app, issued, gone, restarts>>

Slots == Calls \cup {Quit}
Ports == {1, 2}

Config == [enabled : BOOLEAN, ports : Ports, devices : SUBSET Devices]

\* What a user does, and what else there is.
UserKinds == {"enable", "disable", "ports", "begin", "revoke", "revokeAll"}
Kinds == UserKinds \cup {"none", "start", "pair", "quit"}

\* The awaits: the load of the configuration, a write of it, the certificates,
\* the listeners, the removal of the secrets, the end of a gateway.
Awaits == {"idle", "load", "saving", "certs", "listen", "bootstrap", "clearing",
           "stopping", "closing", "dropping", "undoing"}

\* A gateway listens, or tries to; was stopped before it did; no longer listens.
Phases == {"none", "listening", "up", "late", "down"}

Call == [kind : Kinds, pc : Awaits, fresh : BOOLEAN, gate : Gateways \cup {None},
         devices : SUBSET Devices]
Gateway == [phase : Phases, ports : Ports, boot : BOOLEAN, proxies : SUBSET Devices]

Idle == [kind |-> "none", pc |-> "idle", fresh |-> FALSE, gate |-> None, devices |-> {}]
NoGateway == [phase |-> "none", ports |-> 1, boot |-> FALSE, proxies |-> {}]

\* The program starts: index.ts awaits remoteAccessService.start() before it
\* creates the window.
Fresh(c) ==
    [r |-> [enabled |-> FALSE, ports |-> 1, devices |-> {}, gateway |-> None,
            pairing |-> FALSE, status |-> "disabled"],
     gw |-> [g \in Gateways |-> NoGateway],
     calls |-> [d \in Slots |-> IF d # c THEN Idle
                                ELSE [Idle EXCEPT !.kind = "start", !.pc = "load", !.fresh = TRUE]],
     writes |-> <<>>, app |-> "starting", gone |-> gone]

Init ==
    /\ gone = {} /\ issued = {} /\ restarts = 0
    /\ disk = [enabled |-> FALSE, ports |-> 1, devices |-> {}]
    /\ \E c \in Calls :
          LET w == Fresh(c)
          IN /\ r = w.r /\ gw = w.gw /\ calls = w.calls /\ writes = w.writes /\ app = w.app

Now == [r |-> r, gw |-> gw, calls |-> calls, writes |-> writes, app |-> app, gone |-> gone]

Set(w) ==
    /\ r' = w.r /\ gw' = w.gw /\ calls' = w.calls /\ writes' = w.writes
    /\ app' = w.app /\ gone' = w.gone

Running == app \notin {"exited", "dead"}

---------------------------------------------------------------------------
(* What the methods do between two awaits                                  *)

Done(w, c) == [w EXCEPT !.calls[c] = Idle]

\* Mutant: a stop does not overtake the starts in progress.
BadBumped(w) == w

\* ++lifecycleGeneration.
Bumped(w) == [w EXCEPT !.calls = [c \in Slots |-> [@[c] EXCEPT !.fresh = FALSE]]]

\* RemoteGateway.stop(), up to the promise it returns.
Ended(gate) ==
    [gate EXCEPT !.boot = FALSE, !.proxies = {},
                 !.phase = CASE @ = "listening" -> "late" [] @ = "up" -> "down" [] OTHER -> @]

Stopped(w, g) == IF g = None THEN w ELSE [w EXCEPT !.gw[g] = Ended(@)]

\* startGateway(), up to its first await.
StartGateway(w, c) ==
    [w EXCEPT !.r.status = "starting", !.calls[c].pc = "certs", !.calls[c].fresh = TRUE]

\* Mutant: after a stop the status is left as it was.
BadAfterStop(w, c) ==
    LET x == [w EXCEPT !.r.gateway = None]
    IN CASE w.calls[c].kind = "ports" -> StartGateway(x, c)
         [] w.calls[c].kind = "quit" /\ w.app = "quitting" ->
                [Done(x, c) EXCEPT !.app = "backend"]
         [] OTHER -> Done(x, c)

\* stop() has returned; what its caller does next.
AfterStop(w, c) ==
    LET x == IF ~w.calls[c].fresh THEN w
             ELSE [w EXCEPT !.r.gateway = None,
                            !.r.status = IF w.r.enabled THEN "error" ELSE "disabled"]
    IN CASE w.calls[c].kind = "ports" -> StartGateway(x, c)
         [] w.calls[c].kind = "quit" /\ w.app = "quitting" ->
                [Done(x, c) EXCEPT !.app = "backend"]
         [] OTHER -> Done(x, c)

\* stop(), up to its await.
Stop(w, c) ==
    LET x == [Bumped(w) EXCEPT !.r.pairing = FALSE, !.calls[c].fresh = TRUE]
    IN IF w.r.gateway = None THEN AfterStop(x, c)
       ELSE [Stopped(x, w.r.gateway) EXCEPT !.calls[c].pc = "stopping"]

Stored(w) == [enabled |-> w.r.enabled, ports |-> w.r.ports, devices |-> w.r.devices]

\* persistConfig(): the configuration of now is written after those before it.
Persist(w, c) ==
    [w EXCEPT !.writes = Append(@, [config |-> Stored(w), call |-> c]),
              !.calls[c].pc = "saving"]

\* Mutant: a revoked device keeps its connection.
BadClosed(w, devices) == w

\* closeDevice().
Closed(w, devices) ==
    IF w.r.gateway = None THEN w
    ELSE [w EXCEPT !.gw[w.r.gateway].proxies = @ \ devices]

\* What follows the write in each operation.
Saved(w, c) ==
    LET call == w.calls[c] IN
    CASE call.kind = "enable"  -> StartGateway(w, c)
      [] call.kind = "disable" -> Stop(w, c)
      [] call.kind = "ports"   -> IF w.r.gateway = None THEN Done(w, c) ELSE Stop(w, c)
      [] call.kind = "revoke"  ->
             [Done(Closed(w, call.devices), c) EXCEPT !.gone = @ \cup call.devices]
      [] call.kind = "revokeAll" ->
             [w EXCEPT !.calls[c].pc = "clearing", !.gone = @ \cup call.devices]
      [] OTHER -> Done(w, c)

---------------------------------------------------------------------------
(* Operations of the user                                                  *)

Begins(c, kind) ==
    /\ app = "up" /\ c \in Calls /\ calls[c].kind = "none" /\ kind \in UserKinds
    /\ UNCHANGED <<disk, issued, restarts>>

Called(c, kind, devices) ==
    [Now EXCEPT !.calls[c] = [Idle EXCEPT !.kind = kind, !.devices = devices]]

Enable(c) ==
    /\ Begins(c, "enable") /\ ~(r.enabled /\ r.gateway # None)
    /\ Set(Persist([Called(c, "enable", {}) EXCEPT !.r.enabled = TRUE], c))

Disable(c) ==
    /\ Begins(c, "disable") /\ ~(~r.enabled /\ r.gateway = None)
    /\ Set(Persist(Bumped([Called(c, "disable", {}) EXCEPT !.r.enabled = FALSE]), c))

UpdatePorts(c) ==
    /\ Begins(c, "ports")
    /\ \E p \in Ports \ {r.ports} :
          Set(Persist([Called(c, "ports", {}) EXCEPT !.r.ports = p], c))

RevokeDevice(c) ==
    /\ Begins(c, "revoke")
    /\ \E d \in r.devices :
          Set(Persist([Called(c, "revoke", {d}) EXCEPT !.r.devices = @ \ {d}], c))

RevokeAll(c) ==
    /\ Begins(c, "revokeAll")
    /\ Set(Persist([Closed(Called(c, "revokeAll", r.devices), r.devices)
                        EXCEPT !.r.devices = {}], c))

BeginPairing(c) ==
    /\ Begins(c, "begin") /\ r.gateway # None /\ r.status = "running"
    /\ LET w == [Called(c, "begin", {}) EXCEPT !.r.pairing = TRUE]
       IN Set(IF gw[r.gateway].phase # "up" THEN Done(w, c)
              ELSE [w EXCEPT !.calls[c].pc = "bootstrap", !.calls[c].gate = r.gateway,
                             !.gw[r.gateway].boot = FALSE])

---------------------------------------------------------------------------
(* The awaits end                                                          *)

At(c, pc) == Running /\ calls[c].pc = pc

\* load(), then start() itself.  A file that is not JSON makes it throw, and
\* index.ts never gets to the window.
Loaded(c) ==
    /\ At(c, "load")
    /\ IF disk = Torn THEN Set([Done(Now, c) EXCEPT !.app = "dead"])
       ELSE LET w == [Now EXCEPT !.r = [@ EXCEPT !.enabled = disk.enabled, !.ports = disk.ports,
                                                 !.devices = disk.devices]]
            IN Set(IF ~disk.enabled THEN [Done(w, c) EXCEPT !.app = "up"] ELSE StartGateway(w, c))
    /\ UNCHANGED <<disk, issued, restarts>>

\* Mutant: the writes are not kept in order.
BadWritten(ok) ==
    /\ Running /\ ok
    /\ \E i \in DOMAIN writes :
          LET c == writes[i].call
              w == [Now EXCEPT !.writes = SubSeq(@, 1, i - 1) \o SubSeq(@, i + 1, Len(@))]
          IN /\ Set(IF c = None THEN w ELSE Saved(w, c))
             /\ disk' = writes[i].config
    /\ UNCHANGED <<issued, restarts>>

\* The write at the head of the queue ends.
Written(ok) ==
    /\ Running /\ writes # <<>>
    /\ LET c == Head(writes).call
           w == [Now EXCEPT !.writes = Tail(@)]
       IN Set(IF c = None THEN w ELSE IF ok THEN Saved(w, c) ELSE Done(w, c))
    /\ disk' = IF ok THEN Head(writes).config ELSE disk
    /\ UNCHANGED <<issued, restarts>>

\* Whoever awaits start() goes on: index.ts creates the window.
StartEnds(w, c) ==
    IF w.calls[c].kind = "start" /\ w.app = "starting" THEN [Done(w, c) EXCEPT !.app = "up"]
    ELSE Done(w, c)

Fails(w, c) ==
    StartEnds(IF ~w.calls[c].fresh THEN w
              ELSE [w EXCEPT !.r.gateway = None, !.r.status = "error"], c)

\* ensureCertificates() has them, or fails: no safe storage, no private network.
Certified(c, g) ==
    /\ At(c, "certs") /\ gw[g].phase \in {"none", "down"} /\ g # r.gateway
    /\ \A d \in Slots : calls[d].gate # g
    /\ Set(IF ~calls[c].fresh THEN StartEnds(Now, c)
           ELSE [Now EXCEPT !.r.gateway = g, !.calls[c].pc = "listen", !.calls[c].gate = g,
                            !.gw[g] = [NoGateway EXCEPT !.phase = "listening", !.ports = r.ports]])
    /\ UNCHANGED <<disk, issued, restarts>>

CertificatesFail(c) ==
    /\ At(c, "certs") /\ Set(Fails(Now, c)) /\ UNCHANGED <<disk, issued, restarts>>

\* RemoteGateway.start() succeeds if nobody else listens on the port.  A
\* listener that is late is closed at once.
Listens(c) ==
    /\ At(c, "listen")
    /\ LET g == calls[c].gate
           w == [Now EXCEPT !.gw[g].phase = IF @ = "listening" THEN "up" ELSE "down"]
       IN /\ gw[g].phase = "listening" =>
                \A h \in Gateways \ {g} : ~(gw[h].phase = "up" /\ gw[h].ports = gw[g].ports)
          /\ Set(IF ~calls[c].fresh
                 THEN [Stopped(w, g) EXCEPT !.calls[c].pc = "dropping"]
                 ELSE StartEnds([w EXCEPT !.r.status = "running"], c))
    /\ UNCHANGED <<disk, issued, restarts>>

ListenFails(c) ==
    /\ At(c, "listen")
    /\ Set([Now EXCEPT !.gw[calls[c].gate].phase = "down", !.calls[c].pc = "undoing"])
    /\ UNCHANGED <<disk, issued, restarts>>

\* The connections of a stopped gateway have ended, or their time is up.
GatewayEnds(c) ==
    /\ Running
    /\ \/ calls[c].pc = "stopping" /\ Set(AfterStop(Now, c))
       \/ calls[c].pc = "dropping" /\ Set(StartEnds(Now, c))
       \/ calls[c].pc = "undoing" /\ Set(Fails(Now, c))
       \/ calls[c].pc = "closing" /\ Set(StartGateway([Now EXCEPT !.r.gateway = None], c))
    /\ UNCHANGED <<disk, issued, restarts>>

\* revokeAll(): the secrets are removed, or cannot be.
Cleared(c, ok) ==
    /\ At(c, "clearing")
    /\ Set(IF ~ok \/ ~r.enabled THEN Done(Now, c)
           ELSE IF r.gateway = None THEN StartGateway(Now, c)
           ELSE [Stopped(Now, r.gateway) EXCEPT !.calls[c].pc = "closing"])
    /\ UNCHANGED <<disk, issued, restarts>>

Bootstrapped(c, ok) ==
    /\ At(c, "bootstrap")
    /\ LET g == calls[c].gate
       IN Set(Done([Now EXCEPT !.gw[g].boot = ok /\ gw[g].phase = "up"], c))
    /\ UNCHANGED <<disk, issued, restarts>>

\* The code has expired.
BootstrapExpires(g) ==
    /\ Running /\ gw[g].boot
    /\ Set([Now EXCEPT !.gw[g].boot = FALSE]) /\ UNCHANGED <<disk, issued, restarts>>

---------------------------------------------------------------------------
(* Requests of the devices                                                 *)

Serves(g) == Running /\ gw[g].phase = "up"

\* consumePairing(): the code works once.
Pair(c, d, g) ==
    /\ Serves(g) /\ c \in Calls /\ calls[c].kind = "none" /\ r.pairing /\ d \notin issued
    /\ Set(Persist([Called(c, "pair", {}) EXCEPT !.r.pairing = FALSE,
                                                 !.r.devices = @ \cup {d}], c))
    /\ issued' = issued \cup {d} /\ UNCHANGED <<disk, restarts>>

\* handleUpgrade(): nothing happens between authenticate() and the proxy; now
\* and then markDeviceSeen() writes the configuration, at most once a minute for
\* one device (the model bounds such writes to one in the queue at a time).
Connect(d, g, seen) ==
    /\ Serves(g) /\ d \in r.devices /\ d \notin gw[g].proxies
    /\ LET w == [Now EXCEPT !.gw[g].proxies = @ \cup {d}]
       IN /\ seen => ~\E i \in DOMAIN writes : writes[i].call = None
          /\ Set(IF seen THEN [w EXCEPT !.writes = Append(@, [config |-> Stored(w), call |-> None])]
                 ELSE w)
    /\ UNCHANGED <<disk, issued, restarts>>

\* A device that has left is given up after a minute.
Disconnect(d, g) ==
    /\ Running /\ d \in gw[g].proxies
    /\ Set([Now EXCEPT !.gw[g].proxies = @ \ {d}]) /\ UNCHANGED <<disk, issued, restarts>>

---------------------------------------------------------------------------
(* The end of the program                                                  *)

\* before-quit, and the first step of runShutdownSteps.
QuitBegins ==
    /\ app = "up"
    /\ Set(Stop([Now EXCEPT !.app = "quitting", !.calls[Quit] = [Idle EXCEPT !.kind = "quit"]], Quit))
    /\ UNCHANGED <<disk, issued, restarts>>

\* The step has taken three seconds: forceStop().
StepTimesOut ==
    /\ app = "quitting"
    /\ Set([Stopped(Bumped(Now), r.gateway) EXCEPT !.app = "backend", !.r.pairing = FALSE,
                                                   !.r.gateway = None])
    /\ UNCHANGED <<disk, issued, restarts>>

\* The backend is released, or its nine seconds are over.
Exit ==
    /\ app = "backend" /\ app' = "exited"
    /\ UNCHANGED <<r, gw, calls, writes, disk, issued, gone, restarts>>

\* The program is started again; after a crash a write may have been left half
\* done.
Restart(torn) ==
    /\ restarts < MaxRestarts /\ restarts' = restarts + 1
    /\ torn => writes # <<>>
    /\ disk' = IF torn THEN Torn ELSE disk
    /\ \E c \in Calls : Set(Fresh(c))
    /\ UNCHANGED issued

---------------------------------------------------------------------------
UserStep(c) == Enable(c) \/ Disable(c) \/ UpdatePorts(c) \/ RevokeDevice(c) \/ RevokeAll(c)
               \/ BeginPairing(c)

Settles(c) ==
    \/ Loaded(c) \/ \E g \in Gateways : Certified(c, g)
    \/ CertificatesFail(c) \/ Listens(c) \/ ListenFails(c) \/ GatewayEnds(c)
    \/ \E ok \in BOOLEAN : Cleared(c, ok) \/ Bootstrapped(c, ok)

Remote ==
    \E g \in Gateways : \/ BootstrapExpires(g)
                        \/ \E d \in Devices : \/ \E c \in Calls : Pair(c, d, g)
                                              \/ \E seen \in BOOLEAN : Connect(d, g, seen)
                                              \/ Disconnect(d, g)

Next ==
    \/ \E c \in Slots : UserStep(c) \/ Settles(c)
    \/ \E ok \in BOOLEAN : Written(ok)
    \/ Remote \/ QuitBegins \/ StepTimesOut \/ Exit
    \/ \E torn \in BOOLEAN : Restart(torn)

Spec == Init /\ [][Next]_vars

---------------------------------------------------------------------------
(* The service as it is used when no two operations that start or stop a   *)
(* gateway overlap, other than a disable or the quit that overtakes a      *)
(* start, and when the write of a disable succeeds.  The README lists what *)
(* fails otherwise.                                                        *)

Busy(kinds) == \E c \in Slots : calls[c].kind \in kinds

WritesDisable ==
    /\ writes # <<>> /\ Head(writes).call # None
    /\ calls[Head(writes).call].kind = "disable"

OrderlyNext ==
    \/ \E c \in Slots :
          \/ Enable(c) /\ ~Busy({"enable", "disable", "ports", "revokeAll"})
          \/ Disable(c) /\ ~Busy({"disable", "ports", "revokeAll"})
          \/ UpdatePorts(c) /\ ~Busy({"enable", "disable", "ports", "revokeAll"})
          \/ RevokeAll(c) /\ ~Busy({"enable", "disable", "ports", "revokeAll"})
          \/ RevokeDevice(c) \/ BeginPairing(c) \/ Settles(c)
    \/ \E ok \in BOOLEAN :
          Written(ok) /\ (WritesDisable => ok)
    \/ Remote \/ StepTimesOut \/ Exit
    \/ QuitBegins /\ ~Busy({"ports", "revokeAll"})
    \/ \E torn \in BOOLEAN : Restart(torn)

OrderlySpec == Init /\ [][OrderlyNext]_vars

---------------------------------------------------------------------------
(* Properties                                                              *)

TypeOK ==
    /\ r \in [enabled : BOOLEAN, ports : Ports, devices : SUBSET Devices,
              gateway : Gateways \cup {None}, pairing : BOOLEAN,
              status : {"disabled", "starting", "running", "error"}]
    /\ gw \in [Gateways -> Gateway] /\ calls \in [Slots -> Call]
    /\ \A i \in DOMAIN writes : writes[i] \in [config : Config, call : Slots \cup {None}]
    /\ disk \in Config \cup {Torn}
    /\ app \in {"starting", "up", "quitting", "backend", "exited", "dead"}
    /\ issued \subseteq Devices /\ gone \subseteq issued /\ restarts \in 0..MaxRestarts

\* No call is in progress.
Quiet == app = "up" /\ \A c \in Slots : calls[c].kind = "none"

\* A gateway whose listeners are open, or will be, is the one of the service,
\* which the next stop() closes, or the business of a call that has not ended: a
\* start that is overtaken by a disable or by the quit at any of its awaits
\* leaves no gateway behind that nobody can stop.
NoOrphanGateway ==
    \A g \in Gateways : gw[g].phase \in {"listening", "up"} =>
        g = r.gateway \/ \E c \in Slots : calls[c].gate = g /\ calls[c].pc = "listen"

\* When no call is in progress, the page says "running" exactly when the gateway
\* of the service accepts connections: whatever started, failed, was overtaken,
\* moved to other ports or got new certificates before.
StatusIsTrue ==
    Quiet => (r.status = "running" <=> r.gateway # None /\ gw[r.gateway].phase = "up")

\* When no call is in progress and remote access is off in memory, no device is
\* connected and nothing listens, whatever was started, overtaken or failed
\* before.
DisabledIsClosed ==
    Quiet /\ ~r.enabled =>
        \A g \in Gateways : gw[g].phase \notin {"listening", "up"} /\ gw[g].proxies = {}

\* A device whose revocation has returned never comes back: not by a write that
\* was queued before it, not from the disk after a crash, not over a connection
\* that was made while the revocation was under way.
RevokedIsGone ==
    /\ gone \cap r.devices = {}
    /\ disk # Torn => gone \cap disk.devices = {}
    /\ \A g \in Gateways : gone \cap gw[g].proxies = {}

\* However the last write of the configuration ended, the program starts again
\* and shows its window.  It does not: writeJson() replaces no file atomically
\* and readJson() lets everything but a missing file through (RA_torn.cfg).
WindowOpens == app # "dead"

=============================================================================

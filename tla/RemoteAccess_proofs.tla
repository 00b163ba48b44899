-------------------------- MODULE RemoteAccess_proofs --------------------------
(***************************************************************************)
(* Proofs about RemoteAccess under OrderlySpec, for any calls, gateways and  *)
(* devices, and any number of restarts.                                      *)
(***************************************************************************)
EXTENDS RemoteAccess, SequenceTheorems, TLAPS

---------------------------------------------------------------------------
(* Types                                                                   *)

Fields == [enabled : BOOLEAN, ports : Ports, devices : SUBSET Devices,
           gateway : Gateways \cup {None}, pairing : BOOLEAN,
           status : {"disabled", "starting", "running", "error"}]

Write == [config : Config, call : Slots \cup {None}]

Apps == {"starting", "up", "quitting", "backend", "exited", "dead"}

World == [r : Fields, gw : [Gateways -> Gateway], calls : [Slots -> Call],
          writes : Seq(Write), app : Apps, gone : SUBSET Devices]

Typed ==
    /\ Now \in World
    /\ disk \in Config \cup {Torn} /\ issued \subseteq Devices
    /\ restarts \in 0..MaxRestarts

---------------------------------------------------------------------------
(* The inductive invariant                                                 *)

\* The awaits of startGateway().
Starting == {"certs", "listen", "dropping", "undoing"}

\* Where a call of each kind can be.
Staged(call) ==
    \/ call.kind = "none" /\ call.pc = "idle"
    \/ call.kind = "start" /\ call.pc \in {"load"} \cup Starting
    \/ call.kind = "enable" /\ call.pc \in {"saving"} \cup Starting
    \/ call.kind = "disable" /\ call.pc \in {"saving", "stopping"}
    \/ call.kind = "ports" /\ call.pc \in {"saving", "stopping"} \cup Starting
    \/ call.kind = "revokeAll" /\ call.pc \in {"saving", "clearing", "closing"} \cup Starting
    \/ call.kind = "begin" /\ call.pc = "bootstrap"
    \/ call.kind \in {"revoke", "pair"} /\ call.pc = "saving"
    \/ call.kind = "quit" /\ call.pc = "stopping"

Shapes ==
    \A c \in Slots :
        /\ Staged(calls[c])
        /\ calls[c].kind = "quit" => c = Quit
        /\ c = Quit => calls[c].kind \in {"none", "quit"}
        /\ calls[c].pc \in {"listen", "bootstrap"} => calls[c].gate \in Gateways

\* The calls that may start a gateway.
Starter(c) == calls[c].kind \in {"start", "enable", "ports", "revokeAll"}

\* Which calls are not in progress at the same time, and when.
Apart ==
    /\ \A c, d \in Slots : Starter(c) /\ Starter(d) => c = d
    /\ \A c, d \in Slots :
           /\ calls[c].kind = "disable"
           /\ calls[d].kind \in {"disable", "ports", "revokeAll"}
           => c = d
    /\ \A c \in Slots :
           /\ calls[c].kind = "start" => app = "starting"
           /\ calls[c].kind \in {"ports", "revokeAll"} => app = "up"
           /\ calls[c].kind = "quit" => app \notin {"starting", "up"}
           /\ app = "starting" => calls[c].kind \in {"none", "start"}

\* The calls that write have a write of their own in updateTail; a disable has
\* its behind that of the enable it follows.
Queue ==
    /\ \A i \in DOMAIN writes :
           writes[i].call # None => calls[writes[i].call].pc = "saving"
    /\ \A i, j \in DOMAIN writes :
           writes[i].call = writes[j].call => i = j \/ writes[i].call = None
    /\ \A c \in Slots :
           calls[c].pc = "saving" => \E i \in DOMAIN writes : writes[i].call = c
    /\ \A i, j \in DOMAIN writes :
           /\ writes[i].call # None /\ calls[writes[i].call].kind = "enable"
           /\ writes[j].call # None /\ calls[writes[j].call].kind = "disable"
           => i < j

\* The service's own gateway neither listens nor will.
Silent == r.gateway # None => gw[r.gateway].phase \notin {"listening", "up"}

\* What the calls that start or stop a gateway rely on.
Relies(c) ==
    /\ calls[c].pc = "listen" => gw[calls[c].gate].phase # "up"
    /\ calls[c].pc = "listen" /\ calls[c].fresh =>
           /\ gw[calls[c].gate].phase = "listening"
           /\ r.gateway = calls[c].gate
    /\ calls[c].pc = "certs" /\ calls[c].fresh => r.gateway = None
    /\ calls[c].pc = "load" => r.gateway = None
    /\ calls[c].kind = "enable" /\ calls[c].pc = "saving" => r.gateway = None
    /\ calls[c].pc = "undoing" /\ calls[c].fresh => Silent
    /\ calls[c].pc = "closing" => r.gateway # None /\ Silent
    /\ calls[c].pc = "stopping" /\ calls[c].fresh =>
           /\ r.gateway # None /\ Silent
           /\ \A d \in Slots \ {c} : ~calls[d].fresh

\* A gateway that accepts connections is the service's; one that will has a
\* call that awaits it.
Gates ==
    /\ \A c \in Slots : Relies(c)
    /\ \A g \in Gateways :
           /\ gw[g].phase = "up" => g = r.gateway /\ app # "starting"
           /\ gw[g].phase = "listening" =>
                  \E c \in Slots : calls[c].pc = "listen" /\ calls[c].gate = g
           /\ gw[g].proxies # {} => gw[g].phase = "up"

Alive == app \in {"starting", "up"}

\* The program does not start again.
Onward == (app' = "starting" => app = "starting") /\ (Alive' => Alive)

\* The status says what the gateway does, unless it is being stopped.
Truth ==
    /\ r.gateway # None /\ gw[r.gateway].phase = "up" => r.status = "running"
    /\ Alive /\ r.status = "running" =>
           /\ r.gateway # None
           /\ \/ gw[r.gateway].phase = "up"
              \/ \E c \in Slots : calls[c].pc \in {"stopping", "closing"}
    /\ \A c \in Slots : Alive /\ calls[c].pc = "stopping" => calls[c].fresh

\* The call c is about to give the service a gateway.
Coming(c) ==
    \/ calls[c].kind = "enable" /\ calls[c].pc = "saving"
    \/ calls[c].pc \in Starting /\ calls[c].fresh

\* With remote access off a disable is at work, if there is or will be a gateway.
ShutOff ==
    Alive /\ ~r.enabled =>
        /\ r.gateway # None => \E d \in Slots : calls[d].kind = "disable"
        /\ \A c \in Slots :
               /\ calls[c].pc # "closing"
               /\ Coming(c) =>
                      \E d \in Slots : calls[d].kind = "disable" /\ calls[d].pc = "saving"

\* The devices the call c revokes are known to nobody, but to the gateways.
Revoking(c) ==
    calls[c].kind \in {"revoke", "revokeAll"} =>
        /\ calls[c].devices \subseteq issued \ r.devices
        /\ calls[c].kind = "revokeAll" =>
               \A g \in Gateways : gw[g].proxies \cap calls[c].devices = {}
        /\ \A i, j \in DOMAIN writes : writes[i].call = c /\ i <= j =>
               writes[j].config.devices \cap calls[c].devices = {}

\* No configuration, in memory, on its way or on the disk, has a device that is
\* gone or was never issued.
Revocations ==
    /\ gone \subseteq issued /\ r.devices \subseteq issued \ gone
    /\ disk # Torn => disk.devices \subseteq issued \ gone
    /\ \A i \in DOMAIN writes : writes[i].config.devices \subseteq issued \ gone
    /\ \A g \in Gateways : gw[g].proxies \cap gone = {}
    /\ \A c \in Slots : Revoking(c)

IInv == Typed /\ Shapes /\ Apart /\ Queue /\ Gates /\ Truth /\ ShutOff /\ Revocations

LEMMA Distinct ==
    /\ None \notin Slots \cup Gateways /\ Quit \in Slots /\ Quit \notin Calls
    /\ Calls \subseteq Slots
BY CallsAssumption, NoneAssumption DEF Slots

\* The state after a step that is given by the world it makes.
LEMMA SetFacts ==
    ASSUME NEW w \in World, Set(w)
    PROVE  Now' = w /\ Now' \in World
BY DEF Set, World, Now

---------------------------------------------------------------------------
(* What the invariant says when no call is in progress                     *)

LEMMA Quietly ==
    ASSUME IInv, Quiet
    PROVE  /\ \A c \in Slots : calls[c].pc = "idle"
           /\ Alive
BY DEF IInv, Shapes, Staged, Quiet, Alive

LEMMA MeansNoOrphan == IInv => NoOrphanGateway
BY DEF IInv, Gates, NoOrphanGateway

LEMMA MeansTrueStatus == IInv => StatusIsTrue
BY Quietly DEF IInv, Truth, StatusIsTrue

LEMMA MeansClosed == IInv => DisabledIsClosed
<1> SUFFICES ASSUME IInv, Quiet, ~r.enabled, NEW g \in Gateways
             PROVE  gw[g].phase \notin {"listening", "up"} /\ gw[g].proxies = {}
    BY DEF DisabledIsClosed
<1>1. gw[g].phase # "listening"
    BY Quietly DEF IInv, Gates
<1>2. r.gateway = None
    BY Quietly DEF IInv, ShutOff, Quiet
<1>3. gw[g].phase # "up"
    BY <1>2, Distinct DEF IInv, Gates
<1> QED
    BY <1>1, <1>3 DEF IInv, Gates

LEMMA MeansGone == IInv => RevokedIsGone
BY DEF IInv, Revocations, RevokedIsGone

---------------------------------------------------------------------------
(* Steps of one call: the others stay, or are overtaken                    *)

Overtaken(call) == [call EXCEPT !.fresh = FALSE]

OnlyMoves(c) ==
    \A d \in Slots \ {c} : calls'[d] = calls[d] \/ calls'[d] = Overtaken(calls[d])

\* What overtaking leaves alone.
SameBut(d) ==
    /\ calls'[d].kind = calls[d].kind /\ calls'[d].pc = calls[d].pc
    /\ calls'[d].gate = calls[d].gate /\ calls'[d].devices = calls[d].devices
    /\ calls'[d].fresh => calls[d].fresh

LEMMA OthersStay ==
    ASSUME Typed, NEW c, OnlyMoves(c) PROVE \A d \in Slots \ {c} : SameBut(d)
<1> SUFFICES ASSUME NEW d \in Slots \ {c} PROVE SameBut(d)
    OBVIOUS
<1>1. calls[d] \in Call
    BY DEF Typed, World, Now
<1>2. CASE calls'[d] = calls[d]
    BY <1>2 DEF SameBut
<1>3. CASE calls'[d] = Overtaken(calls[d])
    BY <1>1, <1>3 DEF SameBut, Overtaken, Call
<1> QED
    BY <1>2, <1>3 DEF OnlyMoves

LEMMA ShapesKept ==
    ASSUME Typed, Shapes, NEW c \in Slots, OnlyMoves(c), Staged(calls'[c]),
           calls'[c].kind = "quit" <=> (c = Quit /\ calls'[c].kind # "none"),
           calls'[c].pc \in {"listen", "bootstrap"} => calls'[c].gate \in Gateways
    PROVE  Shapes'
<1>1. ASSUME NEW d \in Slots \ {c} PROVE Staged(calls'[d])
    BY <1>1, OthersStay DEF Shapes, Staged, SameBut
<1> QED
    BY <1>1, OthersStay DEF Shapes, SameBut

\* A call ends or goes on; the program does too.
LEMMA ApartKept ==
    ASSUME Typed, Apart, NEW c \in Slots, OnlyMoves(c),
           calls'[c].kind \in {calls[c].kind, "none"},
           app' = "starting" => app = "starting",
           \A d \in Slots :
               /\ calls'[d].kind = "start" => app' = "starting"
               /\ calls'[d].kind \in {"ports", "revokeAll"} => app' = "up"
               /\ calls'[d].kind = "quit" => app' \notin {"starting", "up"}
    PROVE  Apart'
<1>1. \A d \in Slots : calls'[d].kind \in {calls[d].kind, "none"}
    BY OthersStay DEF SameBut
<1> QED
    BY <1>1 DEF Apart, Starter

\* The program stays where it is.
LEMMA ApartSame ==
    ASSUME Typed, Apart, NEW c \in Slots, OnlyMoves(c),
           calls'[c].kind \in {calls[c].kind, "none"}, app' = app
    PROVE  Apart'
<1>1. \A d \in Slots : calls'[d].kind \in {calls[d].kind, "none"}
    BY OthersStay DEF SameBut
<1> QED
    BY <1>1 DEF Apart, Starter

\* No write is begun, and none ends.
LEMMA QueueKept ==
    ASSUME Typed, Queue, NEW c \in Slots, OnlyMoves(c), UNCHANGED writes,
           calls[c].pc # "saving", calls'[c].pc # "saving"
    PROVE  Queue'
<1>1. \A d \in Slots \ {c} : SameBut(d)
    BY OthersStay
<1>2. \A i \in DOMAIN writes : writes[i].call # None => writes[i].call \in Slots \ {c}
    <2>1. \A i \in DOMAIN writes : writes[i] \in Write
        BY DEF Typed, World, Now
    <2> QED
        BY <2>1 DEF Queue, Write
<1> QED
    BY <1>1, <1>2 DEF Queue, SameBut

\* The write at the head ends, and its call goes on.
LEMMA QueuePopped ==
    ASSUME Typed, Queue, NEW c \in Slots, OnlyMoves(c), writes # <<>>, writes' = Tail(writes),
           Head(writes).call = c, calls'[c].pc # "saving"
    PROVE  Queue'
<1> USE DEF Typed, World, Now
<1>1. \A d \in Slots \ {c} : SameBut(d)
    BY OthersStay
<1>2. writes \in Seq(Write) /\ writes[1].call = c /\ 1 \in DOMAIN writes
    OBVIOUS
<1>3. \A i \in DOMAIN writes' : i + 1 \in DOMAIN writes /\ writes'[i] = writes[i + 1] /\ i \in Nat
    BY <1>2
<1>4. \A i \in DOMAIN writes : i # 1 => i - 1 \in DOMAIN writes' /\ writes'[i - 1] = writes[i]
    BY <1>2
<1>5. \A i \in DOMAIN writes : i # 1 /\ writes[i].call # None => writes[i].call \in Slots \ {c}
    <2>1. \A i \in DOMAIN writes : writes[i] \in Write
        BY <1>2
    <2> QED
        BY <1>2, <2>1 DEF Queue, Write
<1>6. \A i \in DOMAIN writes' : i + 1 # 1
    BY <1>3
<1>7. \A i \in DOMAIN writes' :
        writes'[i].call # None => writes'[i].call \in Slots \ {c}
    BY <1>3, <1>5, <1>6
<1>8. \A i \in DOMAIN writes' : writes'[i].call # None => calls'[writes'[i].call].pc = "saving"
    BY <1>1, <1>3, <1>7 DEF Queue, SameBut
<1>9. \A i, j \in DOMAIN writes' :
        writes'[i].call = writes'[j].call => i = j \/ writes'[i].call = None
    BY <1>3 DEF Queue
<1>10. ASSUME NEW d \in Slots, calls'[d].pc = "saving"
       PROVE  \E i \in DOMAIN writes' : writes'[i].call = d
    <2>1. d # c /\ calls[d].pc = "saving"
        BY <1>1, <1>10 DEF SameBut
    <2>2. PICK i \in DOMAIN writes : writes[i].call = d
        BY <2>1 DEF Queue
    <2> QED
        BY <1>2, <1>4, <2>1, <2>2
<1>11. ASSUME NEW i \in DOMAIN writes', NEW j \in DOMAIN writes',
              writes'[i].call # None, calls'[writes'[i].call].kind = "enable",
              writes'[j].call # None, calls'[writes'[j].call].kind = "disable"
       PROVE  i < j
    <2>1. calls[writes[i + 1].call].kind = "enable" /\ calls[writes[j + 1].call].kind = "disable"
        BY <1>1, <1>3, <1>7, <1>11 DEF SameBut
    <2>2. i + 1 < j + 1
        BY <1>3, <1>11, <2>1 DEF Queue
    <2> QED
        BY <1>3, <2>2
<1> QED
    BY <1>8, <1>9, <1>10, <1>11 DEF Queue

\* A write of nobody ends.
LEMMA QueuePoppedNobody ==
    ASSUME Typed, Queue, UNCHANGED calls, writes # <<>>, writes' = Tail(writes),
           Head(writes).call = None
    PROVE  Queue'
<1> USE DEF Typed, World, Now
<1>1. writes \in Seq(Write) /\ writes[1].call = None /\ 1 \in DOMAIN writes
    OBVIOUS
<1>2. \A i \in DOMAIN writes' : i + 1 \in DOMAIN writes /\ writes'[i] = writes[i + 1] /\ i \in Nat
    BY <1>1
<1>3. \A i \in DOMAIN writes : i # 1 => i - 1 \in DOMAIN writes' /\ writes'[i - 1] = writes[i]
    BY <1>1
<1>4. ASSUME NEW i \in DOMAIN writes', NEW j \in DOMAIN writes',
             writes'[i].call # None, calls[writes'[i].call].kind = "enable",
             writes'[j].call # None, calls[writes'[j].call].kind = "disable"
      PROVE  i < j
    <2>1. i + 1 < j + 1
        BY <1>2, <1>4 DEF Queue
    <2> QED
        BY <1>2, <2>1
<1>5. ASSUME NEW d \in Slots, calls[d].pc = "saving"
      PROVE  \E i \in DOMAIN writes' : writes'[i].call = d
    <2>1. PICK i \in DOMAIN writes : writes[i].call = d
        BY <1>5 DEF Queue
    <2> QED
        BY <1>1, <1>3, <2>1, Distinct
<1>6. \A i \in DOMAIN writes' : writes'[i].call # None => calls[writes'[i].call].pc = "saving"
    BY <1>2 DEF Queue
<1>7. \A i, j \in DOMAIN writes' :
        writes'[i].call = writes'[j].call => i = j \/ writes'[i].call = None
    BY <1>2 DEF Queue
<1> QED
    BY <1>4, <1>5, <1>6, <1>7 DEF Queue

LEMMA AppendFacts ==
    ASSUME writes \in Seq(Write), NEW e \in Write, writes' = Append(writes, e)
    PROVE  /\ writes' \in Seq(Write)
           /\ \A i \in DOMAIN writes : i \in DOMAIN writes' /\ writes'[i] = writes[i]
           /\ Len(writes) + 1 \in DOMAIN writes' /\ writes'[Len(writes) + 1] = e
           /\ \A i \in DOMAIN writes' : i \in DOMAIN writes \/ i = Len(writes) + 1
           /\ \A i \in DOMAIN writes : i < Len(writes) + 1
OBVIOUS

\* A call begins to write.
LEMMA QueuePushed ==
    ASSUME Typed, Queue, NEW c \in Slots, OnlyMoves(c), NEW e \in Write, e.call = c,
           writes' = Append(writes, e), calls[c].pc # "saving", calls'[c].pc = "saving",
           calls'[c].kind = "enable" => \A d \in Slots : calls[d].kind # "disable"
    PROVE  Queue'
<1> USE DEF Typed, World, Now
<1> DEFINE n == Len(writes) + 1
<1>1. \A d \in Slots \ {c} : SameBut(d)
    BY OthersStay
<1>2. writes \in Seq(Write) /\ n \in Nat
    OBVIOUS
<1>3. /\ \A i \in DOMAIN writes : i \in DOMAIN writes' /\ writes'[i] = writes[i] /\ i < n
      /\ n \in DOMAIN writes' /\ writes'[n].call = c
      /\ \A i \in DOMAIN writes' : i \in DOMAIN writes \/ i = n
    BY AppendFacts
<1> HIDE DEF n
<1>4. \A i \in DOMAIN writes : writes[i].call # None => writes[i].call \in Slots \ {c}
    <2>1. \A i \in DOMAIN writes : writes[i] \in Write
        BY <1>2
    <2> QED
        BY <2>1 DEF Queue, Write
<1>5. \A i \in DOMAIN writes' : writes'[i].call # None => calls'[writes'[i].call].pc = "saving"
    BY <1>1, <1>3, <1>4 DEF Queue, SameBut
<1>6. \A i \in DOMAIN writes : writes[i].call # c
    BY <1>4, Distinct
<1>7. \A i, j \in DOMAIN writes' :
        writes'[i].call = writes'[j].call => i = j \/ writes'[i].call = None
    BY <1>3, <1>6 DEF Queue
<1>8. \A d \in Slots : calls'[d].pc = "saving" => \E i \in DOMAIN writes' : writes'[i].call = d
    BY <1>1, <1>3 DEF Queue, SameBut
<1>9. ASSUME NEW i \in DOMAIN writes', NEW j \in DOMAIN writes',
             writes'[i].call # None, calls'[writes'[i].call].kind = "enable",
             writes'[j].call # None, calls'[writes'[j].call].kind = "disable"
      PROVE  i < j
    <2>1. CASE i \in DOMAIN writes /\ j \in DOMAIN writes
        <3>1. /\ calls[writes[i].call].kind = "enable" /\ writes[i].call # None
              /\ calls[writes[j].call].kind = "disable" /\ writes[j].call # None
            BY <1>1, <1>3, <1>4, <1>9, <2>1 DEF SameBut
        <3> QED
            BY <2>1, <3>1 DEF Queue
    <2>2. CASE i \in DOMAIN writes /\ j = n
        BY <1>3, <2>2
    <2>3. CASE i = n
        <3>1. j # n /\ j \in DOMAIN writes
            BY <1>3, <1>9, <2>3
        <3>2. calls[writes[j].call].kind = "disable" /\ writes[j].call \in Slots
            BY <1>1, <1>3, <1>4, <1>9, <3>1 DEF SameBut
        <3> QED
            BY <1>3, <1>9, <2>3, <3>2
    <2> QED
        BY <1>3, <2>1, <2>2, <2>3
<1> QED
    BY <1>5, <1>7, <1>8, <1>9 DEF Queue

\* markDeviceSeen() writes for nobody.
LEMMA QueuePushedNobody ==
    ASSUME Typed, Queue, UNCHANGED calls, NEW e \in Write, e.call = None,
           writes' = Append(writes, e)
    PROVE  Queue'
<1> USE DEF Typed, World, Now
<1> DEFINE n == Len(writes) + 1
<1>1. writes \in Seq(Write)
    OBVIOUS
<1>2. /\ \A i \in DOMAIN writes : i \in DOMAIN writes' /\ writes'[i] = writes[i] /\ i < n
      /\ n \in DOMAIN writes' /\ writes'[n].call = None
      /\ \A i \in DOMAIN writes' : i \in DOMAIN writes \/ i = n
    BY AppendFacts
<1> HIDE DEF n
<1>3. \A i \in DOMAIN writes' : writes'[i].call # None => i \in DOMAIN writes
    BY <1>2
<1>4. \A i \in DOMAIN writes' : writes'[i].call # None => calls[writes'[i].call].pc = "saving"
    BY <1>2, <1>3 DEF Queue
<1>5. \A i, j \in DOMAIN writes' :
        writes'[i].call = writes'[j].call => i = j \/ writes'[i].call = None
    BY <1>2, <1>3 DEF Queue
<1>6. \A d \in Slots : calls[d].pc = "saving" => \E i \in DOMAIN writes' : writes'[i].call = d
    BY <1>2 DEF Queue
<1>7. \A i, j \in DOMAIN writes' :
        /\ writes'[i].call # None /\ calls[writes'[i].call].kind = "enable"
        /\ writes'[j].call # None /\ calls[writes'[j].call].kind = "disable"
        => i < j
    BY <1>2, <1>3 DEF Queue
<1> QED
    BY <1>4, <1>5, <1>6, <1>7 DEF Queue

---------------------------------------------------------------------------
(* What is known of the devices                                            *)

\* A call revokes what it did, or nothing.
RevokesAsBefore(d) ==
    \/ calls'[d].kind \notin {"revoke", "revokeAll"}
    \/ calls'[d].kind = calls[d].kind /\ calls'[d].devices = calls[d].devices

\* A gateway serves whom it did, and whom the service knows.
ServesKnown == \A g \in Gateways : gw'[g].proxies \subseteq gw[g].proxies \cup r'.devices

LEMMA RevocationsSame ==
    ASSUME Typed, Revocations, UNCHANGED <<gone, disk, issued, writes>>,
           r'.devices \subseteq r.devices, ServesKnown,
           \A d \in Slots : RevokesAsBefore(d)
    PROVE  Revocations'
<1>1. \A d \in Slots : Revoking(d)'
    BY DEF Revocations, Revoking, RevokesAsBefore, ServesKnown
<1> QED
    BY <1>1 DEF Revocations, ServesKnown

\* The head of updateTail has been written, or not; then the devices of the
\* call that wrote it may be gone.
LEMMA RevocationsPopped ==
    ASSUME Typed, Revocations, UNCHANGED issued, writes # <<>>, writes' = Tail(writes),
           disk' \in {disk, Head(writes).config},
           r'.devices = r.devices, ServesKnown,
           \A d \in Slots : RevokesAsBefore(d),
           NEW D, gone' = gone \cup D,
           \/ D = {}
           \/ /\ disk' = Head(writes).config /\ Head(writes).call \in Slots
              /\ calls[Head(writes).call].kind \in {"revoke", "revokeAll"}
              /\ D = calls[Head(writes).call].devices
              /\ \A g \in Gateways : gw'[g].proxies \cap D = {}
    PROVE  Revocations'
<1> USE DEF Typed, World, Now
<1>1. writes \in Seq(Write) /\ Head(writes) = writes[1] /\ 1 \in DOMAIN writes
    OBVIOUS
<1>2. \A i \in DOMAIN writes' :
        /\ i + 1 \in DOMAIN writes /\ writes'[i] = writes[i + 1] /\ i \in Nat /\ 1 <= i + 1
    BY <1>1
<1>3. /\ D \subseteq issued /\ D \cap r.devices = {}
      /\ D # {} /\ disk' # Torn => disk'.devices \cap D = {}
      /\ \A i \in DOMAIN writes' : writes'[i].config.devices \cap D = {}
      /\ \A g \in Gateways : gw'[g].proxies \cap D = {}
    <2>1. CASE D = {}
        BY <2>1
    <2>2. CASE D # {}
        <3>1. Revoking(writes[1].call) /\ writes[1].call \in Slots
              /\ calls[writes[1].call].kind \in {"revoke", "revokeAll"}
              /\ D = calls[writes[1].call].devices
            BY <1>1, <2>2 DEF Revocations
        <3>2. /\ D \subseteq issued \ r.devices
              /\ \A j \in DOMAIN writes : 1 <= j => writes[j].config.devices \cap D = {}
            BY <1>1, <3>1 DEF Revoking
        <3> QED
            BY <1>1, <1>2, <2>2, <3>2
    <2> QED
        BY <2>1, <2>2
<1>4. \A i \in DOMAIN writes' : writes'[i].config.devices \subseteq issued \ gone'
    BY <1>2, <1>3 DEF Revocations
<1>5. disk' # Torn => disk'.devices \subseteq issued \ gone'
    BY <1>1, <1>3 DEF Revocations
<1>6. ASSUME NEW d \in Slots PROVE Revoking(d)'
    <2> SUFFICES ASSUME calls'[d].kind \in {"revoke", "revokeAll"} PROVE Revoking(d)'
        BY DEF Revoking
    <2>1. /\ calls[d].kind = calls'[d].kind /\ calls'[d].devices = calls[d].devices
          /\ Revoking(d)
        BY DEF RevokesAsBefore, Revocations
    <2>2. \A i, j \in DOMAIN writes' : writes'[i].call = d /\ i <= j =>
               writes'[j].config.devices \cap calls[d].devices = {}
        <3> SUFFICES ASSUME NEW i \in DOMAIN writes', NEW j \in DOMAIN writes',
                            writes'[i].call = d, i <= j
                     PROVE  writes'[j].config.devices \cap calls[d].devices = {}
            OBVIOUS
        <3>1. i + 1 <= j + 1
            BY <1>2
        <3> QED
            BY <1>2, <2>1, <3>1 DEF Revoking
    <2> QED
        BY <2>1, <2>2 DEF Revoking, ServesKnown
<1> QED
    BY <1>3, <1>4, <1>5, <1>6 DEF Revocations, ServesKnown

\* The configuration of now is to be written, for the call c or for nobody.
LEMMA RevocationsPushed ==
    ASSUME Typed, Revocations, UNCHANGED <<gone, disk>>, issued \subseteq issued',
           NEW e \in Write, writes' = Append(writes, e), e.config.devices = r'.devices,
           r'.devices \subseteq r.devices \cup (issued' \ issued), ServesKnown,
           \A d \in Slots : RevokesAsBefore(d) \/ e.call = d,
           e.call # None =>
               /\ \A i \in DOMAIN writes : writes[i].call # e.call
               /\ calls'[e.call].kind \in {"revoke", "revokeAll"} =>
                      /\ calls'[e.call].devices \subseteq issued \ r'.devices
                      /\ calls'[e.call].kind = "revokeAll" =>
                             \A g \in Gateways : gw'[g].proxies \cap calls'[e.call].devices = {}
    PROVE  Revocations'
<1> USE DEF Typed, World, Now
<1> DEFINE n == Len(writes) + 1
<1>1. /\ \A i \in DOMAIN writes : i \in DOMAIN writes' /\ writes'[i] = writes[i] /\ i < n
      /\ n \in DOMAIN writes' /\ writes'[n] = e /\ n \in Nat
      /\ \A i \in DOMAIN writes' : i \in DOMAIN writes \/ i = n
      /\ DOMAIN writes \subseteq Nat
    BY AppendFacts
<1> HIDE DEF n
<1>2. \A i \in DOMAIN writes' : writes'[i].config.devices \subseteq issued' \ gone'
    BY <1>1 DEF Revocations
<1>3. ASSUME NEW d \in Slots PROVE Revoking(d)'
    <2> SUFFICES ASSUME calls'[d].kind \in {"revoke", "revokeAll"} PROVE Revoking(d)'
        BY DEF Revoking
    <2>1. CASE e.call = d
        <3>1. /\ calls'[d].devices \subseteq issued' \ r'.devices
              /\ calls'[d].kind = "revokeAll" =>
                      \A g \in Gateways : gw'[g].proxies \cap calls'[d].devices = {}
            BY <2>1, Distinct
        <3>2. \A i, j \in DOMAIN writes' : writes'[i].call = d /\ i <= j => j = n
            <4> SUFFICES ASSUME NEW i \in DOMAIN writes', NEW j \in DOMAIN writes',
                                writes'[i].call = d, i <= j, j # n
                         PROVE  FALSE
                OBVIOUS
            <4>1. i = n
                BY <1>1, <2>1, Distinct
            <4>2. j < n /\ j \in Nat
                BY <1>1
            <4> QED
                BY <1>1, <4>1, <4>2
        <3> QED
            BY <1>1, <3>1, <3>2 DEF Revoking
    <2>2. CASE e.call # d
        <3>1. /\ calls[d].kind = calls'[d].kind /\ calls'[d].devices = calls[d].devices
              /\ Revoking(d)
            BY <2>2 DEF RevokesAsBefore, Revocations
        <3>2. calls[d].devices \cap r'.devices = {}
            BY <3>1 DEF Revoking
        <3>3. \A i, j \in DOMAIN writes' : writes'[i].call = d /\ i <= j =>
                  writes'[j].config.devices \cap calls[d].devices = {}
            BY <1>1, <2>2, <3>1, <3>2 DEF Revoking
        <3> QED
            BY <3>1, <3>2, <3>3 DEF Revoking, ServesKnown
    <2> QED
        BY <2>1, <2>2
<1> QED
    BY <1>2, <1>3 DEF Revocations, ServesKnown

---------------------------------------------------------------------------
(* What the methods make of a world                                        *)

LEMMA IdleIsCall == Idle \in Call /\ NoGateway \in Gateway
BY DEF Idle, Call, Kinds, UserKinds, Awaits, NoGateway, Gateway, Phases, Ports

LEMMA DoneFacts ==
    ASSUME NEW w \in World, NEW c \in Slots, NEW y, y = Done(w, c)
    PROVE  /\ y \in World /\ y.r = w.r /\ y.gw = w.gw /\ y.writes = w.writes
           /\ y.app = w.app /\ y.gone = w.gone
           /\ y.calls[c] = Idle /\ \A d \in Slots \ {c} : y.calls[d] = w.calls[d]
<1> DEFINE k == [w.calls EXCEPT ![c] = Idle]
<1>1. k \in [Slots -> Call] /\ k[c] = Idle /\ \A d \in Slots \ {c} : k[d] = w.calls[d]
    BY IdleIsCall DEF World
<1>2. y = [w EXCEPT !.calls = k]
    BY DEF Done
<1> HIDE DEF k
<1> QED
    BY <1>1, <1>2 DEF World

LEMMA BumpedFacts ==
    ASSUME NEW w \in World
    PROVE  /\ Bumped(w) \in World
           /\ Bumped(w) = [w EXCEPT !.calls = [c \in Slots |-> Overtaken(w.calls[c])]]
<1>1. [c \in Slots |-> Overtaken(w.calls[c])] \in [Slots -> Call]
    BY DEF World, Overtaken, Call
<1> QED
    BY <1>1 DEF Bumped, World, Overtaken

LEMMA EndedFacts ==
    ASSUME NEW gate \in Gateway
    PROVE  /\ Ended(gate) \in Gateway /\ Ended(gate).proxies = {} /\ Ended(gate).boot = FALSE
           /\ Ended(gate).phase \notin {"listening", "up"}
           /\ gate.phase \notin {"listening", "up"} => Ended(gate).phase = gate.phase
BY DEF Ended, Gateway, Phases

\* Of the gateways g is told to stop.
Silenced(new, old, g) ==
    /\ new[g].phase \notin {"listening", "up"} /\ new[g].proxies = {}
    /\ \A h \in Gateways \ {g} : new[h] = old[h]

LEMMA StoppedFacts ==
    ASSUME NEW w \in World, NEW g \in Gateways, NEW y, y = Stopped(w, g)
    PROVE  /\ y \in World /\ y.r = w.r /\ y.calls = w.calls /\ y.writes = w.writes
           /\ y.app = w.app /\ y.gone = w.gone
           /\ Silenced(y.gw, w.gw, g)
<1> DEFINE e == Ended(w.gw[g])
           k == [w.gw EXCEPT ![g] = e]
<1>1. g # None
    BY Distinct
<1>2. w.gw[g] \in Gateway
    BY DEF World
<1>3. e \in Gateway /\ e.phase \notin {"listening", "up"} /\ e.proxies = {}
    BY <1>2, EndedFacts
<1>4. y = [w EXCEPT !.gw[g] = Ended(@)]
    BY <1>1, Zenon DEF Stopped
<1>5. y = [w EXCEPT !.gw = k]
    BY <1>4 DEF World
<1> HIDE DEF e
<1>6. k \in [Gateways -> Gateway] /\ k[g] = e /\ \A h \in Gateways \ {g} : k[h] = w.gw[h]
    BY <1>3 DEF World
<1> HIDE DEF k
<1>7. /\ y \in World /\ y.r = w.r /\ y.calls = w.calls /\ y.writes = w.writes
      /\ y.app = w.app /\ y.gone = w.gone /\ y.gw = k
    BY <1>5, <1>6 DEF World
<1> QED
    BY <1>3, <1>6, <1>7 DEF Silenced

\* What the service knows of its devices and of its own state is as before.
Keeps(s, t) == s.enabled = t.enabled /\ s.devices = t.devices

\* A call goes on, not overtaken, to its next await.
GoesOn(new, old, pc) ==
    /\ new.kind = old.kind /\ new.gate = old.gate /\ new.devices = old.devices
    /\ new.pc = pc /\ new.fresh = TRUE

LEMMA StartGatewayFacts ==
    ASSUME NEW w \in World, NEW c \in Slots, NEW y, y = StartGateway(w, c)
    PROVE  /\ y \in World /\ y.gw = w.gw /\ y.writes = w.writes /\ y.gone = w.gone
           /\ y.app = w.app
           /\ Keeps(y.r, w.r) /\ y.r.gateway = w.r.gateway /\ y.r.status = "starting"
           /\ GoesOn(y.calls[c], w.calls[c], "certs")
           /\ \A d \in Slots \ {c} : y.calls[d] = w.calls[d]
<1> DEFINE call == [w.calls[c] EXCEPT !.pc = "certs", !.fresh = TRUE]
           s == [w.r EXCEPT !.status = "starting"]
           k == [w.calls EXCEPT ![c] = call]
<1>1. call \in Call /\ GoesOn(call, w.calls[c], "certs")
    BY DEF World, Call, Awaits, GoesOn
<1>2. s \in Fields /\ Keeps(s, w.r) /\ s.gateway = w.r.gateway /\ s.status = "starting"
    BY DEF World, Fields, Keeps
<1>3. y = [w EXCEPT !.r = s, !.calls = k]
    BY DEF StartGateway, World
<1> HIDE DEF call
<1>4. k \in [Slots -> Call] /\ k[c] = call /\ \A d \in Slots \ {c} : k[d] = w.calls[d]
    BY <1>1 DEF World
<1> HIDE DEF s, k
<1>5. /\ y \in World /\ y.gw = w.gw /\ y.writes = w.writes /\ y.gone = w.gone
      /\ y.app = w.app /\ y.r = s /\ y.calls = k
    BY <1>2, <1>3, <1>4 DEF World
<1> QED
    BY <1>1, <1>2, <1>4, <1>5

\* What stop() leaves, when it is still the last one.
Left(w, c) ==
    IF ~w.calls[c].fresh THEN w
    ELSE [w EXCEPT !.r.gateway = None, !.r.status = IF w.r.enabled THEN "error" ELSE "disabled"]

LEMMA LeftFacts ==
    ASSUME NEW w \in World, NEW c \in Slots, NEW x, x = Left(w, c)
    PROVE  /\ x \in World /\ x.gw = w.gw /\ x.writes = w.writes /\ x.gone = w.gone
           /\ x.app = w.app /\ x.calls = w.calls
           /\ w.calls[c].fresh =>
                  Keeps(x.r, w.r) /\ x.r.gateway = None /\ x.r.status # "running"
           /\ ~w.calls[c].fresh => x.r = w.r
<1> DEFINE a == IF w.r.enabled THEN "error" ELSE "disabled"
           s == [w.r EXCEPT !.gateway = None, !.status = a]
<1>1. a \in {"error", "disabled"}
    OBVIOUS
<1>2. x = IF ~w.calls[c].fresh THEN w ELSE [w EXCEPT !.r = s]
    BY DEF Left, World, Fields
<1> HIDE DEF a
<1>3. s \in Fields /\ Keeps(s, w.r) /\ s.gateway = None /\ s.status # "running"
    BY <1>1 DEF World, Fields, Keeps
<1> HIDE DEF s
<1>4. CASE w.calls[c].fresh
    BY <1>2, <1>3, <1>4 DEF World
<1>5. CASE ~w.calls[c].fresh
    BY <1>2, <1>5
<1> QED
    BY <1>4, <1>5

LEMMA AfterStopEnds ==
    ASSUME NEW w \in World, NEW c \in Slots, w.calls[c].kind # "ports",
           NEW y, y = AfterStop(w, c)
    PROVE  /\ y \in World /\ y.gw = w.gw /\ y.writes = w.writes /\ y.gone = w.gone
           /\ y.app = IF w.calls[c].kind = "quit" /\ w.app = "quitting" THEN "backend"
                      ELSE w.app
           /\ w.calls[c].fresh =>
                  Keeps(y.r, w.r) /\ y.r.gateway = None /\ y.r.status # "running"
           /\ ~w.calls[c].fresh => y.r = w.r
           /\ y.calls[c] = Idle
           /\ \A d \in Slots \ {c} : y.calls[d] = w.calls[d]
<1> DEFINE x == Left(w, c)
<1>1. /\ x \in World /\ x.gw = w.gw /\ x.writes = w.writes /\ x.gone = w.gone
      /\ x.app = w.app /\ x.calls = w.calls
      /\ w.calls[c].fresh =>
             Keeps(x.r, w.r) /\ x.r.gateway = None /\ x.r.status # "running"
      /\ ~w.calls[c].fresh => x.r = w.r
    BY LeftFacts
<1>2. y = IF w.calls[c].kind = "quit" /\ w.app = "quitting"
          THEN [Done(x, c) EXCEPT !.app = "backend"] ELSE Done(x, c)
    BY DEF AfterStop, Left
<1> HIDE DEF x
<1> DEFINE z == Done(x, c)
<1>3. /\ z \in World /\ z.r = x.r /\ z.gw = x.gw /\ z.writes = x.writes
      /\ z.app = x.app /\ z.gone = x.gone
      /\ z.calls[c] = Idle /\ \A d \in Slots \ {c} : z.calls[d] = x.calls[d]
    BY <1>1, DoneFacts
<1> HIDE DEF z
<1>4. CASE w.calls[c].kind = "quit" /\ w.app = "quitting"
    <2>1. y = [z EXCEPT !.app = "backend"]
        BY <1>2, <1>4 DEF z
    <2>2. /\ y \in World /\ y.gw = z.gw /\ y.writes = z.writes /\ y.gone = z.gone
          /\ y.r = z.r /\ y.calls = z.calls /\ y.app = "backend"
        BY <1>3, <2>1 DEF World, Apps
    <2> QED
        BY <1>1, <1>3, <1>4, <2>2
<1>5. CASE ~(w.calls[c].kind = "quit" /\ w.app = "quitting")
    <2>1. y = z
        BY <1>2, <1>5 DEF z
    <2> QED
        BY <1>1, <1>3, <1>5, <2>1
<1> QED
    BY <1>4, <1>5

LEMMA AfterStopGoesOn ==
    ASSUME NEW w \in World, NEW c \in Slots, w.calls[c].kind = "ports", w.calls[c].fresh,
           NEW y, y = AfterStop(w, c)
    PROVE  /\ y \in World /\ y.gw = w.gw /\ y.writes = w.writes /\ y.gone = w.gone
           /\ y.app = w.app
           /\ Keeps(y.r, w.r) /\ y.r.gateway = None /\ y.r.status = "starting"
           /\ GoesOn(y.calls[c], w.calls[c], "certs")
           /\ \A d \in Slots \ {c} : y.calls[d] = w.calls[d]
<1> DEFINE x == Left(w, c)
<1>1. /\ x \in World /\ x.gw = w.gw /\ x.writes = w.writes /\ x.gone = w.gone
      /\ x.app = w.app /\ x.calls = w.calls
      /\ Keeps(x.r, w.r) /\ x.r.gateway = None
    BY LeftFacts
<1>2. y = StartGateway(x, c)
    BY DEF AfterStop, Left
<1> HIDE DEF x
<1> QED
    BY <1>1, <1>2, StartGatewayFacts DEF Keeps

\* The others are overtaken by the call c.
Overtakes(w, c) == [Bumped(w) EXCEPT !.r.pairing = FALSE, !.calls[c].fresh = TRUE]

LEMMA OvertakenFacts ==
    ASSUME NEW w \in World, NEW c \in Slots, NEW x, x = Overtakes(w, c)
    PROVE  /\ x \in World /\ x.gw = w.gw /\ x.writes = w.writes /\ x.gone = w.gone
           /\ x.app = w.app
           /\ Keeps(x.r, w.r) /\ x.r.gateway = w.r.gateway /\ x.r.status = w.r.status
           /\ GoesOn(x.calls[c], w.calls[c], w.calls[c].pc)
           /\ \A d \in Slots \ {c} : x.calls[d] = Overtaken(w.calls[d])
<1> DEFINE b == [d \in Slots |-> Overtaken(w.calls[d])]
           call == [b[c] EXCEPT !.fresh = TRUE]
           s == [w.r EXCEPT !.pairing = FALSE]
           k == [b EXCEPT ![c] = call]
<1>1. b \in [Slots -> Call] /\ call \in Call /\ GoesOn(call, w.calls[c], w.calls[c].pc)
    BY DEF World, Call, Overtaken, GoesOn
<1>2. /\ s \in Fields /\ Keeps(s, w.r)
      /\ s.gateway = w.r.gateway /\ s.status = w.r.status
    BY DEF World, Fields, Keeps
<1>3. Bumped(w) = [w EXCEPT !.calls = b]
    BY BumpedFacts
<1>4. \A d \in Slots \ {c} : b[d] = Overtaken(w.calls[d])
    OBVIOUS
<1> HIDE DEF b
<1>5. x = [w EXCEPT !.calls = k, !.r = s]
    BY <1>3 DEF World, Overtakes
<1> HIDE DEF call
<1>6. k \in [Slots -> Call] /\ k[c] = call /\ \A d \in Slots \ {c} : k[d] = b[d]
    BY <1>1
<1> HIDE DEF k, s
<1>7. /\ x \in World /\ x.gw = w.gw /\ x.writes = w.writes /\ x.gone = w.gone
      /\ x.app = w.app /\ x.r = s /\ x.calls = k
    BY <1>2, <1>5, <1>6 DEF World
<1> QED
    BY <1>1, <1>2, <1>4, <1>6, <1>7

LEMMA StopAtOnce ==
    ASSUME NEW w \in World, NEW c \in Slots, w.r.gateway = None, w.calls[c].kind # "ports",
           NEW y, y = Stop(w, c)
    PROVE  /\ y \in World /\ y.writes = w.writes /\ y.gone = w.gone /\ y.gw = w.gw
           /\ y.app = IF w.calls[c].kind = "quit" /\ w.app = "quitting" THEN "backend"
                      ELSE w.app
           /\ \A d \in Slots \ {c} : y.calls[d] = Overtaken(w.calls[d])
           /\ y.calls[c] = Idle
           /\ Keeps(y.r, w.r) /\ y.r.gateway = None /\ y.r.status # "running"
<1> DEFINE x == Overtakes(w, c)
<1>1. /\ x \in World /\ x.gw = w.gw /\ x.writes = w.writes /\ x.gone = w.gone
      /\ x.app = w.app /\ Keeps(x.r, w.r)
      /\ GoesOn(x.calls[c], w.calls[c], w.calls[c].pc)
      /\ \A d \in Slots \ {c} : x.calls[d] = Overtaken(w.calls[d])
    BY OvertakenFacts
<1>2. y = AfterStop(x, c)
    BY DEF Stop, Overtakes
<1> HIDE DEF x
<1>9. x.calls[c].kind = w.calls[c].kind /\ x.calls[c].fresh = TRUE
    BY <1>1 DEF GoesOn
<1>3. /\ y \in World /\ y.gw = x.gw /\ y.writes = x.writes /\ y.gone = x.gone
      /\ y.app = IF x.calls[c].kind = "quit" /\ x.app = "quitting" THEN "backend" ELSE x.app
      /\ Keeps(y.r, x.r) /\ y.r.gateway = None /\ y.r.status # "running"
      /\ y.calls[c] = Idle
      /\ \A d \in Slots \ {c} : y.calls[d] = x.calls[d]
    BY <1>1, <1>2, <1>9, AfterStopEnds
<1> QED
    BY <1>1, <1>3, <1>9 DEF Keeps

LEMMA StopBegins ==
    ASSUME NEW w \in World, NEW c \in Slots, w.r.gateway # None, NEW y, y = Stop(w, c)
    PROVE  /\ y \in World /\ y.writes = w.writes /\ y.gone = w.gone
           /\ y.app = w.app /\ Keeps(y.r, w.r)
           /\ y.r.gateway = w.r.gateway /\ y.r.status = w.r.status
           /\ Silenced(y.gw, w.gw, w.r.gateway)
           /\ \A d \in Slots \ {c} : y.calls[d] = Overtaken(w.calls[d])
           /\ GoesOn(y.calls[c], w.calls[c], "stopping")
<1> DEFINE x == Overtakes(w, c)
           g == w.r.gateway
           z == Stopped(x, g)
           call == [x.calls[c] EXCEPT !.pc = "stopping"]
           k == [x.calls EXCEPT ![c] = call]
<1>1. /\ x \in World /\ x.gw = w.gw /\ x.writes = w.writes /\ x.gone = w.gone
      /\ x.app = w.app
      /\ Keeps(x.r, w.r) /\ x.r.gateway = w.r.gateway /\ x.r.status = w.r.status
      /\ GoesOn(x.calls[c], w.calls[c], w.calls[c].pc)
      /\ \A d \in Slots \ {c} : x.calls[d] = Overtaken(w.calls[d])
    BY OvertakenFacts
<1>2. g \in Gateways
    BY DEF World, Fields
<1>3. y = [z EXCEPT !.calls[c].pc = "stopping"]
    BY DEF Stop, Overtakes
<1> HIDE DEF x
<1>4. z \in World
    BY <1>1, <1>2, StoppedFacts
<1>5. z.calls = x.calls /\ Silenced(z.gw, w.gw, g) /\ z.r = x.r
      /\ z.app = x.app /\ z.writes = x.writes /\ z.gone = x.gone
    BY <1>1, <1>2, StoppedFacts
<1> HIDE DEF z
<1>6. x.calls[c] \in Call
    BY <1>1 DEF World
<1>7. call \in Call /\ GoesOn(call, w.calls[c], "stopping")
    BY <1>1, <1>6 DEF Call, Awaits, GoesOn
<1>8. y = [z EXCEPT !.calls = k]
    BY <1>3, <1>5
<1> HIDE DEF call
<1>9. k \in [Slots -> Call] /\ k[c] = call /\ \A d \in Slots \ {c} : k[d] = x.calls[d]
    BY <1>1, <1>7 DEF World
<1> HIDE DEF k, g
<1>10. y \in World /\ y.calls = k /\ y.gw = z.gw /\ y.r = z.r /\ y.app = z.app
      /\ y.writes = z.writes /\ y.gone = z.gone
    BY <1>4, <1>8, <1>9 DEF World
<1> QED
    BY <1>1, <1>5, <1>7, <1>9, <1>10 DEF g

LEMMA StoredFacts == ASSUME NEW w \in World PROVE Stored(w) \in Config
BY DEF Stored, World, Fields, Config

LEMMA PersistFacts ==
    ASSUME NEW w \in World, NEW c \in Slots, NEW y, y = Persist(w, c)
    PROVE  /\ y \in World /\ y.r = w.r /\ y.gw = w.gw /\ y.app = w.app /\ y.gone = w.gone
           /\ y.calls[c] = [w.calls[c] EXCEPT !.pc = "saving"]
           /\ \A d \in Slots \ {c} : y.calls[d] = w.calls[d]
           /\ \E e \in Write : /\ e.call = c /\ e.config.devices = w.r.devices
                               /\ y.writes = Append(w.writes, e)
<1> DEFINE e == [config |-> Stored(w), call |-> c]
           call == [w.calls[c] EXCEPT !.pc = "saving"]
           k == [w.calls EXCEPT ![c] = call]
           q == Append(w.writes, e)
<1>1. e \in Write /\ call \in Call
    BY StoredFacts DEF Write, World, Call, Awaits
<1>2. e.call = c /\ e.config.devices = w.r.devices
    BY DEF Stored
<1>3. y = [w EXCEPT !.writes = q, !.calls = k]
    BY DEF Persist, World
<1> HIDE DEF e, call
<1>4. q \in Seq(Write)
    BY <1>1 DEF World
<1>5. k \in [Slots -> Call] /\ k[c] = call /\ \A d \in Slots \ {c} : k[d] = w.calls[d]
    BY <1>1 DEF World
<1> HIDE DEF k, q
<1>6. /\ y \in World /\ y.r = w.r /\ y.gw = w.gw /\ y.app = w.app /\ y.gone = w.gone
      /\ y.calls = k /\ y.writes = q
    BY <1>3, <1>4, <1>5 DEF World
<1> QED
    BY <1>1, <1>2, <1>5, <1>6 DEF call, q

LEMMA ClosedFacts ==
    ASSUME NEW w \in World, NEW D, NEW y, y = Closed(w, D)
    PROVE  /\ y \in World /\ y.r = w.r /\ y.app = w.app /\ y.gone = w.gone
           /\ y.writes = w.writes /\ y.calls = w.calls
           /\ \A g \in Gateways :
                  /\ y.gw[g].phase = w.gw[g].phase
                  /\ y.gw[g].proxies \subseteq w.gw[g].proxies
                  /\ g = w.r.gateway => y.gw[g].proxies \cap D = {}
<1>1. CASE w.r.gateway = None
    BY <1>1, Distinct DEF Closed
<1>2. CASE w.r.gateway # None
    <2> DEFINE h == w.r.gateway
               s == [w.gw[h] EXCEPT !.proxies = w.gw[h].proxies \ D]
    <2>1. h \in Gateways
        BY <1>2 DEF World, Fields
    <2>2. s \in Gateway /\ s.phase = w.gw[h].phase /\ s.proxies = w.gw[h].proxies \ D
        BY <2>1 DEF World, Gateway
    <2>3. y = [w EXCEPT !.gw = [w.gw EXCEPT ![h] = s]]
        BY <1>2 DEF Closed, World
    <2> HIDE DEF h, s
    <2>4. y \in World /\ y.gw = [w.gw EXCEPT ![h] = s]
        BY SMTT(30), <2>1, <2>2, <2>3 DEF World
    <2>5. \A g \in Gateways : y.gw[g] = IF g = h THEN s ELSE w.gw[g]
        BY <2>1, <2>4 DEF World
    <2> QED
        BY <2>2, <2>3, <2>4, <2>5 DEF World, h
<1> QED
    BY <1>1, <1>2

LEMMA StartEndsFacts ==
    ASSUME NEW w \in World, NEW c \in Slots, NEW y, y = StartEnds(w, c)
    PROVE  /\ y \in World /\ y.r = w.r /\ y.gw = w.gw /\ y.writes = w.writes /\ y.gone = w.gone
           /\ y.app = IF w.calls[c].kind = "start" /\ w.app = "starting" THEN "up" ELSE w.app
           /\ y.calls[c] = Idle /\ \A d \in Slots \ {c} : y.calls[d] = w.calls[d]
<1> DEFINE z == Done(w, c)
<1>1. /\ z \in World /\ z.r = w.r /\ z.gw = w.gw /\ z.writes = w.writes
      /\ z.app = w.app /\ z.gone = w.gone
      /\ z.calls[c] = Idle /\ \A d \in Slots \ {c} : z.calls[d] = w.calls[d]
    BY DoneFacts
<1>2. y = IF w.calls[c].kind = "start" /\ w.app = "starting" THEN [z EXCEPT !.app = "up"] ELSE z
    BY DEF StartEnds
<1> HIDE DEF z
<1> QED
    BY <1>1, <1>2 DEF World, Apps

LEMMA FailsFacts ==
    ASSUME NEW w \in World, NEW c \in Slots, NEW y, y = Fails(w, c)
    PROVE  /\ y \in World /\ y.gw = w.gw /\ y.writes = w.writes /\ y.gone = w.gone
           /\ y.app = IF w.calls[c].kind = "start" /\ w.app = "starting" THEN "up" ELSE w.app
           /\ y.calls[c] = Idle /\ \A d \in Slots \ {c} : y.calls[d] = w.calls[d]
           /\ w.calls[c].fresh =>
                  Keeps(y.r, w.r) /\ y.r.gateway = None /\ y.r.status # "running"
           /\ ~w.calls[c].fresh => y.r = w.r
<1> DEFINE s == [w.r EXCEPT !.gateway = None, !.status = "error"]
           x == IF ~w.calls[c].fresh THEN w ELSE [w EXCEPT !.r = s]
<1>1. s \in Fields /\ Keeps(s, w.r) /\ s.gateway = None /\ s.status # "running"
    BY DEF World, Fields, Keeps
<1>2. y = StartEnds(x, c)
    BY DEF Fails, World, Fields
<1> HIDE DEF s
<1>3. /\ x \in World /\ x.gw = w.gw /\ x.writes = w.writes /\ x.gone = w.gone
      /\ x.app = w.app /\ x.calls = w.calls
      /\ w.calls[c].fresh => x.r = s
      /\ ~w.calls[c].fresh => x.r = w.r
    BY <1>1 DEF World
<1> HIDE DEF x
<1>4. /\ y \in World /\ y.r = x.r /\ y.gw = x.gw /\ y.writes = x.writes /\ y.gone = x.gone
      /\ y.app = IF x.calls[c].kind = "start" /\ x.app = "starting" THEN "up" ELSE x.app
      /\ y.calls[c] = Idle /\ \A d \in Slots \ {c} : y.calls[d] = x.calls[d]
    BY <1>2, <1>3, StartEndsFacts
<1> QED
    BY <1>1, <1>3, <1>4

---------------------------------------------------------------------------
(* Steps that leave the gateways of the service and their phases alone     *)

SteadyGates ==
    /\ r'.gateway = r.gateway
    /\ \A g \in Gateways : /\ gw'[g].phase = gw[g].phase
                           /\ gw'[g].proxies # {} => gw[g].phase = "up"

LEMMA GatewayTyped == Typed => r.gateway \in Gateways \cup {None}
BY DEF Typed, World, Now, Fields

LEMMA SilentSteady == ASSUME Typed, SteadyGates PROVE Silent => Silent'
BY GatewayTyped DEF SteadyGates, Silent

\* What a call relies on is not disturbed by a call c that starts no gateway.
LEMMA ReliesSteady ==
    ASSUME Typed, Shapes, Gates, NEW c \in Slots, OnlyMoves(c), SteadyGates,
           calls'[c].fresh => r.gateway = None \/ calls[c].fresh
    PROVE  \A d \in Slots \ {c} : Relies(d)'
<1> SUFFICES ASSUME NEW d \in Slots \ {c} PROVE Relies(d)'
    OBVIOUS
<1>1. SameBut(d) /\ Relies(d) /\ \A e \in Slots \ {c} : SameBut(e)
    BY OthersStay DEF Gates
<1>2. Silent => Silent'
    BY SilentSteady
<1>3. calls'[d].pc = "listen" => gw'[calls'[d].gate].phase = gw[calls[d].gate].phase
    BY <1>1 DEF Shapes, SameBut, SteadyGates
<1>4. ASSUME calls'[d].pc = "stopping", calls'[d].fresh
      PROVE  \A e \in Slots \ {d} : ~calls'[e].fresh
    BY <1>1, <1>4 DEF Relies, SameBut
<1> QED
    BY <1>1, <1>2, <1>3, <1>4 DEF Relies, SameBut, SteadyGates

LEMMA GatesSteady ==
    ASSUME Typed, Shapes, Gates, NEW c \in Slots, OnlyMoves(c), SteadyGates, Relies(c)',
           Onward, calls[c].pc # "listen",
           calls'[c].fresh => r.gateway = None \/ calls[c].fresh
    PROVE  Gates'
<1>1. \A d \in Slots : Relies(d)'
    BY ReliesSteady
<1>2. ASSUME NEW g \in Gateways, gw'[g].phase = "listening"
      PROVE  \E d \in Slots : calls'[d].pc = "listen" /\ calls'[d].gate = g
    <2>1. PICK d \in Slots : calls[d].pc = "listen" /\ calls[d].gate = g
        BY <1>2 DEF Gates, SteadyGates
    <2>2. SameBut(d)
        BY <2>1, OthersStay
    <2> QED
        BY <2>1, <2>2 DEF SameBut
<1> QED
    BY <1>1, <1>2 DEF Gates, SteadyGates, Onward

LEMMA TruthSteady ==
    ASSUME Typed, Truth, NEW c \in Slots, OnlyMoves(c), SteadyGates, Onward,
           \/ r'.status = r.status
           \/ r'.status # "running" /\ (r.gateway = None \/ gw[r.gateway].phase # "up"),
           Alive' => calls[c].pc \notin {"stopping", "closing"},
           \A d \in Slots : Alive' /\ calls'[d].pc = "stopping" => calls'[d].fresh
    PROVE  Truth'
<1>1. \A d \in Slots \ {c} : calls'[d].pc = calls[d].pc
    BY OthersStay DEF SameBut
<1>2. r.gateway # None => gw'[r.gateway].phase = gw[r.gateway].phase
    BY GatewayTyped DEF SteadyGates
<1> QED
    BY <1>1, <1>2 DEF Truth, SteadyGates, Onward

LEMMA ShutOffSteady ==
    ASSUME Typed, ShutOff, NEW c \in Slots, OnlyMoves(c), r'.gateway \in {r.gateway, None},
           r'.enabled = r.enabled, Onward, calls[c].kind # "disable",
           calls'[c].pc # "closing" \/ r.enabled, Coming(c)' => Coming(c) \/ r.enabled
    PROVE  ShutOff'
<1>1. \A d \in Slots \ {c} : SameBut(d)
    BY OthersStay
<1>2. \A d \in Slots \ {c} : Coming(d)' => Coming(d)
    BY <1>1 DEF Coming, SameBut, Starting
<1> QED
    BY <1>1, <1>2 DEF ShutOff, SameBut, Onward

\* The call that moves is none of those that rely on something.
LEMMA ReliesOnNothing ==
    ASSUME NEW c \in Slots,
           calls'[c].pc \notin {"listen", "certs", "load", "undoing", "closing", "stopping"},
           ~(calls'[c].kind = "enable" /\ calls'[c].pc = "saving")
    PROVE  Relies(c)'
BY DEF Relies

LEMMA IdleFacts ==
    /\ Idle.kind = "none" /\ Idle.pc = "idle" /\ Idle.fresh = FALSE /\ Idle.gate = None
    /\ Idle.devices = {} /\ Staged(Idle)
BY DEF Idle, Staged

---------------------------------------------------------------------------
(* A call ends, and nothing else happens to the gateways: the call failed, *)
(* or what it did needed no gateway, or it was overtaken                    *)

Ends(c) ==
    /\ calls'[c] = Idle /\ \A d \in Slots \ {c} : calls'[d] = calls[d]
    /\ SteadyGates /\ r'.enabled = r.enabled

LEMMA ApartEnds ==
    ASSUME Typed, Apart, NEW c \in Slots, OnlyMoves(c), calls'[c].kind = "none",
           app' = IF calls[c].kind = "start" /\ app = "starting" THEN "up" ELSE app
    PROVE  Apart'
<1>1. CASE app' = app
    BY <1>1, ApartSame
<1>2. CASE app = "starting" /\ app' = "up" /\ calls[c].kind = "start"
    <2>1. \A d \in Slots \ {c} : calls[d].kind = "none"
        BY <1>2 DEF Apart, Starter
    <2>2. \A d \in Slots : calls'[d].kind = "none"
        BY <2>1, OthersStay DEF SameBut
    <2> QED
        BY <1>2, <2>2, ApartKept
<1> QED
    BY <1>1, <1>2

LEMMA EndsFacts ==
    ASSUME IInv, NEW c \in Slots, Ends(c), calls[c].pc # "listen", Onward,
           \/ r'.status = r.status
           \/ r'.status # "running" /\ (r.gateway = None \/ gw[r.gateway].phase # "up"),
           Alive => calls[c].kind # "disable" /\ calls[c].pc \notin {"stopping", "closing"}
    PROVE  Shapes' /\ Gates' /\ Truth' /\ ShutOff'
<1> USE DEF IInv
<1>1. OnlyMoves(c)
    BY DEF Ends, OnlyMoves
<1>2. calls'[c].kind = "none" /\ calls'[c].pc = "idle" /\ calls'[c].fresh = FALSE
    BY IdleFacts DEF Ends
<1>3. Shapes'
    <2>1. Staged(calls'[c])
        BY IdleFacts DEF Ends
    <2> QED
        BY <1>1, <1>2, <2>1, ShapesKept
<1>4. Gates'
    BY <1>1, <1>2, GatesSteady, ReliesOnNothing DEF Ends
<1>5. Truth'
    <2>1. \A d \in Slots : Alive' /\ calls'[d].pc = "stopping" => calls'[d].fresh
        BY <1>2 DEF Ends, Truth, Onward
    <2> QED
        BY <1>1, <2>1, TruthSteady DEF Ends, Onward
<1>6. ShutOff'
    <2>1. CASE Alive
        <3>1. ~Coming(c)' /\ calls'[c].pc # "closing"
            BY <1>2 DEF Coming, Starting
        <3>2. r'.gateway = r.gateway /\ r'.enabled = r.enabled
            BY DEF Ends, SteadyGates
        <3> QED
            BY <1>1, <2>1, <3>1, <3>2, ShutOffSteady
    <2>2. CASE ~Alive
        BY <2>2 DEF ShutOff, Onward
    <2> QED
        BY <2>1, <2>2
<1> QED
    BY <1>3, <1>4, <1>5, <1>6

\* What the other variables keep.
Rest == UNCHANGED <<writes, gone, disk, issued, restarts>> /\ r'.devices \subseteq r.devices

LEMMA EndsKeeps ==
    ASSUME IInv, NEW c \in Slots, Ends(c), Now' \in World, Rest, ServesKnown,
           Apart', Onward,
           calls[c].pc \notin {"listen", "saving"},
           \/ r'.status = r.status
           \/ r'.status # "running" /\ (r.gateway = None \/ gw[r.gateway].phase # "up"),
           Alive => calls[c].kind # "disable" /\ calls[c].pc \notin {"stopping", "closing"}
    PROVE  IInv'
<1>1. Shapes' /\ Gates' /\ Truth' /\ ShutOff'
    BY EndsFacts
<1>2. Queue'
    BY QueueKept, IdleFacts DEF IInv, Ends, OnlyMoves, Rest
<1>3. Revocations'
    BY RevocationsSame, IdleFacts DEF IInv, Ends, RevokesAsBefore, Rest
<1>4. Typed'
    BY DEF IInv, Typed, Rest
<1> QED
    BY <1>1, <1>2, <1>3, <1>4 DEF IInv

\* A step that makes the world y.
LEMMA StepFacts ==
    ASSUME NEW y \in World, Set(y)
    PROVE  /\ Now' \in World
           /\ r' = y.r /\ gw' = y.gw /\ calls' = y.calls /\ writes' = y.writes
           /\ app' = y.app /\ gone' = y.gone
BY SetFacts DEF Set

LEMMA NowFacts ==
    ASSUME Typed
    PROVE  /\ Now \in World
           /\ Now.r = r /\ Now.gw = gw /\ Now.calls = calls /\ Now.writes = writes
           /\ Now.app = app /\ Now.gone = gone
BY DEF Typed, Now

LEMMA NothingServed ==
    ASSUME UNCHANGED gw PROVE ServesKnown
BY DEF ServesKnown

\* The step StartEnds(Now, c).
LEMMA CallEnds ==
    ASSUME IInv, NEW c \in Slots, Set(StartEnds(Now, c)), UNCHANGED <<disk, issued, restarts>>,
           calls[c].pc \notin {"listen", "saving"},
           Alive => calls[c].kind # "disable" /\ calls[c].pc \notin {"stopping", "closing"}
    PROVE  IInv'
<1> DEFINE y == StartEnds(Now, c)
<1>1. /\ y \in World /\ y.r = r /\ y.gw = gw /\ y.writes = writes /\ y.gone = gone
      /\ y.app = IF calls[c].kind = "start" /\ app = "starting" THEN "up" ELSE app
      /\ y.calls[c] = Idle /\ \A d \in Slots \ {c} : y.calls[d] = calls[d]
    BY NowFacts, StartEndsFacts DEF IInv
<1>2. /\ Now' \in World /\ r' = y.r /\ gw' = y.gw /\ calls' = y.calls /\ writes' = y.writes
      /\ app' = y.app /\ gone' = y.gone
    BY <1>1, StepFacts
<1> HIDE DEF y
<1>3. SteadyGates
    BY <1>1, <1>2 DEF IInv, Gates, SteadyGates
<1>4. Ends(c) /\ Rest
    BY <1>1, <1>2, <1>3 DEF Ends, Rest
<1>5. OnlyMoves(c) /\ calls'[c].kind = "none"
    BY <1>1, <1>2, IdleFacts DEF OnlyMoves
<1>6. Apart'
    BY <1>1, <1>2, <1>5, ApartEnds DEF IInv
<1>7. Onward
    BY <1>1, <1>2 DEF Onward, Alive
<1> QED
    BY <1>1, <1>2, <1>4, <1>6, <1>7, EndsKeeps, NothingServed

\* The step Done(Now, c).
LEMMA CallIsDone ==
    ASSUME IInv, NEW c \in Slots, Set(Done(Now, c)), UNCHANGED <<disk, issued, restarts>>,
           calls[c].pc \notin {"listen", "saving", "stopping", "closing"},
           calls[c].kind \notin {"start", "disable"}
    PROVE  IInv'
<1> DEFINE y == Done(Now, c)
<1>1. /\ y \in World /\ y.r = r /\ y.gw = gw /\ y.writes = writes /\ y.gone = gone
      /\ y.app = app
      /\ y.calls[c] = Idle /\ \A d \in Slots \ {c} : y.calls[d] = calls[d]
    BY NowFacts, DoneFacts DEF IInv
<1>2. /\ Now' \in World /\ r' = y.r /\ gw' = y.gw /\ calls' = y.calls /\ writes' = y.writes
      /\ app' = y.app /\ gone' = y.gone
    BY <1>1, StepFacts
<1> HIDE DEF y
<1>3. SteadyGates
    BY <1>1, <1>2 DEF IInv, Gates, SteadyGates
<1>4. Ends(c) /\ Rest
    BY <1>1, <1>2, <1>3 DEF Ends, Rest
<1>5. OnlyMoves(c) /\ calls'[c].kind = "none"
    BY <1>1, <1>2, IdleFacts DEF OnlyMoves
<1>6. Apart'
    BY <1>1, <1>2, <1>5, ApartEnds DEF IInv
<1>7. Onward
    BY <1>1, <1>2 DEF Onward, Alive
<1> QED
    BY <1>1, <1>2, <1>4, <1>6, <1>7, EndsKeeps, NothingServed

---------------------------------------------------------------------------
(* The gateway that has been stopped is forgotten                          *)

LEMMA GatesDropped ==
    ASSUME Typed, Shapes, Gates, NEW c \in Slots, UNCHANGED gw, r'.gateway = None, Silent,
           \A d \in Slots \ {c} :
               /\ calls'[d] = calls[d] /\ calls[d].pc # "closing"
               /\ calls[d].pc = "stopping" => ~calls[d].fresh,
           Relies(c)', calls[c].pc # "listen"
    PROVE  Gates'
<1>1. ASSUME NEW d \in Slots \ {c} PROVE Relies(d)'
    <2>1. Relies(d)
        BY DEF Gates
    <2>2. ~(calls[d].pc = "listen" /\ calls[d].fresh)
        BY <2>1, Distinct DEF Relies, Silent, Shapes
    <2> QED
        BY <2>1, <2>2 DEF Relies, Silent
<1>2. \A g \in Gateways : gw[g].phase # "up"
    BY Distinct DEF Gates, Silent
<1>3. ASSUME NEW g \in Gateways, gw'[g].phase = "listening"
      PROVE  \E d \in Slots : calls'[d].pc = "listen" /\ calls'[d].gate = g
    BY <1>3 DEF Gates
<1> QED
    BY <1>1, <1>2, <1>3 DEF Gates

LEMMA TruthDropped ==
    ASSUME r'.gateway = None, r'.status # "running",
           \A d \in Slots : Alive' /\ calls'[d].pc = "stopping" => calls'[d].fresh
    PROVE  Truth'
BY DEF Truth

\* The call c ends, and with it the gateway.
Drops(c) ==
    /\ calls'[c] = Idle /\ \A d \in Slots \ {c} : calls'[d] = calls[d]
    /\ UNCHANGED gw /\ r'.gateway = None /\ r'.status # "running" /\ Keeps(r', r)

LEMMA DropsKeeps ==
    ASSUME IInv, NEW c \in Slots, Drops(c), Now' \in World, Rest, Apart', Onward,
           calls[c].pc \notin {"listen", "saving"}, Silent,
           \A d \in Slots \ {c} :
               /\ calls[d].pc # "closing" /\ ~Coming(d)
               /\ calls[d].pc = "stopping" => ~calls[d].fresh
    PROVE  IInv'
<1> USE DEF IInv
<1>1. OnlyMoves(c)
    BY DEF Drops, OnlyMoves
<1>2. /\ calls'[c].kind = "none" /\ calls'[c].pc = "idle" /\ calls'[c].fresh = FALSE
      /\ Staged(calls'[c])
    BY IdleFacts DEF Drops
<1>3. Shapes'
    BY <1>1, <1>2, ShapesKept
<1>4. Gates'
    BY <1>2, GatesDropped, ReliesOnNothing DEF Drops
<1>5. Truth'
    BY <1>2, TruthDropped DEF Drops, Truth, Onward
<1>6. ShutOff'
    <2>1. \A d \in Slots : ~Coming(d)' /\ calls'[d].pc # "closing"
        BY <1>2 DEF Drops, Coming, Starting
    <2> QED
        BY <2>1 DEF ShutOff, Drops
<1>7. Queue'
    BY <1>1, <1>2, QueueKept DEF Rest
<1>8. Revocations'
    BY <1>2, RevocationsSame DEF Drops, RevokesAsBefore, Rest, ServesKnown
<1>9. Typed'
    BY DEF Typed, Rest
<1> QED
    BY <1>3, <1>4, <1>5, <1>6, <1>7, <1>8, <1>9

\* Where only a starter can be.
LEMMA StartersOnly ==
    ASSUME Shapes, NEW c \in Slots
    PROVE  /\ Coming(c) => Starter(c)
           /\ calls[c].pc \in Starting \cup {"load", "clearing", "closing"} => Starter(c)
BY DEF Shapes, Staged, Coming, Starter, Starting

LEMMA AloneStarting ==
    ASSUME IInv, NEW c \in Slots, Starter(c)
    PROVE  \A d \in Slots \ {c} :
               /\ ~Starter(d) /\ ~Coming(d)
               /\ calls[d].pc \notin Starting \cup {"load", "clearing", "closing"}
               /\ calls[d].pc = "stopping" /\ calls[d].fresh => ~calls[c].fresh
<1> SUFFICES ASSUME NEW d \in Slots \ {c}
             PROVE  /\ ~Starter(d) /\ ~Coming(d)
                    /\ calls[d].pc \notin Starting \cup {"load", "clearing", "closing"}
                    /\ calls[d].pc = "stopping" /\ calls[d].fresh => ~calls[c].fresh
    OBVIOUS
<1>1. ~Starter(d)
    BY DEF IInv, Apart
<1>2. ~Coming(d) /\ calls[d].pc \notin Starting \cup {"load", "clearing", "closing"}
    BY <1>1, StartersOnly DEF IInv
<1> QED
    BY <1>1, <1>2 DEF IInv, Gates, Relies

---------------------------------------------------------------------------
(* A start fails, or is overtaken                                          *)

LEMMA CallFails ==
    ASSUME IInv, NEW c \in Slots, Set(Fails(Now, c)), UNCHANGED <<disk, issued, restarts>>,
           calls[c].pc \in {"certs", "undoing"}
    PROVE  IInv'
<1> DEFINE y == Fails(Now, c)
<1>1. /\ y \in World /\ y.gw = gw /\ y.writes = writes /\ y.gone = gone
      /\ y.app = IF calls[c].kind = "start" /\ app = "starting" THEN "up" ELSE app
      /\ y.calls[c] = Idle /\ \A d \in Slots \ {c} : y.calls[d] = calls[d]
      /\ calls[c].fresh => Keeps(y.r, r) /\ y.r.gateway = None /\ y.r.status # "running"
      /\ ~calls[c].fresh => y.r = r
    BY NowFacts, FailsFacts DEF IInv
<1>2. /\ Now' \in World /\ r' = y.r /\ gw' = y.gw /\ calls' = y.calls /\ writes' = y.writes
      /\ app' = y.app /\ gone' = y.gone
    BY <1>1, StepFacts
<1> HIDE DEF y
<1>3. Starter(c) /\ calls[c].kind # "disable"
    BY StartersOnly DEF IInv, Starting, Starter
<1>4. OnlyMoves(c) /\ calls'[c].kind = "none"
    BY <1>1, <1>2, IdleFacts DEF OnlyMoves
<1>5. Apart' /\ Onward
    BY <1>1, <1>2, <1>4, ApartEnds DEF IInv, Onward, Alive
<1>6. CASE calls[c].fresh
    <2>1. Drops(c) /\ Rest
        BY <1>1, <1>2, <1>6 DEF Drops, Rest, Keeps
    <2>2. Silent
        BY <1>6 DEF IInv, Gates, Relies, Silent
    <2>3. \A d \in Slots \ {c} :
              /\ calls[d].pc # "closing" /\ ~Coming(d)
              /\ calls[d].pc = "stopping" => ~calls[d].fresh
        BY <1>3, <1>6, AloneStarting
    <2> QED
        BY <1>2, <1>5, <2>1, <2>2, <2>3, DropsKeeps
<1>7. CASE ~calls[c].fresh
    <2>1. SteadyGates
        BY <1>1, <1>2, <1>7 DEF IInv, Gates, SteadyGates
    <2>2. Ends(c) /\ Rest /\ r'.status = r.status
        BY <1>1, <1>2, <1>7, <2>1 DEF Ends, Rest
    <2> QED
        BY <1>1, <1>2, <1>3, <1>5, <2>2, EndsKeeps, NothingServed
<1> QED
    BY <1>6, <1>7

LEMMA CertificatesFailStep == ASSUME IInv, NEW c \in Slots, CertificatesFail(c) PROVE IInv'
BY CallFails DEF CertificatesFail, At

---------------------------------------------------------------------------
(* startGateway() begins, and there is no gateway, or no longer             *)

Starts(c) ==
    /\ GoesOn(calls'[c], calls[c], "certs") /\ \A d \in Slots \ {c} : calls'[d] = calls[d]
    /\ UNCHANGED gw /\ r'.gateway = None /\ r'.status = "starting"

LEMMA StartsFacts ==
    ASSUME IInv, NEW c \in Slots, Starts(c), Starter(c), Silent, Onward,
           calls[c].pc # "listen",
           \A d \in Slots \ {c} : calls[d].pc = "stopping" => ~calls[d].fresh,
           r'.enabled \/ (r.enabled = r'.enabled /\ Coming(c))
    PROVE  Shapes' /\ Gates' /\ Truth' /\ ShutOff'
<1> USE DEF IInv
<1>1. /\ OnlyMoves(c) /\ calls'[c].kind = calls[c].kind /\ calls'[c].pc = "certs"
      /\ calls'[c].fresh
    BY DEF Starts, OnlyMoves, GoesOn
<1>2. Shapes'
    <2>1. Staged(calls'[c]) /\ calls'[c].kind # "quit" /\ c # Quit
        BY <1>1 DEF Staged, Starter, Starting, Shapes
    <2> QED
        BY <1>1, <2>1, ShapesKept
<1>3. Gates'
    <2>1. Relies(c)'
        BY <1>1 DEF Starts, Relies
    <2>2. \A d \in Slots \ {c} : calls[d].pc # "closing"
        BY AloneStarting
    <2> QED
        BY <2>1, <2>2, GatesDropped DEF Starts
<1>4. Truth'
    BY <1>1, TruthDropped DEF Starts, Truth, Onward
<1>5. ShutOff'
    <2> SUFFICES ASSUME Alive', ~r'.enabled PROVE ShutOff'
        BY DEF ShutOff
    <2>1. Alive /\ ~r.enabled /\ Coming(c)
        BY DEF Onward
    <2>2. PICK d \in Slots : calls[d].kind = "disable" /\ calls[d].pc = "saving"
        BY <2>1 DEF ShutOff
    <2>3. calls'[d].kind = "disable" /\ calls'[d].pc = "saving"
        BY <2>2 DEF Starts, Starter
    <2>4. \A e \in Slots : calls'[e].pc # "closing"
        BY <1>1, <2>1 DEF ShutOff, Starts
    <2> QED
        BY <2>3, <2>4 DEF ShutOff, Starts
<1> QED
    BY <1>2, <1>3, <1>4, <1>5

LEMMA StartsKeeps ==
    ASSUME IInv, NEW c \in Slots, Starts(c), Starter(c), Silent, UNCHANGED app, Rest,
           Now' \in World, r'.enabled, calls[c].pc \notin {"listen", "saving"},
           \A d \in Slots \ {c} : calls[d].pc = "stopping" => ~calls[d].fresh
    PROVE  IInv'
<1>1. OnlyMoves(c) /\ calls'[c].kind = calls[c].kind /\ calls'[c].pc = "certs"
    BY DEF Starts, OnlyMoves, GoesOn
<1>2. Shapes' /\ Gates' /\ Truth' /\ ShutOff'
    BY StartsFacts DEF Onward, Alive
<1>3. Apart'
    BY <1>1, ApartSame DEF IInv
<1>4. Queue'
    BY <1>1, QueueKept DEF IInv, Rest
<1>5. Revocations'
    BY RevocationsSame DEF IInv, Starts, GoesOn, RevokesAsBefore, Rest, ServesKnown
<1>6. Typed'
    BY DEF IInv, Typed, Rest
<1> QED
    BY <1>2, <1>3, <1>4, <1>5, <1>6 DEF IInv

\* While the ports change or the certificates are renewed nobody else stops
\* the gateway, and remote access is on if there is one.
LEMMA AloneChanging ==
    ASSUME IInv, NEW c \in Slots, calls[c].kind \in {"ports", "revokeAll"}
    PROVE  /\ Starter(c) /\ Alive
           /\ \A d \in Slots : calls[d].kind # "disable" /\ calls[d].kind # "quit"
           /\ \A d \in Slots \ {c} : calls[d].pc # "stopping"
           /\ r.gateway # None => r.enabled
<1>1. Starter(c) /\ Alive
    BY DEF Starter, IInv, Apart, Alive
<1>2. \A d \in Slots : calls[d].kind # "disable" /\ calls[d].kind # "quit"
    BY DEF IInv, Apart
<1>3. \A d \in Slots \ {c} : calls[d].pc # "stopping"
    BY <1>2, <1>1, AloneStarting DEF IInv, Shapes, Staged, Starter
<1>4. r.gateway # None => r.enabled
    BY <1>1, <1>2 DEF IInv, ShutOff
<1> QED
    BY <1>1, <1>2, <1>3, <1>4

---------------------------------------------------------------------------
(* A gateway has ended                                                     *)

LEMMA DroppingStep ==
    ASSUME IInv, NEW c \in Slots, GatewayEnds(c), calls[c].pc = "dropping"
    PROVE  IInv'
<1>1. Set(StartEnds(Now, c)) /\ UNCHANGED <<disk, issued, restarts>>
    BY DEF GatewayEnds
<1>2. calls[c].kind # "disable"
    BY DEF IInv, Shapes, Staged
<1> QED
    BY <1>1, <1>2, CallEnds

LEMMA UndoingStep ==
    ASSUME IInv, NEW c \in Slots, GatewayEnds(c), calls[c].pc = "undoing"
    PROVE  IInv'
BY CallFails DEF GatewayEnds

\* The gateway is started again on other ports.
LEMMA PortsStep ==
    ASSUME IInv, NEW c \in Slots, GatewayEnds(c), calls[c].pc = "stopping",
           calls[c].kind = "ports"
    PROVE  IInv'
<1> DEFINE y == AfterStop(Now, c)
<1>1. /\ Starter(c) /\ Alive
      /\ \A d \in Slots \ {c} : calls[d].pc # "stopping"
      /\ r.gateway # None => r.enabled
    BY AloneChanging
<1>2. calls[c].fresh /\ r.gateway # None /\ Silent
    BY <1>1 DEF IInv, Truth, Gates, Relies
<1>3. Set(y) /\ UNCHANGED <<disk, issued, restarts>>
    BY DEF GatewayEnds
<1>4. /\ y \in World /\ y.gw = gw /\ y.writes = writes /\ y.gone = gone /\ y.app = app
      /\ Keeps(y.r, r) /\ y.r.gateway = None /\ y.r.status = "starting"
      /\ GoesOn(y.calls[c], calls[c], "certs")
      /\ \A d \in Slots \ {c} : y.calls[d] = calls[d]
    BY <1>2, NowFacts, AfterStopGoesOn DEF IInv
<1>5. /\ Now' \in World /\ r' = y.r /\ gw' = y.gw /\ calls' = y.calls /\ writes' = y.writes
      /\ app' = y.app /\ gone' = y.gone
    BY <1>3, <1>4, StepFacts
<1> HIDE DEF y
<1>6. Starts(c) /\ Rest /\ UNCHANGED app /\ r'.enabled = r.enabled
    BY <1>3, <1>4, <1>5 DEF Starts, Rest, Keeps
<1> QED
    BY <1>1, <1>2, <1>5, <1>6, StartsKeeps

\* revokeAll() has ended the connections, and starts a gateway with new
\* certificates.
LEMMA ClosingStep ==
    ASSUME IInv, NEW c \in Slots, GatewayEnds(c), calls[c].pc = "closing"
    PROVE  IInv'
<1> DEFINE w == [Now EXCEPT !.r.gateway = None]
           y == StartGateway(w, c)
<1>1. calls[c].kind = "revokeAll"
    BY DEF IInv, Shapes, Staged, Starting
<1>2. /\ Starter(c) /\ Alive
      /\ \A d \in Slots \ {c} : calls[d].pc # "stopping"
      /\ r.gateway # None => r.enabled
    BY <1>1, AloneChanging
<1>3. r.gateway # None /\ Silent
    BY DEF IInv, Gates, Relies
<1>4. Set(y) /\ UNCHANGED <<disk, issued, restarts>>
    BY DEF GatewayEnds
<1>5. /\ w \in World /\ w.gw = gw /\ w.writes = writes /\ w.gone = gone /\ w.app = app
      /\ w.calls = calls /\ Keeps(w.r, r) /\ w.r.gateway = None
    <2> DEFINE s == [r EXCEPT !.gateway = None]
    <2>1. r \in Fields
        BY NowFacts DEF IInv, World
    <2>2. s \in Fields /\ Keeps(s, r) /\ s.gateway = None
        BY <2>1 DEF Fields, Keeps
    <2>3. w = [Now EXCEPT !.r = s]
        BY NowFacts DEF IInv
    <2> HIDE DEF s, w
    <2> QED
        BY <2>2, <2>3, NowFacts DEF IInv, World
<1> HIDE DEF w
<1>6. /\ y \in World /\ y.gw = w.gw /\ y.writes = w.writes /\ y.gone = w.gone /\ y.app = w.app
      /\ Keeps(y.r, w.r) /\ y.r.gateway = w.r.gateway /\ y.r.status = "starting"
      /\ GoesOn(y.calls[c], w.calls[c], "certs")
      /\ \A d \in Slots \ {c} : y.calls[d] = w.calls[d]
    BY <1>5, StartGatewayFacts
<1>7. /\ Now' \in World /\ r' = y.r /\ gw' = y.gw /\ calls' = y.calls /\ writes' = y.writes
      /\ app' = y.app /\ gone' = y.gone
    BY <1>4, <1>6, StepFacts
<1> HIDE DEF y
<1>8. Starts(c) /\ Rest /\ UNCHANGED app /\ r'.enabled = r.enabled
    BY <1>4, <1>5, <1>6, <1>7 DEF Starts, Rest, Keeps
<1> QED
    BY <1>2, <1>3, <1>7, <1>8, StartsKeeps

\* disable(), or the end of the program.
LEMMA StoppingStep ==
    ASSUME IInv, NEW c \in Slots, GatewayEnds(c), calls[c].pc = "stopping",
           calls[c].kind # "ports"
    PROVE  IInv'
<1> DEFINE y == AfterStop(Now, c)
<1>1. calls[c].kind \in {"disable", "quit"}
    BY DEF IInv, Shapes, Staged, Starting
<1>2. Set(y) /\ UNCHANGED <<disk, issued, restarts>>
    BY DEF GatewayEnds
<1>3. /\ y \in World /\ y.gw = gw /\ y.writes = writes /\ y.gone = gone
      /\ y.app = IF calls[c].kind = "quit" /\ app = "quitting" THEN "backend" ELSE app
      /\ calls[c].fresh => Keeps(y.r, r) /\ y.r.gateway = None /\ y.r.status # "running"
      /\ ~calls[c].fresh => y.r = r
      /\ y.calls[c] = Idle /\ \A d \in Slots \ {c} : y.calls[d] = calls[d]
    BY NowFacts, AfterStopEnds DEF IInv
<1>4. /\ Now' \in World /\ r' = y.r /\ gw' = y.gw /\ calls' = y.calls /\ writes' = y.writes
      /\ app' = y.app /\ gone' = y.gone
    BY <1>2, <1>3, StepFacts
<1> HIDE DEF y
<1>5. OnlyMoves(c) /\ calls'[c].kind = "none"
    BY <1>3, <1>4, IdleFacts DEF OnlyMoves
<1>6. Onward
    BY <1>3, <1>4 DEF Onward, Alive
<1>7. Apart'
    <2>1. CASE app' = app
        BY <1>5, <2>1, ApartSame DEF IInv
    <2>2. CASE app = "quitting" /\ app' = "backend"
        <3>1. \A d \in Slots : calls'[d].kind \notin {"start", "ports", "revokeAll"}
            BY <1>3, <1>4, <1>5, <2>2 DEF IInv, Apart
        <3> QED
            BY <1>5, <2>2, <3>1, ApartKept DEF IInv
    <2> QED
        BY <1>3, <1>4, <2>1, <2>2
<1>8. CASE calls[c].fresh
    <2>1. Drops(c) /\ Rest
        BY <1>2, <1>3, <1>4, <1>8 DEF Drops, Rest, Keeps
    <2>2. r.gateway # None /\ Silent /\ \A d \in Slots \ {c} : ~calls[d].fresh
        BY <1>8 DEF IInv, Gates, Relies
    <2>3. \A d \in Slots \ {c} : ~Coming(d)
        BY <2>2 DEF IInv, Gates, Relies, Coming
    <2>4. \A d \in Slots : calls[d].pc # "closing"
        BY <1>1, AloneChanging DEF IInv, Shapes, Staged, Starting
    <2> QED
        BY <1>4, <1>6, <1>7, <2>1, <2>2, <2>3, <2>4, DropsKeeps
<1>9. CASE ~calls[c].fresh
    <2>1. ~Alive
        BY <1>9 DEF IInv, Truth
    <2>2. SteadyGates
        BY <1>3, <1>4, <1>9 DEF IInv, Gates, SteadyGates
    <2>3. Ends(c) /\ Rest /\ r'.status = r.status
        BY <1>2, <1>3, <1>4, <1>9, <2>2 DEF Ends, Rest
    <2> QED
        BY <1>3, <1>4, <1>6, <1>7, <2>1, <2>3, EndsKeeps, NothingServed
<1> QED
    BY <1>8, <1>9

LEMMA GatewayEndsStep == ASSUME IInv, NEW c \in Slots, GatewayEnds(c) PROVE IInv'
<1>1. calls[c].pc \in {"dropping", "undoing", "stopping", "closing"}
    BY DEF GatewayEnds
<1> QED
    BY <1>1, DroppingStep, UndoingStep, PortsStep, ClosingStep, StoppingStep

---------------------------------------------------------------------------
(* The certificates are there                                              *)

Listening(g) == [NoGateway EXCEPT !.phase = "listening", !.ports = r.ports]

LEMMA CertifiedStep ==
    ASSUME IInv, NEW c \in Slots, NEW g \in Gateways, Certified(c, g)
    PROVE  IInv'
<1> USE DEF IInv
<1>1. Starter(c) /\ calls[c].kind # "disable"
    BY StartersOnly DEF Certified, At, Starting, Starter
<1>2. CASE ~calls[c].fresh
    BY <1>1, <1>2, CallEnds DEF Certified, At
<1>3. CASE calls[c].fresh
    <2> DEFINE y == [Now EXCEPT !.r.gateway = g, !.calls[c].pc = "listen", !.calls[c].gate = g,
                                !.gw[g] = Listening(g)]
               s == [r EXCEPT !.gateway = g]
               call == [calls[c] EXCEPT !.pc = "listen", !.gate = g]
               k == [calls EXCEPT ![c] = call]
               l == [gw EXCEPT ![g] = Listening(g)]
    <2>1. Set(y) /\ UNCHANGED <<disk, issued, restarts>> /\ calls[c].pc = "certs"
        BY <1>3 DEF Certified, At, Listening
    <2>2. /\ r \in Fields /\ calls \in [Slots -> Call] /\ gw \in [Gateways -> Gateway]
        BY NowFacts DEF World
    <2>3. /\ s \in Fields /\ Keeps(s, r) /\ s.gateway = g /\ s.status = r.status
        BY <2>2 DEF Fields, Keeps
    <2>4. /\ call \in Call /\ call.kind = calls[c].kind /\ call.pc = "listen"
          /\ call.gate = g /\ call.fresh = calls[c].fresh /\ call.devices = calls[c].devices
        BY <2>2 DEF Call, Awaits
    <2>5. /\ Listening(g) \in Gateway /\ Listening(g).phase = "listening"
          /\ Listening(g).proxies = {}
        BY <2>2 DEF Listening, NoGateway, Gateway, Phases, Fields
    <2>6. y = [Now EXCEPT !.r = s, !.calls = k, !.gw = l]
        BY <2>2, NowFacts DEF World
    <2> HIDE DEF call, s
    <2>7. k \in [Slots -> Call] /\ k[c] = call /\ \A d \in Slots \ {c} : k[d] = calls[d]
        BY <2>2, <2>4
    <2>8. /\ l \in [Gateways -> Gateway] /\ l[g] = Listening(g)
          /\ \A h \in Gateways \ {g} : l[h] = gw[h]
        BY <2>2, <2>5
    <2> HIDE DEF k, l
    <2>9. /\ y \in World /\ y.r = s /\ y.calls = k /\ y.gw = l /\ y.writes = writes
          /\ y.app = app /\ y.gone = gone
        BY ZenonT(60), <2>3, <2>6, <2>7, <2>8, NowFacts DEF World
    <2>10. /\ Now' \in World /\ r' = s /\ gw' = l /\ calls' = k /\ writes' = writes
           /\ app' = app /\ gone' = gone
        BY <2>1, <2>9, StepFacts
    <2> HIDE DEF y
    <2>11. OnlyMoves(c)
        BY <2>7, <2>10 DEF OnlyMoves
    <2>12. Shapes'
        <3>1. Staged(calls'[c]) /\ c # Quit /\ calls'[c].kind # "quit"
            BY <1>1, <2>4, <2>7, <2>10 DEF Shapes, Starter, Staged, Starting
        <3> QED
            BY <2>4, <2>7, <2>10, <2>11, <3>1, ShapesKept
    <2>13. Apart'
        BY <2>4, <2>7, <2>10, <2>11, ApartSame
    <2>14. Queue'
        BY <2>1, <2>4, <2>7, <2>10, <2>11, QueueKept
    <2>15. r.gateway = None
        BY <1>3, <2>1 DEF Gates, Relies
    <2>16. \A d \in Slots \ {c} :
               /\ ~Starter(d) /\ calls[d].pc \notin Starting \cup {"load", "clearing", "closing"}
               /\ calls[d].pc = "stopping" => ~calls[d].fresh
        BY <1>1, <1>3, AloneStarting
    <2>17. Gates'
        <3>1. Relies(c)'
            BY <2>3, <2>4, <2>5, <2>7, <2>8, <2>10 DEF Relies
        <3>2. ASSUME NEW d \in Slots \ {c} PROVE Relies(d)'
            BY <2>7, <2>10, <2>16 DEF Relies, Starting, Starter
        <3>3. ASSUME NEW h \in Gateways
              PROVE  /\ gw'[h].phase = "up" => h = r'.gateway /\ app' # "starting"
                     /\ gw'[h].phase = "listening" =>
                            \E d \in Slots : calls'[d].pc = "listen" /\ calls'[d].gate = h
                     /\ gw'[h].proxies # {} => gw'[h].phase = "up"
            <4>1. CASE h = g
                BY <2>3, <2>4, <2>5, <2>7, <2>8, <2>10, <4>1
            <4>2. CASE h # g
                <5>1. gw'[h] = gw[h] /\ gw[h].phase # "up"
                    BY <2>8, <2>10, <2>15, <4>2, Distinct DEF Gates
                <5>2. gw[h].phase # "listening"
                    BY <2>1, <2>16 DEF Gates, Starting
                <5> QED
                    BY <5>1, <5>2 DEF Gates
            <4> QED
                BY <4>1, <4>2
        <3> QED
            BY <3>1, <3>2, <3>3 DEF Gates
    <2>18. Truth'
        <3>1. r'.gateway = g /\ gw'[g].phase = "listening" /\ r'.status = r.status
            BY <2>3, <2>5, <2>8, <2>10
        <3>2. Alive' => r.status # "running"
            BY <2>10, <2>15 DEF Truth, Alive
        <3>3. \A d \in Slots : Alive' /\ calls'[d].pc = "stopping" => calls'[d].fresh
            BY <2>4, <2>7, <2>10 DEF Truth, Alive
        <3> QED
            BY <3>1, <3>2, <3>3 DEF Truth
    <2>19. ShutOff'
        <3> SUFFICES ASSUME Alive', ~r'.enabled PROVE ShutOff'
            BY DEF ShutOff
        <3>1. Coming(c)
            BY <1>3, <2>1 DEF Coming, Starting
        <3>2. Alive /\ ~r.enabled
            BY <2>3, <2>10 DEF Keeps, Alive
        <3>3. PICK d \in Slots : calls[d].kind = "disable" /\ calls[d].pc = "saving"
            BY <3>1, <3>2 DEF ShutOff
        <3>4. calls'[d].kind = "disable" /\ calls'[d].pc = "saving"
            BY <1>1, <2>7, <2>10, <3>3
        <3>5. \A e \in Slots : calls'[e].pc # "closing"
            BY <2>4, <2>7, <2>10, <2>16
        <3> QED
            BY <3>4, <3>5 DEF ShutOff
    <2>20. Revocations'
        <3>1. ServesKnown /\ r'.devices = r.devices
            BY <2>3, <2>5, <2>8, <2>10 DEF ServesKnown, Keeps
        <3> QED
            BY <2>1, <2>4, <2>7, <2>10, <3>1, RevocationsSame DEF RevokesAsBefore
    <2>21. Typed'
        BY <2>1, <2>10 DEF Typed
    <2> QED
        BY <2>12, <2>13, <2>14, <2>17, <2>18, <2>19, <2>20, <2>21
<1> QED
    BY <1>2, <1>3

---------------------------------------------------------------------------
(* The listeners are open, too late or not at all                          *)

\* The gateway a start was about to open stays closed.
Closes(c, g) ==
    /\ gw'[g].phase \notin {"listening", "up"} /\ gw'[g].proxies = {}
    /\ \A h \in Gateways \ {g} : gw'[h] = gw[h]
    /\ calls'[c].kind = calls[c].kind /\ calls'[c].devices = calls[c].devices
    /\ calls'[c].fresh => calls[c].fresh
    /\ \/ calls'[c].pc = "undoing"
       \/ calls'[c].pc = "dropping" /\ ~calls[c].fresh
    /\ \A d \in Slots \ {c} : calls'[d] = calls[d]
    /\ UNCHANGED <<r, app>>

LEMMA ClosesKeeps ==
    ASSUME IInv, NEW c \in Slots, calls[c].pc = "listen", Closes(c, calls[c].gate),
           Rest, Now' \in World
    PROVE  IInv'
<1> DEFINE g == calls[c].gate
<1> USE DEF IInv
<1>1. Starter(c)
    BY StartersOnly DEF Starting
<1>2. g \in Gateways /\ gw[g].phase # "up"
    BY DEF Shapes, Gates, Relies
<1> HIDE DEF g
<1>3. Closes(c, g) /\ calls[c].gate = g
    BY DEF g
<1>4. OnlyMoves(c)
    BY DEF Closes, OnlyMoves
<1>5. Shapes'
    <2>1. Staged(calls'[c]) /\ c # Quit /\ calls'[c].kind # "quit"
        BY <1>1 DEF Closes, Shapes, Starter, Staged, Starting
    <2> QED
        BY <1>4, <2>1, ShapesKept DEF Closes
<1>6. Apart'
    BY <1>4, ApartSame DEF Closes
<1>7. Queue'
    BY <1>4, QueueKept DEF Closes, Rest
<1>8. \A d \in Slots \ {c} :
          ~Starter(d) /\ calls[d].pc \notin Starting \cup {"load", "clearing", "closing"}
    BY <1>1, AloneStarting
<1>9. Silent => Silent'
    BY <1>3, GatewayTyped DEF Silent, Closes
<1>10. Gates'
    <2>1. Relies(c)'
        <3>1. calls[c].fresh => Silent'
            BY <1>3 DEF Gates, Relies, Silent, Closes
        <3> QED
            BY <1>1, <1>3, <3>1 DEF Relies, Closes
    <2>2. ASSUME NEW d \in Slots \ {c} PROVE Relies(d)'
        <3>1. calls'[d] = calls[d] /\ Relies(d)
            BY DEF Closes, Gates
        <3>2. calls[d].pc = "stopping" /\ calls[d].fresh =>
                  \A e \in Slots \ {d} : ~calls'[e].fresh
            BY <3>1 DEF Relies, Closes
        <3> QED
            BY <1>3, <1>8, <1>9, <3>1, <3>2 DEF Relies, Starting, Starter, Closes
    <2>3. ASSUME NEW h \in Gateways
          PROVE  /\ gw'[h].phase = "up" => h = r'.gateway /\ app' # "starting"
                 /\ gw'[h].phase = "listening" =>
                        \E d \in Slots : calls'[d].pc = "listen" /\ calls'[d].gate = h
                 /\ gw'[h].proxies # {} => gw'[h].phase = "up"
        <3>1. CASE h = g
            BY <1>3, <3>1 DEF Closes
        <3>2. CASE h # g
            <4>1. gw'[h] = gw[h] /\ r' = r /\ app' = app
                BY <1>3, <3>2 DEF Closes
            <4>2. gw[h].phase # "listening"
                BY <1>3, <1>8, <3>2 DEF Gates, Starting
            <4> QED
                BY <4>1, <4>2 DEF Gates
        <3> QED
            BY <3>1, <3>2
    <2> QED
        BY <2>1, <2>2, <2>3 DEF Gates
<1>11. Truth'
    <2>1. r' = r /\ Alive' = Alive
        BY DEF Closes, Alive
    <2>2. r.gateway # None => (gw'[r.gateway].phase = "up" <=> gw[r.gateway].phase = "up")
        BY <1>2, <1>3, GatewayTyped DEF Closes
    <2>3. \A d \in Slots : calls[d].pc \in {"stopping", "closing"} => calls'[d].pc = calls[d].pc
        BY DEF Closes
    <2>4. \A d \in Slots : Alive' /\ calls'[d].pc = "stopping" => calls'[d].fresh
        BY <2>1 DEF Truth, Closes
    <2> QED
        BY <2>1, <2>2, <2>3, <2>4 DEF Truth
<1>12. ShutOff'
    <2>1. Coming(c)' => Coming(c)
        BY DEF Coming, Starting, Closes
    <2>2. calls'[c].pc # "closing" /\ calls[c].kind # "disable" /\ Onward /\ r' = r
        BY <1>1 DEF Closes, Starter, Onward, Alive
    <2> QED
        BY <1>4, <2>1, <2>2, ShutOffSteady
<1>13. Revocations'
    <2>1. ServesKnown
        BY <1>3 DEF ServesKnown, Closes
    <2> QED
        BY <2>1, RevocationsSame DEF Closes, RevokesAsBefore, Rest
<1>14. Typed'
    BY DEF Typed, Rest
<1> QED
    BY <1>5, <1>6, <1>7, <1>10, <1>11, <1>12, <1>13, <1>14

LEMMA ListenFailsStep == ASSUME IInv, NEW c \in Slots, ListenFails(c) PROVE IInv'
<1> DEFINE g == calls[c].gate
           gate == [gw[g] EXCEPT !.phase = "down"]
           call == [calls[c] EXCEPT !.pc = "undoing"]
           k == [calls EXCEPT ![c] = call]
           l == [gw EXCEPT ![g] = gate]
           y == [Now EXCEPT !.gw[g].phase = "down", !.calls[c].pc = "undoing"]
<1>1. calls[c].pc = "listen" /\ Set(y) /\ UNCHANGED <<disk, issued, restarts>>
    BY DEF ListenFails, At
<1>2. g \in Gateways /\ gw[g].phase # "up"
    BY <1>1 DEF IInv, Shapes, Gates, Relies
<1>3. calls \in [Slots -> Call] /\ gw \in [Gateways -> Gateway]
    BY NowFacts DEF IInv, World
<1>4. gw[g].proxies = {}
    BY <1>2 DEF IInv, Gates
<1>5. /\ gate \in Gateway /\ gate.phase = "down" /\ gate.proxies = {}
    BY <1>2, <1>3, <1>4 DEF Gateway, Phases
<1>6. /\ call \in Call /\ call.kind = calls[c].kind /\ call.pc = "undoing"
      /\ call.fresh = calls[c].fresh /\ call.devices = calls[c].devices
    BY <1>3 DEF Call, Awaits
<1>7. y = [Now EXCEPT !.calls = k, !.gw = l]
    BY <1>3, NowFacts DEF IInv, World
<1> HIDE DEF call, gate
<1>8. k \in [Slots -> Call] /\ k[c] = call /\ \A d \in Slots \ {c} : k[d] = calls[d]
    BY <1>3, <1>6
<1>9. l \in [Gateways -> Gateway] /\ l[g] = gate /\ \A h \in Gateways \ {g} : l[h] = gw[h]
    BY <1>2, <1>3, <1>5
<1> HIDE DEF k, l
<1>10. /\ y \in World /\ y.r = r /\ y.calls = k /\ y.gw = l /\ y.writes = writes
       /\ y.app = app /\ y.gone = gone
    BY <1>7, <1>8, <1>9, NowFacts DEF IInv, World
<1>11. /\ Now' \in World /\ r' = r /\ gw' = l /\ calls' = k /\ writes' = writes
       /\ app' = app /\ gone' = gone
    BY <1>1, <1>10, StepFacts
<1> HIDE DEF y
<1>12. Closes(c, g) /\ Rest
    BY <1>1, <1>5, <1>6, <1>8, <1>9, <1>11 DEF Closes, Rest
<1> QED
    BY <1>1, <1>11, <1>12, ClosesKeeps

\* The listeners open, and the start has been overtaken.
LEMMA ListensLateStep ==
    ASSUME IInv, NEW c \in Slots, Listens(c), ~calls[c].fresh PROVE IInv'
<1> DEFINE g == calls[c].gate
           gate == [gw[g] EXCEPT !.phase = IF @ = "listening" THEN "up" ELSE "down"]
           l == [gw EXCEPT ![g] = gate]
           w == [Now EXCEPT !.gw[g].phase = IF @ = "listening" THEN "up" ELSE "down"]
           z == Stopped(w, g)
           call == [calls[c] EXCEPT !.pc = "dropping"]
           k == [calls EXCEPT ![c] = call]
           y == [z EXCEPT !.calls[c].pc = "dropping"]
<1>1. calls[c].pc = "listen" /\ Set(y) /\ UNCHANGED <<disk, issued, restarts>>
    BY ZenonT(60) DEF Listens, At
<1>2. g \in Gateways
    BY <1>1 DEF IInv, Shapes
<1>3. calls \in [Slots -> Call] /\ gw \in [Gateways -> Gateway]
    BY NowFacts DEF IInv, World
<1>4. gate \in Gateway
    BY <1>2, <1>3 DEF Gateway, Phases
<1>5. w = [Now EXCEPT !.gw = l]
    BY <1>3, NowFacts DEF IInv, World
<1> HIDE DEF gate
<1>6. l \in [Gateways -> Gateway] /\ \A h \in Gateways \ {g} : l[h] = gw[h]
    BY <1>2, <1>3, <1>4
<1> HIDE DEF l
<1>7. /\ w \in World /\ w.r = r /\ w.calls = calls /\ w.gw = l /\ w.writes = writes
      /\ w.app = app /\ w.gone = gone
    BY <1>5, <1>6, NowFacts DEF IInv, World
<1> HIDE DEF w
<1>8. /\ z \in World /\ z.r = r /\ z.calls = calls /\ z.writes = writes
      /\ z.app = app /\ z.gone = gone /\ Silenced(z.gw, l, g)
    BY <1>2, <1>7, StoppedFacts
<1> HIDE DEF z
<1>9. /\ call \in Call /\ call.kind = calls[c].kind /\ call.pc = "dropping"
      /\ call.fresh = calls[c].fresh /\ call.devices = calls[c].devices
    BY <1>3 DEF Call, Awaits
<1>10. y = [z EXCEPT !.calls = k]
    BY <1>8
<1> HIDE DEF call
<1>11. k \in [Slots -> Call] /\ k[c] = call /\ \A d \in Slots \ {c} : k[d] = calls[d]
    BY <1>3, <1>9
<1> HIDE DEF k
<1>12. /\ y \in World /\ y.r = r /\ y.calls = k /\ y.gw = z.gw /\ y.writes = writes
       /\ y.app = app /\ y.gone = gone
    BY <1>8, <1>10, <1>11 DEF World
<1>13. /\ Now' \in World /\ r' = r /\ gw' = z.gw /\ calls' = k /\ writes' = writes
       /\ app' = app /\ gone' = gone
    BY <1>1, <1>12, StepFacts
<1> HIDE DEF y
<1>14. Closes(c, g) /\ Rest
    BY <1>1, <1>6, <1>8, <1>9, <1>11, <1>13 DEF Closes, Rest, Silenced
<1> QED
    BY SMTT(30), <1>1, <1>13, <1>14, ClosesKeeps

\* The gateway of the service accepts connections.
LEMMA ListensInTimeStep ==
    ASSUME IInv, NEW c \in Slots, Listens(c), calls[c].fresh PROVE IInv'
<1> USE DEF IInv
<1> DEFINE g == calls[c].gate
           gate == [gw[g] EXCEPT !.phase = "up"]
           l == [gw EXCEPT ![g] = gate]
           s == [r EXCEPT !.status = "running"]
           w == [Now EXCEPT !.gw[g].phase = IF @ = "listening" THEN "up" ELSE "down"]
           z == [w EXCEPT !.r.status = "running"]
           y == StartEnds(z, c)
<1>1. calls[c].pc = "listen" /\ Set(y) /\ UNCHANGED <<disk, issued, restarts>>
    BY DEF Listens, At
<1>2. g \in Gateways /\ gw[g].phase = "listening" /\ r.gateway = g
    BY <1>1 DEF Shapes, Gates, Relies
<1>3. gw[g].proxies = {}
    BY <1>2 DEF Gates
<1>4. gw \in [Gateways -> Gateway] /\ r \in Fields
    BY NowFacts DEF World
<1>5. gate \in Gateway /\ gate.phase = "up" /\ gate.proxies = {}
    BY <1>2, <1>3, <1>4 DEF Gateway, Phases
<1>6. s \in Fields /\ Keeps(s, r) /\ s.gateway = r.gateway /\ s.status = "running"
    BY <1>4 DEF Fields, Keeps
<1>7. z = [Now EXCEPT !.r = s, !.gw = l]
    BY <1>2, <1>4, NowFacts DEF World
<1> HIDE DEF gate, s
<1>8. l \in [Gateways -> Gateway] /\ l[g] = gate /\ \A h \in Gateways \ {g} : l[h] = gw[h]
    BY <1>2, <1>4, <1>5
<1> HIDE DEF l, z
<1>9. /\ z \in World /\ z.r = s /\ z.calls = calls /\ z.gw = l /\ z.writes = writes
      /\ z.app = app /\ z.gone = gone
    BY <1>6, <1>7, <1>8, NowFacts DEF World
<1>10. /\ y \in World /\ y.r = s /\ y.gw = l /\ y.writes = writes /\ y.gone = gone
       /\ y.app = IF calls[c].kind = "start" /\ app = "starting" THEN "up" ELSE app
       /\ y.calls[c] = Idle /\ \A d \in Slots \ {c} : y.calls[d] = calls[d]
    BY <1>9, StartEndsFacts
<1>11. /\ Now' \in World /\ r' = s /\ gw' = l /\ calls' = y.calls /\ writes' = writes
       /\ app' = y.app /\ gone' = gone
    BY <1>1, <1>10, StepFacts
<1> HIDE DEF y, g
<1>12. OnlyMoves(c) /\ calls'[c] = Idle /\ \A d \in Slots \ {c} : calls'[d] = calls[d]
    BY <1>10, <1>11 DEF OnlyMoves
<1>13. Starter(c)
    BY <1>1, StartersOnly DEF Starting
<1>14. \A d \in Slots \ {c} :
           /\ ~Starter(d) /\ calls[d].pc \notin Starting \cup {"load", "clearing", "closing"}
           /\ calls[d].pc = "stopping" => ~calls[d].fresh
    BY <1>13, AloneStarting
<1>15. Shapes'
    BY <1>12, IdleFacts, ShapesKept
<1>16. Apart'
    BY <1>10, <1>11, <1>12, IdleFacts, ApartEnds
<1>17. Queue'
    BY <1>1, <1>11, <1>12, IdleFacts, QueueKept
<1>18. Gates'
    <2>1. \A d \in Slots : Relies(d)'
        BY <1>12, <1>14, IdleFacts DEF Relies, Starting, Starter
    <2>2. ASSUME NEW h \in Gateways
          PROVE  /\ gw'[h].phase = "up" => h = r'.gateway /\ app' # "starting"
                 /\ gw'[h].phase # "listening"
                 /\ gw'[h].proxies # {} => gw'[h].phase = "up"
        <3>1. CASE h = g
            <4>1. app' # "starting"
                BY <1>10, <1>11, <1>13 DEF Apart, Starter
            <4> QED
                BY <1>2, <1>5, <1>6, <1>8, <1>11, <3>1, <4>1
        <3>2. CASE h # g
            <4>1. gw'[h] = gw[h] /\ gw[h].phase # "up"
                BY <1>2, <1>8, <1>11, <3>2 DEF Gates
            <4>2. gw[h].phase # "listening"
                BY <1>14, <3>2 DEF Gates, Starting, g
            <4> QED
                BY <4>1, <4>2 DEF Gates
        <3> QED
            BY <3>1, <3>2
    <2> QED
        BY <2>1, <2>2 DEF Gates
<1>19. Onward
    BY <1>10, <1>11 DEF Onward, Alive
<1>20. Truth'
    <2>1. r'.status = "running" /\ r'.gateway = g /\ gw'[g].phase = "up" /\ g # None
        BY <1>2, <1>5, <1>6, <1>8, <1>11, Distinct
    <2>2. \A d \in Slots : Alive' /\ calls'[d].pc = "stopping" => calls'[d].fresh
        BY <1>12, <1>19, IdleFacts DEF Truth, Onward
    <2> QED
        BY <2>1, <2>2 DEF Truth
<1>21. ShutOff'
    <2> SUFFICES ASSUME Alive', ~r'.enabled PROVE ShutOff'
        BY DEF ShutOff
    <2>1. Alive /\ ~r.enabled /\ Coming(c)
        BY <1>1, <1>6, <1>11, <1>19 DEF Keeps, Coming, Starting, Onward
    <2>2. PICK d \in Slots : calls[d].kind = "disable" /\ calls[d].pc = "saving"
        BY <2>1 DEF ShutOff
    <2>3. calls'[d].kind = "disable"
        BY <1>12, <1>13, <2>2 DEF Starter
    <2>4. \A e \in Slots : calls'[e].pc # "closing" /\ ~Coming(e)'
        BY <1>12, <1>14, IdleFacts DEF Coming, Starting, Starter
    <2> QED
        BY <2>3, <2>4 DEF ShutOff
<1>22. Revocations'
    <2>1. ServesKnown /\ r'.devices = r.devices
        BY <1>3, <1>5, <1>6, <1>8, <1>11 DEF ServesKnown, Keeps
    <2> QED
        BY <1>1, <1>11, <1>12, <2>1, IdleFacts, RevocationsSame DEF RevokesAsBefore
<1>23. Typed'
    BY <1>1, <1>11 DEF Typed
<1> QED
    BY <1>15, <1>16, <1>17, <1>18, <1>20, <1>21, <1>22, <1>23

LEMMA ListensStep == ASSUME IInv, NEW c \in Slots, Listens(c) PROVE IInv'
BY ListensLateStep, ListensInTimeStep

---------------------------------------------------------------------------
(* revokeAll() goes on when the secrets are removed                        *)

LEMMA ClearedStep ==
    ASSUME IInv, NEW c \in Slots, NEW ok \in BOOLEAN, Cleared(c, ok) PROVE IInv'
<1> USE DEF IInv
<1>1. /\ calls[c].pc = "clearing" /\ UNCHANGED <<disk, issued, restarts>>
      /\ Set(IF ~ok \/ ~r.enabled THEN Done(Now, c)
             ELSE IF r.gateway = None THEN StartGateway(Now, c)
             ELSE [Stopped(Now, r.gateway) EXCEPT !.calls[c].pc = "closing"])
    BY DEF Cleared, At
<1>2. calls[c].kind = "revokeAll"
    BY <1>1 DEF Shapes, Staged, Starting
<1>3. /\ Starter(c) /\ Alive
      /\ \A d \in Slots : calls[d].kind # "disable" /\ calls[d].kind # "quit"
      /\ \A d \in Slots \ {c} : calls[d].pc # "stopping"
    BY <1>2, AloneChanging
<1>4. CASE ~ok \/ ~r.enabled
    BY <1>1, <1>2, <1>4, CallIsDone
<1>5. CASE ok /\ r.enabled /\ r.gateway = None
    <2> DEFINE y == StartGateway(Now, c)
    <2>1. Set(y)
        BY <1>1, <1>5
    <2>2. /\ y \in World /\ y.gw = gw /\ y.writes = writes /\ y.gone = gone /\ y.app = app
          /\ Keeps(y.r, r) /\ y.r.gateway = r.gateway /\ y.r.status = "starting"
          /\ GoesOn(y.calls[c], calls[c], "certs")
          /\ \A d \in Slots \ {c} : y.calls[d] = calls[d]
        BY NowFacts, StartGatewayFacts
    <2>3. /\ Now' \in World /\ r' = y.r /\ gw' = y.gw /\ calls' = y.calls /\ writes' = y.writes
          /\ app' = y.app /\ gone' = y.gone
        BY <2>1, <2>2, StepFacts
    <2> HIDE DEF y
    <2>4. Starts(c) /\ Rest /\ UNCHANGED app /\ r'.enabled = r.enabled
        BY <1>1, <1>5, <2>2, <2>3 DEF Starts, Rest, Keeps
    <2> QED
        BY <1>1, <1>3, <1>5, <2>3, <2>4, StartsKeeps DEF Silent
<1>6. CASE ok /\ r.enabled /\ r.gateway # None
    <2> DEFINE g == r.gateway
               z == Stopped(Now, g)
               call == [calls[c] EXCEPT !.pc = "closing"]
               k == [calls EXCEPT ![c] = call]
               y == [z EXCEPT !.calls[c].pc = "closing"]
    <2>1. Set(y) /\ g \in Gateways /\ calls \in [Slots -> Call]
        BY <1>1, <1>6, NowFacts, GatewayTyped DEF World
    <2>2. /\ z \in World /\ z.r = r /\ z.calls = calls /\ z.writes = writes
          /\ z.app = app /\ z.gone = gone /\ Silenced(z.gw, gw, g)
        BY <2>1, NowFacts, StoppedFacts
    <2> HIDE DEF z
    <2>3. /\ call \in Call /\ call.kind = calls[c].kind /\ call.pc = "closing"
          /\ call.fresh = calls[c].fresh /\ call.devices = calls[c].devices
        BY <2>1 DEF Call, Awaits
    <2>4. y = [z EXCEPT !.calls = k]
        BY <2>2
    <2> HIDE DEF call
    <2>5. k \in [Slots -> Call] /\ k[c] = call /\ \A d \in Slots \ {c} : k[d] = calls[d]
        BY <2>1, <2>3
    <2> HIDE DEF k
    <2>6. /\ y \in World /\ y.r = r /\ y.calls = k /\ y.gw = z.gw /\ y.writes = writes
          /\ y.app = app /\ y.gone = gone
        BY <2>2, <2>4, <2>5 DEF World
    <2>7. /\ Now' \in World /\ r' = r /\ gw' = z.gw /\ calls' = k /\ writes' = writes
          /\ app' = app /\ gone' = gone
        BY <2>1, <2>6, StepFacts
    <2> HIDE DEF y
    <2>8. OnlyMoves(c) /\ \A d \in Slots \ {c} : calls'[d] = calls[d]
        BY <2>5, <2>7 DEF OnlyMoves
    <2>9. /\ calls'[c].kind = "revokeAll" /\ calls'[c].pc = "closing"
          /\ calls'[c].devices = calls[c].devices
        BY <1>2, <2>3, <2>5, <2>7
    <2>10. Silenced(gw', gw, g)
        BY <2>2, <2>7
    <2>11. Shapes'
        BY <1>2, <2>8, <2>9, ShapesKept DEF Staged, Shapes
    <2>12. Apart'
        BY <1>2, <2>7, <2>8, <2>9, ApartSame
    <2>13. Queue'
        BY <1>1, <2>7, <2>8, <2>9, QueueKept
    <2>14. \A d \in Slots \ {c} :
               ~Starter(d) /\ calls[d].pc \notin Starting \cup {"load", "clearing", "closing"}
        BY <1>3, AloneStarting
    <2>15. Gates'
        <3>1. Silent'
            BY <2>7, <2>10 DEF Silent, Silenced
        <3>2. \A d \in Slots : Relies(d)'
            BY <1>3, <1>6, <2>7, <2>8, <2>9, <2>14, <3>1 DEF Relies, Starting, Starter
        <3>3. \A h \in Gateways : gw'[h].phase # "listening"
            BY <1>1, <2>10, <2>14 DEF Gates, Silenced, Starting
        <3> QED
            BY <2>7, <2>10, <3>2, <3>3 DEF Gates, Silenced
    <2>16. Truth'
        <3>1. \A d \in Slots : calls'[d].pc # "stopping"
            BY <1>3, <2>8, <2>9
        <3> QED
            BY <1>6, <2>7, <2>9, <2>10, <3>1 DEF Truth, Silenced
    <2>17. ShutOff'
        BY <1>6, <2>7 DEF ShutOff
    <2>18. Revocations'
        <3>1. ServesKnown
            BY <2>10 DEF ServesKnown, Silenced
        <3> QED
            BY <1>1, <1>2, <2>7, <2>8, <2>9, <3>1, RevocationsSame DEF RevokesAsBefore
    <2>19. Typed'
        BY <1>1, <2>7 DEF Typed
    <2> QED
        BY <2>11, <2>12, <2>13, <2>15, <2>16, <2>17, <2>18, <2>19
<1> QED
    BY <1>4, <1>5, <1>6

---------------------------------------------------------------------------
(* Requests of the devices that change no call                             *)

LEMMA StillKeeps ==
    ASSUME IInv, UNCHANGED <<r, calls, app, restarts>>, SteadyGates, Now' \in World,
           Queue', Revocations', UNCHANGED <<issued>>, disk' \in Config \cup {Torn}
    PROVE  IInv'
<1> USE DEF IInv
<1>1. Silent => Silent'
    BY SilentSteady
<1>2. Gates'
    <2>1. ASSUME NEW d \in Slots PROVE Relies(d)'
        <3>1. calls[d].pc = "listen" => gw'[calls[d].gate].phase = gw[calls[d].gate].phase
            BY DEF Shapes, SteadyGates
        <3> QED
            BY <1>1, <3>1 DEF Gates, Relies
    <2> QED
        BY <2>1 DEF Gates, SteadyGates
<1>3. Truth'
    <2>1. r.gateway # None => gw'[r.gateway].phase = gw[r.gateway].phase
        BY GatewayTyped DEF SteadyGates
    <2> QED
        BY <2>1 DEF Truth, Alive
<1>4. ShutOff'
    BY DEF ShutOff, Coming, Alive
<1>5. Shapes' /\ Apart'
    BY DEF Shapes, Apart, Starter
<1>6. Typed'
    BY DEF Typed
<1> QED
    BY <1>2, <1>3, <1>4, <1>5, <1>6

\* One gateway becomes another record of the same phase.
LEMMA GateChanges ==
    ASSUME IInv, NEW g \in Gateways, NEW gate \in Gateway, gate.phase = gw[g].phase,
           gate.proxies \subseteq gw[g].proxies,
           Set([Now EXCEPT !.gw = [gw EXCEPT ![g] = gate]]), UNCHANGED <<disk, issued, restarts>>
    PROVE  IInv'
<1> DEFINE l == [gw EXCEPT ![g] = gate]
           y == [Now EXCEPT !.gw = l]
<1> USE DEF IInv
<1>1. gw \in [Gateways -> Gateway]
    BY NowFacts DEF World
<1>2. /\ l \in [Gateways -> Gateway]
      /\ \A h \in Gateways : l[h].phase = gw[h].phase /\ l[h].proxies \subseteq gw[h].proxies
    BY <1>1
<1> HIDE DEF l
<1>3. /\ y \in World /\ y.r = r /\ y.gw = l /\ y.calls = calls /\ y.writes = writes
      /\ y.app = app /\ y.gone = gone
    BY <1>2, NowFacts DEF World
<1>4. Set(y)
    BY DEF l
<1>5. /\ Now' \in World /\ r' = r /\ gw' = l /\ calls' = calls /\ writes' = writes
      /\ app' = app /\ gone' = gone
    BY <1>3, <1>4, StepFacts
<1> HIDE DEF y
<1>6. SteadyGates
    BY <1>2, <1>5 DEF SteadyGates, Gates
<1>7. Queue'
    BY <1>5 DEF Queue
<1>8. Revocations'
    <2>1. ServesKnown
        BY <1>2, <1>5 DEF ServesKnown
    <2> QED
        BY <1>5, <2>1, RevocationsSame DEF RevokesAsBefore
<1> QED
    BY <1>5, <1>6, <1>7, <1>8, StillKeeps DEF Typed

LEMMA BootstrapExpiresStep ==
    ASSUME IInv, NEW g \in Gateways, BootstrapExpires(g) PROVE IInv'
<1> DEFINE gate == [gw[g] EXCEPT !.boot = FALSE]
<1>1. gw[g] \in Gateway
    BY NowFacts DEF IInv, World
<1>2. gate \in Gateway /\ gate.phase = gw[g].phase /\ gate.proxies = gw[g].proxies
    BY <1>1 DEF Gateway
<1>3. Set([Now EXCEPT !.gw = [gw EXCEPT ![g] = gate]]) /\ UNCHANGED <<disk, issued, restarts>>
    BY NowFacts DEF BootstrapExpires, IInv
<1> HIDE DEF gate
<1> QED
    BY <1>2, <1>3, GateChanges

LEMMA DisconnectStep ==
    ASSUME IInv, NEW g \in Gateways, NEW d \in Devices, Disconnect(d, g) PROVE IInv'
<1> DEFINE gate == [gw[g] EXCEPT !.proxies = gw[g].proxies \ {d}]
<1>1. gw[g] \in Gateway
    BY NowFacts DEF IInv, World
<1>2. gate \in Gateway /\ gate.phase = gw[g].phase /\ gate.proxies \subseteq gw[g].proxies
    BY <1>1 DEF Gateway
<1>3. Set([Now EXCEPT !.gw = [gw EXCEPT ![g] = gate]]) /\ UNCHANGED <<disk, issued, restarts>>
    BY NowFacts DEF Disconnect, IInv
<1> HIDE DEF gate
<1> QED
    BY <1>2, <1>3, GateChanges

LEMMA ConnectStep ==
    ASSUME IInv, NEW g \in Gateways, NEW d \in Devices, NEW seen \in BOOLEAN,
           Connect(d, g, seen)
    PROVE  IInv'
<1> USE DEF IInv
<1> DEFINE gate == [gw[g] EXCEPT !.proxies = gw[g].proxies \cup {d}]
           l == [gw EXCEPT ![g] = gate]
           w == [Now EXCEPT !.gw[g].proxies = @ \cup {d}]
           e == [config |-> Stored(w), call |-> None]
           v == [w EXCEPT !.writes = Append(w.writes, e)]
           y == IF seen THEN v ELSE w
<1>1. /\ Set(y) /\ UNCHANGED <<disk, issued, restarts>> /\ gw[g].phase = "up" /\ d \in r.devices
    BY DEF Connect, Serves
<1>2. gw \in [Gateways -> Gateway]
    BY NowFacts DEF World
<1>3. gate \in Gateway /\ gate.phase = gw[g].phase /\ gate.proxies = gw[g].proxies \cup {d}
    BY <1>2 DEF Gateway
<1>4. w = [Now EXCEPT !.gw = l]
    BY <1>2, NowFacts
<1> HIDE DEF gate
<1>5. /\ l \in [Gateways -> Gateway] /\ l[g] = gate /\ \A h \in Gateways \ {g} : l[h] = gw[h]
    BY <1>2, <1>3
<1> HIDE DEF l, w
<1>6. /\ w \in World /\ w.r = r /\ w.gw = l /\ w.calls = calls /\ w.writes = writes
      /\ w.app = app /\ w.gone = gone
    BY <1>4, <1>5, NowFacts DEF World
<1>7. e \in Write /\ e.call = None /\ e.config.devices = r.devices
    BY <1>6, StoredFacts DEF Write, Stored
<1> HIDE DEF e
<1>8. /\ v \in World /\ v.r = r /\ v.gw = l /\ v.calls = calls /\ v.writes = Append(writes, e)
      /\ v.app = app /\ v.gone = gone
    <2> DEFINE q == Append(w.writes, e)
    <2>1. q \in Seq(Write) /\ q = Append(writes, e)
        BY <1>6, <1>7 DEF World
    <2> HIDE DEF q
    <2> QED
        BY <1>6, <2>1 DEF World
<1> HIDE DEF v
<1>9. /\ Now' \in World /\ r' = r /\ gw' = l /\ calls' = calls
      /\ app' = app /\ gone' = gone
      /\ writes' = IF seen THEN Append(writes, e) ELSE writes
    BY <1>1, <1>6, <1>8, StepFacts
<1> HIDE DEF y
<1>10. SteadyGates
    BY <1>1, <1>3, <1>5, <1>9 DEF SteadyGates, Gates
<1>11. ServesKnown
    BY <1>1, <1>3, <1>5, <1>9 DEF ServesKnown
<1>12. CASE seen
    <2>1. Queue'
        BY <1>7, <1>9, <1>12, QueuePushedNobody
    <2>2. Revocations'
        BY <1>1, <1>7, <1>9, <1>11, <1>12, RevocationsPushed DEF RevokesAsBefore
    <2> QED
        BY <1>1, <1>9, <1>10, <2>1, <2>2, StillKeeps DEF Typed
<1>13. CASE ~seen
    <2>1. Queue'
        BY <1>9, <1>13 DEF Queue
    <2>2. Revocations'
        BY <1>1, <1>9, <1>11, <1>13, RevocationsSame DEF RevokesAsBefore
    <2> QED
        BY <1>1, <1>9, <1>10, <2>1, <2>2, StillKeeps DEF Typed
<1> QED
    BY <1>12, <1>13

\* The code is shown, or the gateway has been stopped.
LEMMA BootstrappedStep ==
    ASSUME IInv, NEW c \in Slots, NEW ok \in BOOLEAN, Bootstrapped(c, ok) PROVE IInv'
<1> USE DEF IInv
<1> DEFINE g == calls[c].gate
           gate == [gw[g] EXCEPT !.boot = ok /\ gw[g].phase = "up"]
           l == [gw EXCEPT ![g] = gate]
           w == [Now EXCEPT !.gw[g].boot = ok /\ gw[g].phase = "up"]
           y == Done(w, c)
<1>1. /\ Set(y) /\ UNCHANGED <<disk, issued, restarts>> /\ calls[c].pc = "bootstrap"
    BY DEF Bootstrapped, At
<1>2. gw \in [Gateways -> Gateway] /\ g \in Gateways /\ calls[c].kind = "begin"
    BY <1>1, NowFacts DEF World, Shapes, Staged, Starting
<1>3. gate \in Gateway /\ gate.phase = gw[g].phase /\ gate.proxies = gw[g].proxies
    BY <1>2 DEF Gateway
<1>4. w = [Now EXCEPT !.gw = l]
    BY <1>2, NowFacts
<1> HIDE DEF gate
<1>5. /\ l \in [Gateways -> Gateway]
      /\ \A h \in Gateways : l[h].phase = gw[h].phase /\ l[h].proxies = gw[h].proxies
    BY <1>2, <1>3
<1> HIDE DEF l, w
<1>6. /\ w \in World /\ w.r = r /\ w.gw = l /\ w.calls = calls /\ w.writes = writes
      /\ w.app = app /\ w.gone = gone
    BY <1>4, <1>5, NowFacts DEF World
<1>7. /\ y \in World /\ y.r = r /\ y.gw = l /\ y.writes = writes
      /\ y.app = app /\ y.gone = gone
      /\ y.calls[c] = Idle /\ \A d \in Slots \ {c} : y.calls[d] = calls[d]
    BY <1>6, DoneFacts
<1>8. /\ Now' \in World /\ r' = r /\ gw' = l /\ calls' = y.calls /\ writes' = writes
      /\ app' = app /\ gone' = gone
    BY <1>1, <1>7, StepFacts
<1> HIDE DEF y
<1>9. SteadyGates /\ ServesKnown
    BY <1>5, <1>8 DEF SteadyGates, Gates, ServesKnown
<1>10. Ends(c) /\ Rest
    BY <1>1, <1>7, <1>8, <1>9 DEF Ends, Rest
<1>11. OnlyMoves(c) /\ calls'[c].kind = "none"
    BY <1>7, <1>8, IdleFacts DEF OnlyMoves
<1>12. Apart' /\ Onward
    BY <1>8, <1>11, ApartSame DEF Onward, Alive
<1> QED
    BY <1>1, <1>2, <1>8, <1>9, <1>10, <1>12, EndsKeeps

---------------------------------------------------------------------------
(* stop() begins                                                           *)

\* There is no gateway to stop.
StopsAtOnce(c) ==
    /\ calls'[c] = Idle /\ \A d \in Slots \ {c} : calls'[d] = Overtaken(calls[d])
    /\ UNCHANGED gw /\ r.gateway = None /\ r'.gateway = None /\ r'.status # "running"

LEMMA StopsAtOnceFacts ==
    ASSUME IInv, NEW c \in Slots, StopsAtOnce(c), calls[c].pc # "listen", Onward,
           Alive' => \A d \in Slots \ {c} : calls[d].pc # "stopping"
    PROVE  OnlyMoves(c) /\ Shapes' /\ Gates' /\ Truth'
<1> USE DEF IInv
<1>1. OnlyMoves(c)
    BY DEF StopsAtOnce, OnlyMoves
<1>2. /\ calls'[c].kind = "none" /\ calls'[c].pc = "idle" /\ calls'[c].fresh = FALSE
      /\ Staged(calls'[c])
    BY IdleFacts DEF StopsAtOnce
<1>3. Shapes'
    BY <1>1, <1>2, ShapesKept
<1>4. SteadyGates
    BY DEF StopsAtOnce, SteadyGates, Gates
<1>5. Gates'
    BY <1>1, <1>2, <1>4, GatesSteady, ReliesOnNothing
<1>6. \A d \in Slots : Alive' => calls'[d].pc # "stopping"
    BY <1>1, <1>2, OthersStay DEF SameBut
<1>7. Truth'
    BY <1>6, TruthDropped DEF StopsAtOnce
<1> QED
    BY <1>1, <1>3, <1>5, <1>7

\* The gateway of the service is told to stop.
StopsGateway(c) ==
    /\ calls'[c].pc = "stopping" /\ calls'[c].fresh
    /\ \A d \in Slots \ {c} : calls'[d] = Overtaken(calls[d])
    /\ Silenced(gw', gw, r.gateway)
    /\ r.gateway # None /\ r'.gateway = r.gateway /\ r'.status = r.status

LEMMA OvertakenIsNot ==
    ASSUME Typed, NEW d \in Slots PROVE Overtaken(calls[d]).fresh = FALSE
BY NowFacts DEF World, Overtaken, Call

LEMMA StopsGatewayFacts ==
    ASSUME IInv, NEW c \in Slots, StopsGateway(c), calls[c].pc # "listen",
           calls'[c].kind = "quit" <=> c = Quit, Staged(calls'[c]),
           Alive' => \A d \in Slots \ {c} : calls[d].pc # "stopping"
    PROVE  OnlyMoves(c) /\ Shapes' /\ Gates' /\ Truth'
<1> USE DEF IInv
<1>1. OnlyMoves(c)
    BY DEF StopsGateway, OnlyMoves
<1>2. \A d \in Slots \ {c} : SameBut(d) /\ calls'[d].fresh = FALSE
    BY <1>1, OthersStay, OvertakenIsNot DEF StopsGateway
<1>3. Shapes'
    BY <1>1, ShapesKept DEF StopsGateway, Staged
<1>4. Silent' /\ r.gateway \in Gateways
    BY GatewayTyped DEF Silent, StopsGateway, Silenced
<1>5. \A h \in Gateways : gw'[h].phase # "up" /\ gw'[h].proxies = {}
    BY <1>4 DEF Gates, StopsGateway, Silenced
<1>6. Gates'
    <2>1. Relies(c)'
        BY <1>2, <1>4 DEF Relies, StopsGateway, Staged
    <2>2. ASSUME NEW d \in Slots \ {c} PROVE Relies(d)'
        <3>1. Relies(d) /\ SameBut(d) /\ calls'[d].fresh = FALSE
            BY <1>2 DEF Gates
        <3>2. calls'[d].pc = "listen" => gw'[calls'[d].gate].phase # "up"
            BY <1>3, <1>5 DEF Shapes
        <3> QED
            BY <1>4, <3>1, <3>2 DEF Relies, SameBut, StopsGateway
    <2>3. ASSUME NEW h \in Gateways, gw'[h].phase = "listening"
          PROVE  \E d \in Slots : calls'[d].pc = "listen" /\ calls'[d].gate = h
        <3>1. gw[h].phase = "listening"
            BY <2>3 DEF StopsGateway, Silenced
        <3>2. PICK d \in Slots : calls[d].pc = "listen" /\ calls[d].gate = h
            BY <3>1 DEF Gates
        <3> QED
            BY <1>2, <3>2 DEF SameBut
    <2> QED
        BY <1>5, <2>1, <2>2, <2>3 DEF Gates
<1>7. Truth'
    <2>1. \A d \in Slots \ {c} : Alive' => calls'[d].pc # "stopping"
        BY <1>2 DEF SameBut
    <2> QED
        BY <1>4, <1>5, <2>1 DEF Truth, StopsGateway
<1> QED
    BY <1>1, <1>3, <1>6, <1>7

---------------------------------------------------------------------------
(* A write of the configuration ends                                       *)

Popped == [Now EXCEPT !.writes = Tail(@)]

LEMMA PoppedFacts ==
    ASSUME Typed, writes # <<>>
    PROVE  /\ Popped \in World /\ Popped.r = r /\ Popped.gw = gw /\ Popped.calls = calls
           /\ Popped.writes = Tail(writes) /\ Popped.app = app /\ Popped.gone = gone
           /\ Head(writes) \in Write
<1> DEFINE q == Tail(writes)
<1>1. q \in Seq(Write) /\ Head(writes) \in Write
    BY NowFacts DEF World
<1>2. Popped = [Now EXCEPT !.writes = q]
    BY NowFacts DEF Popped
<1> HIDE DEF q
<1>3. /\ Popped \in World /\ Popped.r = r /\ Popped.gw = gw /\ Popped.calls = calls
      /\ Popped.writes = q /\ Popped.app = app /\ Popped.gone = gone
    BY <1>1, <1>2, NowFacts DEF World
<1> QED
    BY <1>1, <1>3 DEF q

\* A write of c is at the head of updateTail.
AtHead(c) == writes # <<>> /\ Head(writes).call = c

\* What each end of a write does to the disk, for whom is gone since.
Writes(ok) ==
    /\ writes' = Tail(writes) /\ disk' = IF ok THEN Head(writes).config ELSE disk
    /\ UNCHANGED <<issued, restarts>> /\ r'.devices = r.devices

LEMMA WritesTyped == ASSUME Typed, writes # <<>>, NEW ok, Writes(ok), Now' \in World PROVE Typed'
BY PoppedFacts DEF Typed, Writes, Write

LEMMA HeadSaves ==
    ASSUME IInv, NEW c \in Slots, AtHead(c)
    PROVE  /\ calls[c].pc = "saving"
           /\ calls[c].kind \in {"enable", "disable", "ports", "revokeAll", "revoke", "pair"}
           /\ calls[c].kind = "disable" =>
                  \A d \in Slots : calls[d].kind = "enable" => calls[d].pc # "saving"
<1> USE DEF IInv
<1>1. writes \in Seq(Write) /\ 1 \in DOMAIN writes /\ writes[1].call = c
    BY NowFacts DEF World, AtHead
<1>2. calls[c].pc = "saving"
    BY <1>1, Distinct DEF Queue
<1>3. calls[c].kind \in {"enable", "disable", "ports", "revokeAll", "revoke", "pair"}
    BY <1>2 DEF Shapes, Staged, Starting
<1>4. ASSUME calls[c].kind = "disable", NEW d \in Slots, calls[d].kind = "enable",
             calls[d].pc = "saving"
      PROVE  FALSE
    <2>1. PICK i \in DOMAIN writes : writes[i].call = d
        BY <1>4 DEF Queue
    <2>2. i < 1
        BY <1>1, <1>4, <2>1, Distinct DEF Queue
    <2>3. i \in Nat /\ 1 <= i
        BY <1>1
    <2> QED
        BY <2>2, <2>3
<1> QED
    BY <1>2, <1>3, <1>4

\* The call ends with the write.
LEMMA WriteEnds ==
    ASSUME IInv, NEW c \in Slots, AtHead(c), NEW ok \in BOOLEAN, Writes(ok), Ends(c),
           UNCHANGED app, r'.status = r.status, ServesKnown, Now' \in World,
           Alive => calls[c].kind # "disable",
           \/ gone' = gone
           \/ /\ ok /\ calls[c].kind = "revoke" /\ gone' = gone \cup calls[c].devices
              /\ \A g \in Gateways : gw'[g].proxies \cap calls[c].devices = {}
    PROVE  IInv'
<1>1. OnlyMoves(c) /\ calls'[c].kind = "none" /\ calls'[c].pc = "idle"
    BY IdleFacts DEF OnlyMoves, Ends
<1>2. calls[c].pc = "saving"
    BY HeadSaves
<1>3. Apart'
    BY <1>1, ApartSame DEF IInv
<1>4. Shapes' /\ Gates' /\ Truth' /\ ShutOff'
    BY <1>2, EndsFacts DEF Onward, Alive
<1>5. Queue'
    BY <1>1, QueuePopped DEF IInv, AtHead, Writes
<1>6. Revocations'
    <2>1. \A d \in Slots : RevokesAsBefore(d)
        BY <1>1 DEF Ends, RevokesAsBefore
    <2>2. CASE gone' = gone
        <3>1. gone' = gone \cup {}
            BY <2>2
        <3> QED
            BY <2>1, <3>1, RevocationsPopped DEF IInv, AtHead, Writes
    <2>3. CASE /\ ok /\ calls[c].kind = "revoke" /\ gone' = gone \cup calls[c].devices
               /\ \A g \in Gateways : gw'[g].proxies \cap calls[c].devices = {}
        BY <2>1, <2>3, RevocationsPopped DEF IInv, AtHead, Writes
    <2> QED
        BY <2>2, <2>3
<1>7. Typed'
    BY WritesTyped DEF IInv, AtHead
<1> QED
    BY <1>3, <1>4, <1>5, <1>6, <1>7 DEF IInv

LEMMA WrittenFacts ==
    ASSUME Typed, NEW ok \in BOOLEAN, Written(ok)
    PROVE  /\ writes # <<>> /\ UNCHANGED <<issued, restarts>>
           /\ disk' = IF ok THEN Head(writes).config ELSE disk
           /\ Set(IF Head(writes).call = None THEN Popped
                  ELSE IF ok THEN Saved(Popped, Head(writes).call)
                  ELSE Done(Popped, Head(writes).call))
BY DEF Written, Popped

LEMMA WrittenForNobody ==
    ASSUME IInv, NEW ok \in BOOLEAN, Written(ok), Head(writes).call = None
    PROVE  IInv'
<1> USE DEF IInv
<1>1. /\ writes # <<>> /\ UNCHANGED <<issued, restarts>> /\ Set(Popped)
      /\ disk' = IF ok THEN Head(writes).config ELSE disk
    BY WrittenFacts
<1>2. /\ Now' \in World /\ r' = r /\ gw' = gw /\ calls' = calls /\ writes' = Tail(writes)
      /\ app' = app /\ gone' = gone
    BY <1>1, PoppedFacts, StepFacts
<1>3. SteadyGates
    BY <1>2 DEF SteadyGates, Gates
<1>4. Queue'
    BY <1>1, <1>2, QueuePoppedNobody
<1>5. Revocations'
    <2>1. gone' = gone \cup {} /\ ServesKnown /\ \A d \in Slots : RevokesAsBefore(d)
        BY <1>2 DEF ServesKnown, RevokesAsBefore
    <2> QED
        BY <1>1, <1>2, <2>1, RevocationsPopped
<1>6. Typed'
    BY <1>1, <1>2, WritesTyped DEF Writes
<1> QED
    BY <1>1, <1>2, <1>3, <1>4, <1>5, <1>6, StillKeeps DEF Typed

\* The step Done(Popped, c).
LEMMA WriteIsDone ==
    ASSUME IInv, NEW c \in Slots, AtHead(c), NEW ok \in BOOLEAN, Set(Done(Popped, c)),
           UNCHANGED <<issued, restarts>>, disk' = IF ok THEN Head(writes).config ELSE disk,
           calls[c].kind # "disable"
    PROVE  IInv'
<1> DEFINE y == Done(Popped, c)
<1>1. writes # <<>>
    BY DEF AtHead
<1>2. /\ y \in World /\ y.r = r /\ y.gw = gw /\ y.writes = Tail(writes) /\ y.gone = gone
      /\ y.app = app
      /\ y.calls[c] = Idle /\ \A d \in Slots \ {c} : y.calls[d] = calls[d]
    BY <1>1, PoppedFacts, DoneFacts DEF IInv
<1>3. /\ Now' \in World /\ r' = y.r /\ gw' = y.gw /\ calls' = y.calls /\ writes' = y.writes
      /\ app' = y.app /\ gone' = y.gone
    BY <1>2, StepFacts
<1> HIDE DEF y
<1>4. SteadyGates
    BY <1>2, <1>3 DEF IInv, Gates, SteadyGates
<1>5. Ends(c) /\ Writes(ok)
    BY <1>2, <1>3, <1>4 DEF Ends, Writes
<1> QED
    BY <1>2, <1>3, <1>5, WriteEnds, NothingServed

\* The call goes on from the head of updateTail.
SavedAtHead(c) ==
    /\ AtHead(c) /\ Set(Saved(Popped, c)) /\ UNCHANGED <<issued, restarts>>
    /\ disk' = Head(writes).config

LEMMA RevokedStep ==
    ASSUME IInv, NEW c \in Slots, SavedAtHead(c), calls[c].kind = "revoke" PROVE IInv'
<1> DEFINE D == calls[c].devices
           w == Closed(Popped, D)
           z == Done(w, c)
           y == [z EXCEPT !.gone = gone \cup D]
<1>1. writes # <<>> /\ AtHead(c)
    BY DEF SavedAtHead, AtHead
<1>2. /\ Popped \in World /\ Popped.r = r /\ Popped.gw = gw /\ Popped.calls = calls
      /\ Popped.writes = Tail(writes) /\ Popped.app = app /\ Popped.gone = gone
    BY <1>1, PoppedFacts DEF IInv
<1>3. /\ w \in World /\ w.r = r /\ w.app = app /\ w.gone = gone
      /\ w.writes = Tail(writes) /\ w.calls = calls
      /\ \A g \in Gateways :
             /\ w.gw[g].phase = gw[g].phase
             /\ w.gw[g].proxies \subseteq gw[g].proxies
             /\ g = r.gateway => w.gw[g].proxies \cap D = {}
    <2> HIDE DEF D
    <2>1. /\ w \in World /\ w.r = Popped.r /\ w.app = Popped.app /\ w.gone = Popped.gone
          /\ w.writes = Popped.writes /\ w.calls = Popped.calls
          /\ \A g \in Gateways :
                 /\ w.gw[g].phase = Popped.gw[g].phase
                 /\ w.gw[g].proxies \subseteq Popped.gw[g].proxies
                 /\ g = Popped.r.gateway => w.gw[g].proxies \cap D = {}
        BY <1>2, ClosedFacts
    <2> HIDE DEF w
    <2> QED
        BY <1>2, <2>1
<1> HIDE DEF w
<1>4. /\ z \in World /\ z.r = r /\ z.app = app /\ z.gone = gone
      /\ z.writes = Tail(writes) /\ z.gw = w.gw
      /\ z.calls[c] = Idle /\ \A d \in Slots \ {c} : z.calls[d] = calls[d]
    BY <1>3, DoneFacts
<1>5. Set(y)
    <2>1. Saved(Popped, c) = [Done(Closed(Popped, D), c) EXCEPT !.gone = @ \cup D]
        BY <1>2 DEF Saved
    <2>2. Saved(Popped, c) = y
        BY <1>4, <2>1 DEF w
    <2> QED
        BY <2>2 DEF SavedAtHead
<1> HIDE DEF z
<1>6. D \subseteq Devices
    BY NowFacts DEF IInv, World, Call
<1>7. /\ y \in World /\ y.r = r /\ y.app = app /\ y.gone = gone \cup D
      /\ y.writes = Tail(writes) /\ y.gw = w.gw /\ y.calls = z.calls
    <2>1. gone \cup D \in SUBSET Devices
        BY <1>6, NowFacts DEF IInv, World
    <2> QED
        BY <1>4, <2>1 DEF World
<1>8. /\ Now' \in World /\ r' = r /\ gw' = w.gw /\ calls' = z.calls /\ writes' = Tail(writes)
      /\ app' = app /\ gone' = gone \cup D
    BY <1>5, <1>7, StepFacts
<1> HIDE DEF y
<1>9. SteadyGates /\ ServesKnown
    BY <1>3, <1>8 DEF IInv, Gates, SteadyGates, ServesKnown
<1>10. Ends(c) /\ Writes(TRUE)
    BY <1>4, <1>8, <1>9 DEF Ends, Writes, SavedAtHead
<1>11. \A g \in Gateways : gw'[g].proxies \cap D = {}
    <2>1. \A g \in Gateways : g # r.gateway => gw[g].proxies = {}
        BY DEF IInv, Gates
    <2> QED
        BY <1>3, <1>8, <2>1
<1> QED
    BY <1>1, <1>8, <1>9, <1>10, <1>11, WriteEnds

LEMMA AllRevokedStep ==
    ASSUME IInv, NEW c \in Slots, SavedAtHead(c), calls[c].kind = "revokeAll" PROVE IInv'
<1> USE DEF IInv
<1> DEFINE D == calls[c].devices
           call == [calls[c] EXCEPT !.pc = "clearing"]
           k == [calls EXCEPT ![c] = call]
           y == [Popped EXCEPT !.calls = k, !.gone = gone \cup D]
<1>1. writes # <<>> /\ AtHead(c) /\ calls[c].pc = "saving"
    BY HeadSaves DEF SavedAtHead, AtHead
<1>2. /\ Popped \in World /\ Popped.r = r /\ Popped.gw = gw /\ Popped.calls = calls
      /\ Popped.writes = Tail(writes) /\ Popped.app = app /\ Popped.gone = gone
    BY <1>1, PoppedFacts
<1>3. calls \in [Slots -> Call] /\ D \subseteq Devices /\ gone \cup D \in SUBSET Devices
    BY NowFacts DEF World, Call
<1>4. Set(y)
    <2>1. Saved(Popped, c) = [Popped EXCEPT !.calls[c].pc = "clearing", !.gone = @ \cup D]
        BY <1>2 DEF Saved
    <2>2. Saved(Popped, c) = y
        BY <1>2, <2>1 DEF World
    <2> QED
        BY <2>2 DEF SavedAtHead
<1>5. /\ call \in Call /\ call.kind = "revokeAll" /\ call.pc = "clearing"
      /\ call.fresh = calls[c].fresh /\ call.devices = D
    BY <1>3 DEF Call, Awaits
<1> HIDE DEF call
<1>6. k \in [Slots -> Call] /\ k[c] = call /\ \A d \in Slots \ {c} : k[d] = calls[d]
    BY <1>3, <1>5
<1> HIDE DEF k
<1>7. /\ y \in World /\ y.r = r /\ y.app = app /\ y.gone = gone \cup D
      /\ y.writes = Tail(writes) /\ y.gw = gw /\ y.calls = k
    BY <1>2, <1>3, <1>6 DEF World
<1>8. /\ Now' \in World /\ r' = r /\ gw' = gw /\ calls' = k /\ writes' = Tail(writes)
      /\ app' = app /\ gone' = gone \cup D
    BY <1>4, <1>7, StepFacts
<1> HIDE DEF y
<1>9. /\ OnlyMoves(c) /\ calls'[c].kind = "revokeAll" /\ calls'[c].pc = "clearing"
      /\ calls'[c].fresh = calls[c].fresh /\ calls'[c].devices = D
    BY <1>5, <1>6, <1>8 DEF OnlyMoves
<1>10. SteadyGates
    BY <1>8 DEF SteadyGates, Gates
<1>11. Shapes'
    BY <1>9, ShapesKept DEF Staged, Shapes
<1>12. Apart'
    BY <1>8, <1>9, ApartSame
<1>13. Queue'
    BY <1>1, <1>8, <1>9, QueuePopped DEF AtHead
<1>14. Gates'
    <2>1. Onward
        BY <1>8 DEF Onward, Alive
    <2> QED
        BY <1>1, <1>9, <1>10, <2>1, GatesSteady, ReliesOnNothing
<1>15. Truth'
    <2>1. \A d \in Slots : Alive' /\ calls'[d].pc = "stopping" => calls'[d].fresh
        BY <1>6, <1>8, <1>9 DEF Truth, Alive
    <2> QED
        BY <1>1, <1>8, <1>9, <1>10, <2>1, TruthSteady DEF Onward, Alive
<1>16. ShutOff'
    <2>1. ~Coming(c)' /\ calls'[c].pc # "closing"
        BY <1>9 DEF Coming, Starting
    <2> QED
        BY <1>8, <1>9, <2>1, ShutOffSteady DEF Onward, Alive
<1>17. Revocations'
    <2>1. ServesKnown /\ \A d \in Slots : RevokesAsBefore(d)
        BY <1>6, <1>8, <1>9 DEF ServesKnown, RevokesAsBefore
    <2>2. \A g \in Gateways : gw'[g].proxies \cap D = {}
        BY <1>8 DEF Revocations, Revoking
    <2> QED
        BY <1>8, <2>1, <2>2, RevocationsPopped DEF SavedAtHead, AtHead
<1>18. Typed'
    BY <1>1, <1>8, WritesTyped DEF Writes, SavedAtHead
<1> QED
    BY <1>11, <1>12, <1>13, <1>14, <1>15, <1>16, <1>17, <1>18

LEMMA EnabledStep ==
    ASSUME IInv, NEW c \in Slots, SavedAtHead(c), calls[c].kind = "enable" PROVE IInv'
<1> USE DEF IInv
<1> DEFINE y == StartGateway(Popped, c)
<1>1. writes # <<>> /\ AtHead(c) /\ calls[c].pc = "saving"
    BY HeadSaves DEF SavedAtHead, AtHead
<1>2. /\ Popped \in World /\ Popped.r = r /\ Popped.gw = gw /\ Popped.calls = calls
      /\ Popped.writes = Tail(writes) /\ Popped.app = app /\ Popped.gone = gone
    BY <1>1, PoppedFacts
<1>3. Set(y)
    BY <1>2 DEF Saved, SavedAtHead
<1>4. /\ y \in World /\ y.gw = gw /\ y.writes = Tail(writes) /\ y.gone = gone /\ y.app = app
      /\ Keeps(y.r, r) /\ y.r.gateway = r.gateway /\ y.r.status = "starting"
      /\ GoesOn(y.calls[c], calls[c], "certs")
      /\ \A d \in Slots \ {c} : y.calls[d] = calls[d]
    BY <1>2, StartGatewayFacts
<1>5. /\ Now' \in World /\ r' = y.r /\ gw' = gw /\ calls' = y.calls /\ writes' = Tail(writes)
      /\ app' = app /\ gone' = gone
    BY <1>3, <1>4, StepFacts
<1> HIDE DEF y
<1>6. r.gateway = None /\ Starter(c) /\ Coming(c)
    BY <1>1 DEF Gates, Relies, Starter, Coming
<1>7. Starts(c) /\ r'.enabled = r.enabled /\ r'.devices = r.devices
    BY <1>4, <1>5, <1>6 DEF Starts, Keeps
<1>8. /\ OnlyMoves(c) /\ calls'[c].kind = "enable" /\ calls'[c].pc = "certs"
      /\ calls'[c].devices = calls[c].devices
    BY <1>4, <1>5 DEF OnlyMoves, GoesOn
<1>9. Shapes' /\ Gates' /\ Truth' /\ ShutOff'
    <2>1. \A d \in Slots \ {c} : calls[d].pc = "stopping" => ~calls[d].fresh
        BY <1>6 DEF Gates, Relies
    <2> QED
        BY <1>1, <1>5, <1>6, <1>7, <2>1, StartsFacts DEF Silent, Onward, Alive
<1>10. Apart'
    BY <1>5, <1>8, ApartSame
<1>11. Queue'
    BY <1>1, <1>5, <1>8, QueuePopped DEF AtHead
<1>12. Revocations'
    <2>1. ServesKnown /\ (\A d \in Slots : RevokesAsBefore(d)) /\ gone' = gone \cup {}
        BY <1>4, <1>5, <1>8 DEF ServesKnown, RevokesAsBefore
    <2> QED
        BY <1>5, <1>7, <2>1, RevocationsPopped DEF SavedAtHead, AtHead
<1>13. Typed'
    BY <1>1, <1>5, <1>7, WritesTyped DEF Writes, SavedAtHead
<1> QED
    BY <1>9, <1>10, <1>11, <1>12, <1>13

\* The write of disable() has ended: no start is under way that has not been
\* overtaken, and none follows.
LEMMA DisabledLast ==
    ASSUME IInv, NEW c \in Slots, AtHead(c), calls[c].kind = "disable",
           \A d \in Slots \ {c} : SameBut(d) /\ calls'[d].fresh = FALSE
    PROVE  /\ \A d \in Slots \ {c} : ~Coming(d)' /\ calls'[d].pc # "closing"
           /\ Alive => \A d \in Slots \ {c} : calls[d].pc # "stopping"
<1> USE DEF IInv
<1>1. \A d \in Slots : calls[d].kind = "enable" => calls[d].pc # "saving"
    BY HeadSaves
<1>2. \A d \in Slots \ {c} : ~Coming(d)'
    BY <1>1 DEF Coming, SameBut
<1>3. \A d \in Slots \ {c} : calls[d].kind \notin {"disable", "ports", "revokeAll"}
    BY DEF Apart
<1>4. \A d \in Slots \ {c} : calls'[d].pc # "closing"
    BY <1>3 DEF Shapes, Staged, SameBut, Starting
<1>5. Alive => \A d \in Slots \ {c} : calls[d].pc # "stopping"
    BY <1>3 DEF Shapes, Staged, Starting, Apart, Alive
<1> QED
    BY <1>2, <1>4, <1>5

LEMMA DisabledStep ==
    ASSUME IInv, NEW c \in Slots, SavedAtHead(c), calls[c].kind = "disable",
           r.gateway = None
    PROVE  IInv'
<1> USE DEF IInv
<1> DEFINE y == Stop(Popped, c)
<1>1. writes # <<>> /\ AtHead(c) /\ calls[c].pc = "saving"
    BY HeadSaves DEF SavedAtHead, AtHead
<1>2. /\ Popped \in World /\ Popped.r = r /\ Popped.gw = gw /\ Popped.calls = calls
      /\ Popped.writes = Tail(writes) /\ Popped.app = app /\ Popped.gone = gone
    BY <1>1, PoppedFacts
<1>3. Set(y)
    BY <1>2 DEF Saved, SavedAtHead
<1>4. /\ y \in World /\ y.writes = Tail(writes) /\ y.gone = gone /\ y.gw = gw /\ y.app = app
      /\ \A d \in Slots \ {c} : y.calls[d] = Overtaken(calls[d])
      /\ y.calls[c] = Idle
      /\ Keeps(y.r, r) /\ y.r.gateway = None /\ y.r.status # "running"
    BY <1>2, StopAtOnce
<1>5. /\ Now' \in World /\ r' = y.r /\ gw' = gw /\ calls' = y.calls /\ writes' = Tail(writes)
      /\ app' = app /\ gone' = gone
    BY <1>3, <1>4, StepFacts
<1> HIDE DEF y
<1>6. StopsAtOnce(c) /\ OnlyMoves(c)
    BY <1>4, <1>5 DEF StopsAtOnce, OnlyMoves
<1>7. \A d \in Slots \ {c} : SameBut(d) /\ calls'[d].fresh = FALSE
    BY <1>6, OthersStay, OvertakenIsNot DEF StopsAtOnce
<1>8. /\ \A d \in Slots \ {c} : ~Coming(d)' /\ calls'[d].pc # "closing"
      /\ Alive => \A d \in Slots \ {c} : calls[d].pc # "stopping"
    BY <1>1, <1>7, DisabledLast
<1>9. Onward
    BY <1>5 DEF Onward, Alive
<1>10. Shapes' /\ Gates' /\ Truth'
    BY <1>1, <1>6, <1>8, <1>9, StopsAtOnceFacts DEF Onward
<1>11. calls'[c].kind = "none" /\ calls'[c].pc = "idle" /\ calls'[c].fresh = FALSE
    BY <1>4, <1>5, IdleFacts
<1>12. Apart'
    BY <1>5, <1>6, <1>11, ApartSame
<1>13. Queue'
    BY <1>1, <1>5, <1>6, <1>11, QueuePopped DEF AtHead
<1>14. ShutOff'
    <2>1. \A d \in Slots : ~Coming(d)' /\ calls'[d].pc # "closing"
        BY <1>8, <1>11 DEF Coming, Starting
    <2> QED
        BY <1>4, <1>5, <2>1 DEF ShutOff
<1>15. Revocations'
    <2>1. ServesKnown /\ (\A d \in Slots : RevokesAsBefore(d)) /\ gone' = gone \cup {}
        BY <1>5, <1>7, <1>11 DEF ServesKnown, RevokesAsBefore, SameBut
    <2> QED
        BY <1>4, <1>5, <2>1, RevocationsPopped DEF SavedAtHead, AtHead, Keeps
<1>16. Typed'
    BY <1>1, <1>4, <1>5, WritesTyped DEF Writes, SavedAtHead, Keeps
<1> QED
    BY <1>10, <1>12, <1>13, <1>14, <1>15, <1>16

\* disable() and updatePorts() stop the gateway there is.
LEMMA StopWrittenStep ==
    ASSUME IInv, NEW c \in Slots, SavedAtHead(c), calls[c].kind \in {"disable", "ports"},
           r.gateway # None
    PROVE  IInv'
<1> USE DEF IInv
<1> DEFINE y == Stop(Popped, c)
<1>1. writes # <<>> /\ AtHead(c) /\ calls[c].pc = "saving"
    BY HeadSaves DEF SavedAtHead, AtHead
<1>2. /\ Popped \in World /\ Popped.r = r /\ Popped.gw = gw /\ Popped.calls = calls
      /\ Popped.writes = Tail(writes) /\ Popped.app = app /\ Popped.gone = gone
    BY <1>1, PoppedFacts
<1>3. Set(y)
    BY <1>2 DEF Saved, SavedAtHead
<1>4. /\ y \in World /\ y.writes = Tail(writes) /\ y.gone = gone /\ y.app = app
      /\ Keeps(y.r, r) /\ y.r.gateway = r.gateway /\ y.r.status = r.status
      /\ Silenced(y.gw, gw, r.gateway)
      /\ \A d \in Slots \ {c} : y.calls[d] = Overtaken(calls[d])
      /\ GoesOn(y.calls[c], calls[c], "stopping")
    BY <1>2, StopBegins
<1>5. /\ Now' \in World /\ r' = y.r /\ gw' = y.gw /\ calls' = y.calls /\ writes' = Tail(writes)
      /\ app' = app /\ gone' = gone
    BY <1>3, <1>4, StepFacts
<1> HIDE DEF y
<1>6. StopsGateway(c) /\ OnlyMoves(c)
    BY <1>4, <1>5 DEF StopsGateway, OnlyMoves, GoesOn
<1>7. \A d \in Slots \ {c} : SameBut(d) /\ calls'[d].fresh = FALSE
    BY <1>6, OthersStay, OvertakenIsNot DEF StopsGateway
<1>8. Alive => \A d \in Slots \ {c} : calls[d].pc # "stopping"
    BY <1>1, <1>7, DisabledLast, AloneChanging
<1>9. Onward
    BY <1>5 DEF Onward, Alive
<1>10. /\ calls'[c].kind = calls[c].kind /\ calls'[c].pc = "stopping"
       /\ calls'[c].devices = calls[c].devices
    BY <1>4, <1>5 DEF GoesOn
<1>11. Shapes' /\ Gates' /\ Truth'
    <2>1. c # Quit /\ calls'[c].kind # "quit" /\ Staged(calls'[c])
        BY <1>10 DEF Shapes, Staged
    <2> QED
        BY <1>1, <1>6, <1>8, <1>9, <2>1, StopsGatewayFacts DEF Onward
<1>12. Apart'
    BY <1>5, <1>6, <1>10, ApartSame
<1>13. Queue'
    BY <1>1, <1>5, <1>6, <1>10, QueuePopped DEF AtHead
<1>14. ShutOff'
    <2>1. CASE calls[c].kind = "disable"
        <3>1. \A d \in Slots \ {c} : ~Coming(d)' /\ calls'[d].pc # "closing"
            BY <1>1, <1>7, <2>1, DisabledLast
        <3>2. ~Coming(c)' /\ calls'[c].kind = "disable"
            BY <1>10, <2>1 DEF Coming, Starting
        <3> QED
            BY <1>10, <3>1, <3>2 DEF ShutOff
    <2>2. CASE calls[c].kind = "ports"
        <3>1. r.enabled
            BY <2>2, AloneChanging
        <3> QED
            BY <1>4, <1>5, <3>1 DEF ShutOff, Keeps
    <2> QED
        BY <2>1, <2>2
<1>15. Revocations'
    <2>1. ServesKnown /\ (\A d \in Slots : RevokesAsBefore(d)) /\ gone' = gone \cup {}
        BY <1>4, <1>5, <1>7, <1>10 DEF ServesKnown, RevokesAsBefore, SameBut, Silenced
    <2> QED
        BY <1>4, <1>5, <2>1, RevocationsPopped DEF SavedAtHead, AtHead, Keeps
<1>16. Typed'
    BY <1>1, <1>4, <1>5, WritesTyped DEF Writes, SavedAtHead, Keeps
<1> QED
    BY <1>11, <1>12, <1>13, <1>14, <1>15, <1>16

LEMMA WrittenStep ==
    ASSUME IInv, NEW ok \in BOOLEAN, Written(ok), WritesDisable => ok PROVE IInv'
<1> DEFINE c == Head(writes).call
<1> USE DEF IInv
<1>1. /\ writes # <<>> /\ UNCHANGED <<issued, restarts>>
      /\ disk' = IF ok THEN Head(writes).config ELSE disk
      /\ Set(IF c = None THEN Popped ELSE IF ok THEN Saved(Popped, c) ELSE Done(Popped, c))
    BY WrittenFacts
<1>2. CASE c = None
    BY <1>2, WrittenForNobody
<1>3. CASE c # None
    <2>1. c \in Slots /\ AtHead(c)
        BY <1>1, <1>3, PoppedFacts DEF Write, AtHead
    <2> HIDE DEF c
    <2>2. CASE ~ok
        <3>1. calls[c].kind # "disable"
            BY <1>1, <1>3, <2>2 DEF WritesDisable, c
        <3> QED
            BY <1>1, <1>3, <2>1, <2>2, <3>1, WriteIsDone
    <2>3. CASE ok
        <3>1. SavedAtHead(c)
            BY <1>1, <1>3, <2>1, <2>3 DEF SavedAtHead
        <3>2. calls[c].kind \in {"enable", "disable", "ports", "revokeAll", "revoke", "pair"}
            BY <2>1, HeadSaves
        <3>3. CASE calls[c].kind = "pair" \/ (calls[c].kind = "ports" /\ r.gateway = None)
            <4>1. Popped.calls = calls /\ Popped.r = r
                BY <1>1, PoppedFacts
            <4>2. Set(Done(Popped, c))
                BY <3>1, <3>3, <4>1 DEF Saved, SavedAtHead
            <4> QED
                BY <1>1, <2>1, <2>3, <3>3, <4>2, WriteIsDone
        <3> QED
            BY <2>1, <3>1, <3>2, <3>3, EnabledStep, DisabledStep, StopWrittenStep, RevokedStep,
               AllRevokedStep
    <2> QED
        BY <2>2, <2>3
<1> QED
    BY <1>2, <1>3
---------------------------------------------------------------------------
(* An operation of the user begins, and writes the configuration           *)

LEMMA CalledFacts ==
    ASSUME Typed, NEW c \in Slots, NEW kind, kind \in Kinds, NEW D, D \subseteq Devices,
           NEW y, y = Called(c, kind, D)
    PROVE  /\ y \in World /\ y.r = r /\ y.gw = gw /\ y.writes = writes /\ y.app = app
           /\ y.gone = gone
           /\ y.calls[c].kind = kind /\ y.calls[c].devices = D
           /\ ~y.calls[c].fresh /\ y.calls[c].pc = "idle"
           /\ \A d \in Slots \ {c} : y.calls[d] = calls[d]
<1> DEFINE call == [Idle EXCEPT !.kind = kind, !.devices = D]
           k == [calls EXCEPT ![c] = call]
<1>1. /\ call \in Call /\ call.kind = kind /\ call.devices = D /\ call.fresh = FALSE
      /\ call.pc = "idle"
    BY IdleIsCall DEF Idle, Call
<1>2. y = [Now EXCEPT !.calls = k]
    BY NowFacts DEF Called
<1> HIDE DEF call
<1>3. k \in [Slots -> Call] /\ k[c] = call /\ \A d \in Slots \ {c} : k[d] = calls[d]
    BY <1>1, NowFacts DEF World
<1> HIDE DEF k
<1> QED
    BY <1>1, <1>2, <1>3, NowFacts DEF World

\* The fields of the service become s.
LEMMA FieldsFacts ==
    ASSUME NEW w \in World, NEW s \in Fields, NEW y, y = [w EXCEPT !.r = s]
    PROVE  /\ y \in World /\ y.r = s /\ y.gw = w.gw /\ y.writes = w.writes /\ y.app = w.app
           /\ y.gone = w.gone /\ y.calls = w.calls
BY DEF World

\* The call c begins to write what the service knows then.
Begun(c) ==
    /\ calls[c].kind = "none" /\ OnlyMoves(c)
    /\ calls'[c].pc = "saving" /\ calls'[c].fresh = FALSE
    /\ r'.gateway = r.gateway /\ r'.status = r.status /\ app' = app /\ gone' = gone
    /\ disk' = disk /\ restarts' = restarts
    /\ \A g \in Gateways : /\ gw'[g].phase = gw[g].phase
                           /\ gw'[g].proxies \subseteq gw[g].proxies
    /\ \E e \in Write : /\ e.call = c /\ e.config.devices = r'.devices
                        /\ writes' = Append(writes, e)

LEMMA BegunFacts ==
    ASSUME NEW c \in Slots, calls[c].kind = "none", NEW v \in World, Set(Persist(v, c)),
           disk' = disk, restarts' = restarts,
           v.r.gateway = r.gateway, v.r.status = r.status, v.writes = writes, v.app = app,
           v.gone = gone, ~v.calls[c].fresh,
           \A d \in Slots \ {c} : v.calls[d] \in {calls[d], Overtaken(calls[d])},
           \A g \in Gateways : /\ v.gw[g].phase = gw[g].phase
                               /\ v.gw[g].proxies \subseteq gw[g].proxies
    PROVE  /\ Begun(c) /\ Now' \in World /\ r' = v.r /\ gw' = v.gw
           /\ calls'[c].kind = v.calls[c].kind /\ calls'[c].devices = v.calls[c].devices
           /\ \A d \in Slots \ {c} : calls'[d] = v.calls[d]
<1> DEFINE y == Persist(v, c)
<1>1. /\ y \in World /\ y.r = v.r /\ y.gw = v.gw /\ y.app = v.app /\ y.gone = v.gone
      /\ y.calls[c] = [v.calls[c] EXCEPT !.pc = "saving"]
      /\ \A d \in Slots \ {c} : y.calls[d] = v.calls[d]
      /\ \E e \in Write : /\ e.call = c /\ e.config.devices = v.r.devices
                          /\ y.writes = Append(v.writes, e)
    BY PersistFacts
<1>2. /\ Now' \in World /\ r' = y.r /\ gw' = y.gw /\ calls' = y.calls /\ writes' = y.writes
      /\ app' = y.app /\ gone' = y.gone
    BY <1>1, StepFacts
<1> HIDE DEF y
<1>3. v.calls[c] \in Call
    BY DEF World
<1>4. /\ calls'[c].kind = v.calls[c].kind /\ calls'[c].devices = v.calls[c].devices
      /\ calls'[c].pc = "saving" /\ calls'[c].fresh = FALSE
    BY <1>1, <1>2, <1>3 DEF Call
<1> QED
    BY <1>1, <1>2, <1>4 DEF Begun, OnlyMoves

LEMMA ApartBegun ==
    ASSUME IInv, NEW c \in Calls, Begun(c),
           calls'[c].kind \in {"enable", "disable", "ports", "revoke", "revokeAll", "pair"},
           app # "starting",
           calls'[c].kind \in {"ports", "revokeAll"} => app = "up",
           calls'[c].kind \in {"enable", "ports", "revokeAll"} =>
               ~Busy({"enable", "ports", "revokeAll"}),
           calls'[c].kind = "disable" => ~Busy({"disable", "ports", "revokeAll"}),
           calls'[c].kind \in {"ports", "revokeAll"} => ~Busy({"disable"})
    PROVE  Apart'
<1> USE DEF IInv
<1>1. c \in Slots /\ \A d \in Slots \ {c} : calls'[d].kind = calls[d].kind
    BY Distinct, OthersStay DEF Begun, SameBut
<1>2. \A d \in Slots : calls[d].kind # "start"
    BY DEF Apart
<1>3. app' = app
    BY DEF Begun
<1>4. ASSUME NEW d \in Slots, NEW e \in Slots, Starter(d)', Starter(e)' PROVE d = e
    BY <1>1, <1>2, <1>4 DEF Apart, Starter, Busy
<1>5. ASSUME NEW d \in Slots, NEW e \in Slots, calls'[d].kind = "disable",
             calls'[e].kind \in {"disable", "ports", "revokeAll"}
      PROVE  d = e
    BY <1>1, <1>5 DEF Apart, Busy
<1>6. ASSUME NEW d \in Slots
      PROVE  /\ calls'[d].kind = "start" => app' = "starting"
             /\ calls'[d].kind \in {"ports", "revokeAll"} => app' = "up"
             /\ calls'[d].kind = "quit" => app' \notin {"starting", "up"}
             /\ app' = "starting" => calls'[d].kind \in {"none", "start"}
    BY <1>1, <1>3 DEF Apart
<1> QED
    BY <1>4, <1>5, <1>6 DEF Apart

LEMMA BegunKeeps ==
    ASSUME IInv, NEW c \in Calls, Begun(c), Apart', ShutOff', Now' \in World,
           calls'[c].kind \in {"enable", "disable", "ports", "revoke", "revokeAll", "pair"},
           issued \subseteq issued', issued' \subseteq Devices,
           r'.devices \subseteq r.devices \cup (issued' \ issued),
           calls'[c].kind = "enable" => r.gateway = None /\ ~Busy({"disable"}),
           calls'[c].kind \in {"revoke", "revokeAll"} => calls'[c].devices \subseteq issued \ r'.devices,
           calls'[c].kind = "revokeAll" =>
               \A g \in Gateways : gw'[g].proxies \cap calls'[c].devices = {},
           \A d \in Slots \ {c} : Alive /\ calls[d].pc = "stopping" => calls'[d].fresh
    PROVE  IInv'
<1> USE DEF IInv
<1>1. /\ c \in Slots /\ c # Quit /\ c # None /\ calls[c].pc = "idle" /\ calls[c].kind = "none"
      /\ calls'[c].pc = "saving" /\ calls'[c].fresh = FALSE /\ OnlyMoves(c)
    BY Distinct DEF Begun, Shapes, Staged
<1>2. \A d \in Slots \ {c} : SameBut(d)
    BY <1>1, OthersStay
<1>3. SteadyGates /\ Onward
    BY DEF Begun, SteadyGates, Gates, Onward, Alive
<1>4. PICK e \in Write : /\ e.call = c /\ e.config.devices = r'.devices
                         /\ writes' = Append(writes, e)
    BY DEF Begun
<1>5. Shapes'
    BY <1>1, ShapesKept DEF Staged
<1>6. Queue'
    BY <1>1, <1>4, QueuePushed DEF Busy
<1>7. Gates'
    <2>1. Relies(c)'
        BY <1>1 DEF Relies, Begun
    <2> QED
        BY <1>1, <1>3, <2>1, GatesSteady
<1>8. Truth'
    <2>1. \A d \in Slots : Alive' /\ calls'[d].pc = "stopping" => calls'[d].fresh
        BY <1>1, <1>2, <1>3 DEF Onward, SameBut
    <2> QED
        BY <1>1, <1>3, <2>1, TruthSteady DEF Begun
<1>9. Revocations'
    <2>1. ServesKnown /\ \A d \in Slots \ {c} : RevokesAsBefore(d)
        BY <1>2 DEF ServesKnown, Begun, RevokesAsBefore, SameBut
    <2>2. \A i \in DOMAIN writes : writes[i].call # c
        BY <1>1 DEF Queue
    <2> QED
        BY <1>4, <2>1, <2>2, RevocationsPushed DEF Begun
<1>10. Typed'
    BY DEF Typed, Begun
<1> QED
    BY <1>5, <1>6, <1>7, <1>8, <1>9, <1>10

LEMMA KindsFacts == {"enable", "disable", "ports", "begin", "revoke", "revokeAll", "pair", "quit"} \subseteq Kinds
BY DEF Kinds, UserKinds

LEMMA EnableStep ==
    ASSUME IInv, NEW c \in Slots, Enable(c),
           ~Busy({"enable", "disable", "ports", "revokeAll"})
    PROVE  IInv'
<1> USE DEF IInv
<1> DEFINE w == Called(c, "enable", {})
           s == [r EXCEPT !.enabled = TRUE]
           v == [w EXCEPT !.r.enabled = TRUE]
<1>1. /\ app = "up" /\ c \in Calls /\ calls[c].kind = "none" /\ UNCHANGED <<disk, issued, restarts>>
      /\ ~(r.enabled /\ r.gateway # None) /\ Set(Persist(v, c))
    BY DEF Enable, Begins
<1>2. /\ w \in World /\ w.r = r /\ w.gw = gw /\ w.writes = writes /\ w.app = app /\ w.gone = gone
      /\ w.calls[c].kind = "enable" /\ ~w.calls[c].fresh
      /\ \A d \in Slots \ {c} : w.calls[d] = calls[d]
    <2>1. w = Called(c, "enable", {}) /\ {} \subseteq Devices /\ "enable" \in Kinds
        BY KindsFacts
    <2> HIDE DEF w
    <2> QED
        BY <2>1, CalledFacts
<1>3. /\ s \in Fields /\ s.enabled /\ s.devices = r.devices /\ s.gateway = r.gateway
      /\ s.status = r.status
    BY NowFacts DEF World, Fields
<1>4. v = [w EXCEPT !.r = s]
    BY <1>2 DEF World
<1> HIDE DEF w, s, v
<1>5. /\ v \in World /\ v.r = s /\ v.gw = gw /\ v.writes = writes /\ v.app = app /\ v.gone = gone
      /\ v.calls = w.calls
    BY <1>2, <1>3, <1>4, FieldsFacts
<1>6. /\ Begun(c) /\ Now' \in World /\ r' = s /\ calls'[c].kind = "enable"
      /\ \A d \in Slots \ {c} : calls'[d] = calls[d]
    BY <1>1, <1>2, <1>3, <1>5, BegunFacts
<1>7. Apart'
    BY <1>1, <1>6, ApartBegun DEF Busy
<1>8. ShutOff'
    BY <1>3, <1>6 DEF ShutOff
<1>9. r.gateway = None
    BY <1>1 DEF ShutOff, Alive, Busy
<1>10. \A d \in Slots \ {c} : Alive /\ calls[d].pc = "stopping" => calls'[d].fresh
    BY <1>6 DEF Truth
<1> QED
    BY <1>1, <1>3, <1>6, <1>7, <1>8, <1>9, <1>10, BegunKeeps DEF Typed, Busy

LEMMA DisableStep ==
    ASSUME IInv, NEW c \in Slots, Disable(c), ~Busy({"disable", "ports", "revokeAll"})
    PROVE  IInv'
<1> USE DEF IInv
<1> DEFINE w == Called(c, "disable", {})
           s == [r EXCEPT !.enabled = FALSE]
           u == [w EXCEPT !.r.enabled = FALSE]
           v == Bumped(u)
<1>1. /\ app = "up" /\ c \in Calls /\ calls[c].kind = "none" /\ UNCHANGED <<disk, issued, restarts>>
      /\ Set(Persist(v, c))
    BY DEF Disable, Begins
<1>2. /\ w \in World /\ w.r = r /\ w.gw = gw /\ w.writes = writes /\ w.app = app /\ w.gone = gone
      /\ w.calls[c].kind = "disable" /\ ~w.calls[c].fresh
      /\ \A d \in Slots \ {c} : w.calls[d] = calls[d]
    <2>1. w = Called(c, "disable", {}) /\ {} \subseteq Devices /\ "disable" \in Kinds
        BY KindsFacts
    <2> HIDE DEF w
    <2> QED
        BY <2>1, CalledFacts
<1>3. /\ s \in Fields /\ s.devices = r.devices /\ s.gateway = r.gateway /\ s.status = r.status
    BY NowFacts DEF World, Fields
<1>4. u = [w EXCEPT !.r = s]
    BY <1>2 DEF World
<1> HIDE DEF w, s, u
<1>5. /\ u \in World /\ u.r = s /\ u.gw = gw /\ u.writes = writes /\ u.app = app /\ u.gone = gone
      /\ u.calls = w.calls
    BY <1>2, <1>3, <1>4, FieldsFacts
<1>6. v \in World /\ v = [u EXCEPT !.calls = [d \in Slots |-> Overtaken(u.calls[d])]]
    BY <1>5, BumpedFacts
<1> HIDE DEF v
<1>7. /\ v.r = s /\ v.gw = gw /\ v.writes = writes /\ v.app = app /\ v.gone = gone
      /\ \A d \in Slots : v.calls[d] = Overtaken(w.calls[d])
    BY <1>5, <1>6 DEF World
<1>8. /\ v.calls[c].kind = "disable" /\ ~v.calls[c].fresh
      /\ \A d \in Slots \ {c} : v.calls[d] = Overtaken(calls[d])
    BY <1>2, <1>7 DEF World, Call, Overtaken
<1>9. /\ Begun(c) /\ Now' \in World /\ r' = s /\ calls'[c].kind = "disable"
      /\ \A d \in Slots \ {c} : calls'[d] = Overtaken(calls[d])
    BY ZenonT(60), <1>1, <1>2, <1>3, <1>6, <1>7, <1>8, BegunFacts
<1>10. Apart'
    BY <1>1, <1>9, ApartBegun DEF Busy
<1>11. \A d \in Slots : calls[d].pc \notin {"stopping", "closing"}
    BY <1>1 DEF Shapes, Staged, Starting, Apart, Busy
<1>12. ShutOff'
    <2>1. calls'[c].kind = "disable" /\ calls'[c].pc = "saving"
        BY <1>9 DEF Begun
    <2>2. \A d \in Slots \ {c} : SameBut(d)
        BY <1>9, OthersStay DEF Begun
    <2>3. \A d \in Slots : calls'[d].pc # "closing"
        BY <1>11, <2>1, <2>2 DEF SameBut
    <2> QED
        BY <2>1, <2>3 DEF ShutOff
<1> QED
    BY <1>1, <1>3, <1>9, <1>10, <1>11, <1>12, BegunKeeps DEF Typed

\* With remote access on or off as before, no gateway will come of the call.
LEMMA ShutOffBegun ==
    ASSUME IInv, NEW c \in Slots, Begun(c), r'.enabled = r.enabled, calls'[c].kind # "enable"
    PROVE  ShutOff'
<1>1. calls[c].kind # "disable" /\ ~Coming(c)' /\ calls'[c].pc # "closing" /\ Onward
    BY DEF Begun, Coming, Starting, Onward, Alive
<1> QED
    BY <1>1, ShutOffSteady DEF IInv, Begun

LEMMA UpdatePortsStep ==
    ASSUME IInv, NEW c \in Slots, UpdatePorts(c),
           ~Busy({"enable", "disable", "ports", "revokeAll"})
    PROVE  IInv'
<1> USE DEF IInv
<1>1. PICK p \in Ports \ {r.ports} :
          Set(Persist([Called(c, "ports", {}) EXCEPT !.r.ports = p], c))
    BY DEF UpdatePorts
<1> DEFINE w == Called(c, "ports", {})
           s == [r EXCEPT !.ports = p]
           v == [w EXCEPT !.r.ports = p]
<1>2. /\ app = "up" /\ c \in Calls /\ calls[c].kind = "none" /\ UNCHANGED <<disk, issued, restarts>>
    BY DEF UpdatePorts, Begins
<1>3. /\ w \in World /\ w.r = r /\ w.gw = gw /\ w.writes = writes /\ w.app = app /\ w.gone = gone
      /\ w.calls[c].kind = "ports" /\ ~w.calls[c].fresh
      /\ \A d \in Slots \ {c} : w.calls[d] = calls[d]
    <2>1. w = Called(c, "ports", {}) /\ {} \subseteq Devices /\ "ports" \in Kinds
        BY KindsFacts
    <2> HIDE DEF w
    <2> QED
        BY <2>1, CalledFacts
<1>4. /\ s \in Fields /\ s.enabled = r.enabled /\ s.devices = r.devices
      /\ s.gateway = r.gateway /\ s.status = r.status
    BY NowFacts DEF World, Fields
<1>5. v = [w EXCEPT !.r = s]
    BY <1>3 DEF World
<1>6. Set(Persist(v, c))
    BY <1>1
<1> HIDE DEF w, s, v
<1>7. /\ v \in World /\ v.r = s /\ v.gw = gw /\ v.writes = writes /\ v.app = app /\ v.gone = gone
      /\ v.calls = w.calls
    BY <1>3, <1>4, <1>5, FieldsFacts
<1>8. /\ Begun(c) /\ Now' \in World /\ r' = s /\ calls'[c].kind = "ports"
      /\ \A d \in Slots \ {c} : calls'[d] = calls[d]
    BY <1>2, <1>3, <1>4, <1>6, <1>7, BegunFacts
<1>9. Apart'
    BY <1>2, <1>8, ApartBegun DEF Busy
<1>10. ShutOff'
    BY <1>4, <1>8, ShutOffBegun
<1>11. \A d \in Slots \ {c} : Alive /\ calls[d].pc = "stopping" => calls'[d].fresh
    BY <1>8 DEF Truth
<1> QED
    BY <1>2, <1>4, <1>8, <1>9, <1>10, <1>11, BegunKeeps DEF Typed

LEMMA RevokeDeviceStep ==
    ASSUME IInv, NEW c \in Slots, RevokeDevice(c) PROVE IInv'
<1> USE DEF IInv
<1>1. PICK d \in r.devices :
          Set(Persist([Called(c, "revoke", {d}) EXCEPT !.r.devices = @ \ {d}], c))
    BY DEF RevokeDevice
<1> DEFINE w == Called(c, "revoke", {d})
           s == [r EXCEPT !.devices = r.devices \ {d}]
           v == [w EXCEPT !.r.devices = @ \ {d}]
<1>2. /\ app = "up" /\ c \in Calls /\ calls[c].kind = "none" /\ UNCHANGED <<disk, issued, restarts>>
    BY DEF RevokeDevice, Begins
<1>3. /\ s \in Fields /\ s.enabled = r.enabled /\ s.devices = r.devices \ {d}
      /\ s.gateway = r.gateway /\ s.status = r.status /\ {d} \subseteq Devices
    BY NowFacts DEF World, Fields
<1>4. /\ w \in World /\ w.r = r /\ w.gw = gw /\ w.writes = writes /\ w.app = app /\ w.gone = gone
      /\ w.calls[c].kind = "revoke" /\ ~w.calls[c].fresh /\ w.calls[c].devices = {d}
      /\ \A e \in Slots \ {c} : w.calls[e] = calls[e]
    <2>1. w = Called(c, "revoke", {d}) /\ {d} \subseteq Devices /\ "revoke" \in Kinds
        BY <1>3, KindsFacts
    <2> HIDE DEF w
    <2> QED
        BY <2>1, CalledFacts
<1>5. v = [w EXCEPT !.r = s]
    BY <1>4 DEF World
<1>6. Set(Persist(v, c))
    BY <1>1
<1> HIDE DEF w, s, v
<1>7. /\ v \in World /\ v.r = s /\ v.gw = gw /\ v.writes = writes /\ v.app = app /\ v.gone = gone
      /\ v.calls = w.calls
    BY <1>3, <1>4, <1>5, FieldsFacts
<1>8. /\ Begun(c) /\ Now' \in World /\ r' = s
      /\ calls'[c].kind = "revoke" /\ calls'[c].devices = {d}
      /\ \A e \in Slots \ {c} : calls'[e] = calls[e]
    BY <1>2, <1>3, <1>4, <1>6, <1>7, BegunFacts
<1>9. Apart'
    BY <1>2, <1>8, ApartBegun
<1>10. ShutOff'
    BY <1>3, <1>8, ShutOffBegun
<1>11. \A e \in Slots \ {c} : Alive /\ calls[e].pc = "stopping" => calls'[e].fresh
    BY <1>8 DEF Truth
<1>12. calls'[c].devices \subseteq issued \ r'.devices
    BY <1>3, <1>8 DEF Revocations
<1> QED
    BY <1>2, <1>3, <1>8, <1>9, <1>10, <1>11, <1>12, BegunKeeps DEF Typed

LEMMA RevokeAllStep ==
    ASSUME IInv, NEW c \in Slots, RevokeAll(c),
           ~Busy({"enable", "disable", "ports", "revokeAll"})
    PROVE  IInv'
<1> USE DEF IInv
<1> DEFINE D == r.devices
           w == Called(c, "revokeAll", D)
           x == Closed(w, D)
           s == [r EXCEPT !.devices = {}]
           v == [x EXCEPT !.r.devices = {}]
<1>1. /\ app = "up" /\ c \in Calls /\ calls[c].kind = "none" /\ UNCHANGED <<disk, issued, restarts>>
      /\ Set(Persist(v, c))
    BY DEF RevokeAll, Begins
<1>2. /\ s \in Fields /\ s.enabled = r.enabled /\ s.devices = {}
      /\ s.gateway = r.gateway /\ s.status = r.status /\ D \subseteq Devices
    BY NowFacts DEF World, Fields
<1>3. /\ w \in World /\ w.r = r /\ w.gw = gw /\ w.writes = writes /\ w.app = app /\ w.gone = gone
      /\ w.calls[c].kind = "revokeAll" /\ ~w.calls[c].fresh /\ w.calls[c].devices = D
      /\ \A e \in Slots \ {c} : w.calls[e] = calls[e]
    <2>1. w = Called(c, "revokeAll", D) /\ D \subseteq Devices /\ "revokeAll" \in Kinds
        BY <1>2, KindsFacts
    <2> HIDE DEF w, D
    <2> QED
        BY <2>1, CalledFacts
<1> HIDE DEF w
<1>4. /\ x \in World /\ x.r = r /\ x.app = app /\ x.gone = gone /\ x.writes = writes
      /\ x.calls = w.calls
      /\ \A g \in Gateways :
             /\ x.gw[g].phase = gw[g].phase /\ x.gw[g].proxies \subseteq gw[g].proxies
             /\ g = r.gateway => x.gw[g].proxies \cap D = {}
    BY <1>3, ClosedFacts
<1> HIDE DEF x
<1>5. v = [x EXCEPT !.r = s]
    BY <1>4 DEF World
<1> HIDE DEF s, v
<1>6. /\ v \in World /\ v.r = s /\ v.gw = x.gw /\ v.writes = writes /\ v.app = app
      /\ v.gone = gone /\ v.calls = w.calls
    BY <1>2, <1>4, <1>5, FieldsFacts
<1>7. /\ Begun(c) /\ Now' \in World /\ r' = s /\ gw' = x.gw
      /\ calls'[c].kind = "revokeAll" /\ calls'[c].devices = D
      /\ \A e \in Slots \ {c} : calls'[e] = calls[e]
    BY <1>1, <1>2, <1>3, <1>4, <1>6, BegunFacts
<1>8. Apart'
    BY <1>1, <1>7, ApartBegun DEF Busy
<1>9. ShutOff'
    BY <1>2, <1>7, ShutOffBegun
<1>10. \A e \in Slots \ {c} : Alive /\ calls[e].pc = "stopping" => calls'[e].fresh
    BY <1>7 DEF Truth
<1>11. calls'[c].devices \subseteq issued \ r'.devices
    BY <1>2, <1>7 DEF Revocations
<1>12. \A g \in Gateways : gw'[g].proxies \cap calls'[c].devices = {}
    <2> SUFFICES ASSUME NEW g \in Gateways PROVE gw'[g].proxies \cap D = {}
        BY <1>7
    <2>1. CASE g = r.gateway
        BY <1>4, <1>7, <2>1
    <2>2. CASE g # r.gateway
        BY <1>4, <1>7, <2>2 DEF Gates
    <2> QED
        BY <2>1, <2>2
<1> QED
    BY <1>1, <1>2, <1>7, <1>8, <1>9, <1>10, <1>11, <1>12, BegunKeeps DEF Typed

\* A device is paired, and known from now on.
LEMMA PairStep ==
    ASSUME IInv, NEW c \in Calls, NEW d \in Devices, NEW g \in Gateways, Pair(c, d, g)
    PROVE  IInv'
<1> USE DEF IInv
<1> DEFINE w == Called(c, "pair", {})
           s == [r EXCEPT !.pairing = FALSE, !.devices = r.devices \cup {d}]
           v == [w EXCEPT !.r.pairing = FALSE, !.r.devices = @ \cup {d}]
<1>1. /\ calls[c].kind = "none" /\ gw[g].phase = "up" /\ d \notin issued
      /\ issued' = issued \cup {d} /\ UNCHANGED <<disk, restarts>> /\ Set(Persist(v, c))
    BY DEF Pair, Serves
<1>2. c \in Slots /\ app # "starting"
    BY <1>1, Distinct DEF Gates
<1>3. /\ s \in Fields /\ s.enabled = r.enabled /\ s.devices = r.devices \cup {d}
      /\ s.gateway = r.gateway /\ s.status = r.status
    BY NowFacts DEF World, Fields
<1>4. /\ w \in World /\ w.r = r /\ w.gw = gw /\ w.writes = writes /\ w.app = app /\ w.gone = gone
      /\ w.calls[c].kind = "pair" /\ ~w.calls[c].fresh
      /\ \A e \in Slots \ {c} : w.calls[e] = calls[e]
    <2>1. w = Called(c, "pair", {}) /\ {} \subseteq Devices /\ "pair" \in Kinds
        BY KindsFacts
    <2> HIDE DEF w
    <2> QED
        BY <1>2, <2>1, CalledFacts
<1>5. v = [w EXCEPT !.r = s]
    BY <1>4 DEF World
<1> HIDE DEF w, s, v
<1>6. /\ v \in World /\ v.r = s /\ v.gw = gw /\ v.writes = writes /\ v.app = app /\ v.gone = gone
      /\ v.calls = w.calls
    BY <1>3, <1>4, <1>5, FieldsFacts
<1>7. /\ Begun(c) /\ Now' \in World /\ r' = s /\ calls'[c].kind = "pair"
      /\ \A e \in Slots \ {c} : calls'[e] = calls[e]
    BY <1>1, <1>2, <1>3, <1>4, <1>6, BegunFacts
<1>8. Apart'
    BY <1>2, <1>7, ApartBegun
<1>9. ShutOff'
    BY <1>2, <1>3, <1>7, ShutOffBegun
<1>10. \A e \in Slots \ {c} : Alive /\ calls[e].pc = "stopping" => calls'[e].fresh
    BY <1>7 DEF Truth
<1>11. /\ issued \subseteq issued' /\ issued' \subseteq Devices
       /\ r'.devices \subseteq r.devices \cup (issued' \ issued)
    BY <1>1, <1>3, <1>7 DEF Typed
<1> QED
    BY <1>7, <1>8, <1>9, <1>10, <1>11, BegunKeeps

LEMMA BeginPairingStep ==
    ASSUME IInv, NEW c \in Slots, BeginPairing(c) PROVE IInv'
<1> USE DEF IInv
<1> DEFINE u == Called(c, "begin", {})
           s == [r EXCEPT !.pairing = TRUE]
           w == [u EXCEPT !.r.pairing = TRUE]
           h == r.gateway
           z == [w EXCEPT !.calls[c].pc = "bootstrap", !.calls[c].gate = h, !.gw[h].boot = FALSE]
<1>1. /\ app = "up" /\ c \in Calls /\ calls[c].kind = "none" /\ UNCHANGED <<disk, issued, restarts>>
      /\ h # None
      /\ gw[h].phase # "up" => Set(Done(w, c))
      /\ gw[h].phase = "up" => Set(z)
    BY DEF BeginPairing, Begins
<1>2. h \in Gateways /\ calls[c].pc = "idle" /\ c # Quit
    BY <1>1, GatewayTyped, Distinct DEF Shapes, Staged
<1>3. /\ s \in Fields /\ Keeps(s, r) /\ s.gateway = r.gateway /\ s.status = r.status
    BY NowFacts DEF World, Fields, Keeps
<1>4. /\ u \in World /\ u.r = r /\ u.gw = gw /\ u.writes = writes /\ u.app = app /\ u.gone = gone
      /\ u.calls[c].kind = "begin" /\ ~u.calls[c].fresh
      /\ \A e \in Slots \ {c} : u.calls[e] = calls[e]
    <2>1. u = Called(c, "begin", {}) /\ {} \subseteq Devices /\ "begin" \in Kinds
        BY KindsFacts
    <2> HIDE DEF u
    <2> QED
        BY <2>1, CalledFacts
<1>5. w = [u EXCEPT !.r = s]
    BY <1>4 DEF World
<1> HIDE DEF u, s, w, h
<1>6. /\ w \in World /\ w.r = s /\ w.gw = gw /\ w.writes = writes /\ w.app = app
      /\ w.gone = gone /\ w.calls = u.calls
    BY <1>3, <1>4, <1>5, FieldsFacts
<1>7. CASE gw[h].phase # "up"
    <2> DEFINE y == Done(w, c)
    <2>1. /\ y \in World /\ y.r = s /\ y.gw = gw /\ y.writes = writes
          /\ y.app = app /\ y.gone = gone
          /\ y.calls[c] = Idle /\ \A d \in Slots \ {c} : y.calls[d] = calls[d]
        BY SMTT(30), <1>4, <1>6, DoneFacts
    <2>2. /\ Now' \in World /\ r' = y.r /\ gw' = y.gw /\ calls' = y.calls /\ writes' = y.writes
          /\ app' = y.app /\ gone' = y.gone
        BY <1>1, <1>7, <2>1, StepFacts
    <2> HIDE DEF y
    <2>3. SteadyGates
        BY <1>3, <2>1, <2>2 DEF Gates, SteadyGates
    <2>4. Ends(c) /\ Rest /\ Onward
        BY <1>1, <1>3, <2>1, <2>2, <2>3 DEF Ends, Rest, Keeps, Onward, Alive
    <2>5. OnlyMoves(c) /\ calls'[c].kind = "none"
        BY <2>1, <2>2, IdleFacts DEF OnlyMoves
    <2>6. Apart'
        BY <2>1, <2>2, <2>5, ApartSame
    <2> QED
        BY <1>1, <1>2, <1>3, <2>1, <2>2, <2>4, <2>6, EndsKeeps, NothingServed
<1>8. CASE gw[h].phase = "up"
    <2> DEFINE call == [u.calls[c] EXCEPT !.pc = "bootstrap", !.gate = h]
               gate == [gw[h] EXCEPT !.boot = FALSE]
               k == [u.calls EXCEPT ![c] = call]
               l == [gw EXCEPT ![h] = gate]
    <2>1. gw \in [Gateways -> Gateway] /\ u.calls \in [Slots -> Call]
        BY <1>4, NowFacts DEF World
    <2>2. /\ call \in Call /\ call.kind = "begin" /\ call.pc = "bootstrap" /\ call.gate = h
          /\ ~call.fresh
        BY <1>2, <1>4, <2>1 DEF Call, Awaits
    <2>3. gate \in Gateway /\ gate.phase = gw[h].phase /\ gate.proxies = gw[h].proxies
        BY <1>2, <2>1 DEF Gateway
    <2>4. z = [w EXCEPT !.calls = k, !.gw = l]
        BY <1>6, <2>1 DEF World
    <2> HIDE DEF call, gate
    <2>5. k \in [Slots -> Call] /\ k[c] = call /\ \A d \in Slots \ {c} : k[d] = calls[d]
        BY <1>4, <2>1, <2>2
    <2>6. /\ l \in [Gateways -> Gateway]
          /\ \A g \in Gateways : l[g].phase = gw[g].phase /\ l[g].proxies = gw[g].proxies
        BY <1>2, <2>1, <2>3
    <2> HIDE DEF k, l, z
    <2>7. /\ z \in World /\ z.r = s /\ z.gw = l /\ z.calls = k /\ z.writes = writes
          /\ z.app = app /\ z.gone = gone
        BY <1>6, <2>4, <2>5, <2>6 DEF World
    <2>8. /\ Now' \in World /\ r' = s /\ gw' = l /\ calls' = k /\ writes' = writes
          /\ app' = app /\ gone' = gone
        BY <1>1, <1>8, <2>7, StepFacts
    <2>9. OnlyMoves(c) /\ calls'[c] = call
        BY <2>5, <2>8 DEF OnlyMoves
    <2>10. SteadyGates /\ ServesKnown /\ Onward
        BY <1>3, <2>6, <2>8 DEF SteadyGates, ServesKnown, Gates, Onward, Alive
    <2>11. Shapes'
        BY <1>2, <2>2, <2>9, ShapesKept DEF Staged
    <2>12. Apart'
        <3>1. \A d \in Slots \ {c} : calls'[d].kind = calls[d].kind
            BY <2>5, <2>8
        <3> QED
            BY <1>1, <2>2, <2>8, <2>9, <3>1 DEF Apart, Starter
    <2>13. Queue'
        BY <1>2, <2>2, <2>8, <2>9, QueueKept
    <2>14. Gates'
        BY <1>2, <2>2, <2>9, <2>10, GatesSteady, ReliesOnNothing
    <2>15. Truth'
        <3>1. \A d \in Slots : Alive' /\ calls'[d].pc = "stopping" => calls'[d].fresh
            BY <2>2, <2>5, <2>8, <2>10 DEF Truth, Onward
        <3> QED
            BY <1>2, <1>3, <2>8, <2>9, <2>10, <3>1, TruthSteady
    <2>16. ShutOff'
        <3>1. calls[c].kind # "disable" /\ ~Coming(c)' /\ calls'[c].pc # "closing"
            BY <1>1, <2>2, <2>9 DEF Coming, Starting
        <3> QED
            BY <1>3, <2>8, <2>9, <2>10, <3>1, ShutOffSteady DEF Keeps
    <2>17. Revocations'
        <3>1. \A d \in Slots : RevokesAsBefore(d)
            BY <2>2, <2>5, <2>8 DEF RevokesAsBefore
        <3> QED
            BY <1>1, <1>3, <2>8, <2>10, <3>1, RevocationsSame DEF Keeps
    <2>18. Typed'
        BY <1>1, <2>8 DEF Typed
    <2> QED
        BY <2>11, <2>12, <2>13, <2>14, <2>15, <2>16, <2>17, <2>18
<1> QED
    BY <1>7, <1>8

---------------------------------------------------------------------------
(* The program starts: the configuration has been loaded, or is torn       *)

LEMMA LoadingFacts ==
    ASSUME IInv, NEW c \in Slots, Loaded(c)
    PROVE  /\ calls[c].pc = "load" /\ calls[c].kind = "start" /\ Starter(c) /\ app = "starting"
           /\ r.gateway = None /\ c # Quit
           /\ \A d \in Slots \ {c} : calls[d].kind = "none" /\ calls[d].pc = "idle"
<1> USE DEF IInv
<1>1. calls[c].pc = "load" /\ calls[c].kind = "start" /\ c # Quit
    BY DEF Loaded, At, Shapes, Staged, Starting
<1>2. Starter(c) /\ app = "starting" /\ r.gateway = None
    BY <1>1 DEF Starter, Apart, Gates, Relies
<1>3. \A d \in Slots \ {c} : calls[d].kind = "none"
    BY <1>2 DEF Apart, Starter
<1> QED
    BY <1>1, <1>2, <1>3 DEF Shapes, Staged

\* The call of start() has ended with no gateway there.
LEMMA StartedWithout ==
    ASSUME IInv, NEW c \in Slots, Loaded(c), Now' \in World,
           calls'[c] = Idle, \A d \in Slots \ {c} : calls'[d] = calls[d],
           app' # "starting", UNCHANGED <<gw, writes, gone, disk, issued, restarts>>,
           r'.gateway = None, r'.status = r.status, r'.devices \subseteq issued \ gone
    PROVE  IInv'
<1> USE DEF IInv
<1>1. /\ calls[c].pc = "load" /\ calls[c].kind = "start" /\ app = "starting"
      /\ r.gateway = None
      /\ \A d \in Slots \ {c} : calls[d].kind = "none" /\ calls[d].pc = "idle"
    BY LoadingFacts
<1>2. \A d \in Slots : /\ calls'[d].kind = "none" /\ calls'[d].pc = "idle"
                       /\ calls'[d].kind \in {calls[d].kind, "none"}
    BY <1>1, IdleFacts
<1>3. OnlyMoves(c)
    BY DEF OnlyMoves
<1>4. Shapes'
    BY <1>2 DEF Shapes, Staged
<1>5. Apart'
    BY <1>2 DEF Apart, Starter
<1>6. Queue'
    BY <1>1, <1>2, <1>3, QueueKept
<1>7. Gates'
    <2>1. \A d \in Slots : Relies(d)'
        BY <1>2 DEF Relies
    <2>2. \A g \in Gateways : gw[g].phase \notin {"listening", "up"}
        BY <1>1 DEF Gates
    <2> QED
        BY <2>1, <2>2 DEF Gates
<1>8. Truth'
    <2>1. r.status # "running"
        BY <1>1 DEF Truth, Alive
    <2> QED
        BY <1>2, <2>1 DEF Truth
<1>9. ShutOff'
    BY <1>2 DEF ShutOff, Coming, Starting
<1>10. Revocations'
    BY <1>2 DEF Revocations, Revoking
<1>11. Typed'
    BY DEF Typed
<1> QED
    BY <1>4, <1>5, <1>6, <1>7, <1>8, <1>9, <1>10, <1>11

LEMMA LoadedStep == ASSUME IInv, NEW c \in Slots, Loaded(c) PROVE IInv'
<1> USE DEF IInv
<1>1. /\ calls[c].pc = "load" /\ calls[c].kind = "start" /\ Starter(c) /\ app = "starting"
      /\ r.gateway = None /\ c # Quit
      /\ \A d \in Slots \ {c} : calls[d].kind = "none" /\ calls[d].pc = "idle"
    BY LoadingFacts
<1>2. UNCHANGED <<disk, issued, restarts>>
    BY DEF Loaded
<1>3. CASE disk = Torn
    <2> DEFINE z == Done(Now, c)
               y == [z EXCEPT !.app = "dead"]
    <2>1. Set(y)
        BY <1>3 DEF Loaded
    <2>2. /\ z \in World /\ z.r = r /\ z.gw = gw /\ z.writes = writes /\ z.gone = gone
          /\ z.calls[c] = Idle /\ \A d \in Slots \ {c} : z.calls[d] = calls[d]
        BY NowFacts, DoneFacts
    <2> HIDE DEF z
    <2>3. /\ y \in World /\ y.r = r /\ y.gw = gw /\ y.writes = writes /\ y.gone = gone
          /\ y.calls = z.calls /\ y.app = "dead"
        BY <2>2 DEF World, Apps
    <2> HIDE DEF y
    <2>4. /\ Now' \in World /\ r' = r /\ gw' = gw /\ calls' = z.calls /\ writes' = writes
          /\ app' = "dead" /\ gone' = gone
        BY <2>1, <2>3, StepFacts
    <2> QED
        BY <1>1, <1>2, <2>2, <2>4, StartedWithout DEF Revocations
<1>4. CASE disk # Torn
    <2> DEFINE s == [r EXCEPT !.enabled = disk.enabled, !.ports = disk.ports,
                              !.devices = disk.devices]
               w == [Now EXCEPT !.r = s]
    <2>1. /\ ~disk.enabled => Set([Done(w, c) EXCEPT !.app = "up"])
          /\ disk.enabled => Set(StartGateway(w, c))
        <3>1. [Now EXCEPT !.r = [@ EXCEPT !.enabled = disk.enabled, !.ports = disk.ports,
                                          !.devices = disk.devices]] = w
            BY DEF Now
        <3> QED
            BY <1>4, <3>1 DEF Loaded
    <2>2. /\ s \in Fields /\ s.enabled = disk.enabled /\ s.devices = disk.devices
          /\ s.gateway = None /\ s.status = r.status
        BY <1>1, <1>4, NowFacts DEF World, Fields, Typed, Config
    <2> HIDE DEF s
    <2>3. /\ w \in World /\ w.r = s /\ w.gw = gw /\ w.writes = writes /\ w.app = app
          /\ w.gone = gone /\ w.calls = calls
        BY <2>2, NowFacts, FieldsFacts
    <2> HIDE DEF w
    <2>4. s.devices \subseteq issued \ gone
        BY <1>4, <2>2 DEF Revocations
    <2>5. CASE ~disk.enabled
        <3> DEFINE z == Done(w, c)
                   y == [z EXCEPT !.app = "up"]
        <3>1. /\ z \in World /\ z.r = s /\ z.gw = gw /\ z.writes = writes /\ z.gone = gone
              /\ z.calls[c] = Idle /\ \A d \in Slots \ {c} : z.calls[d] = calls[d]
            BY <2>3, DoneFacts
        <3>2. Set(y)
            BY <2>1, <2>5
        <3> HIDE DEF z
        <3>3. /\ y \in World /\ y.r = s /\ y.gw = gw /\ y.writes = writes /\ y.gone = gone
              /\ y.calls = z.calls /\ y.app = "up"
            BY <3>1 DEF World, Apps
        <3> HIDE DEF y
        <3>4. /\ Now' \in World /\ r' = s /\ gw' = gw /\ calls' = z.calls /\ writes' = writes
              /\ app' = "up" /\ gone' = gone
            BY <3>2, <3>3, StepFacts
        <3> QED
            BY <1>2, <2>2, <2>4, <3>1, <3>4, StartedWithout
    <2>6. CASE disk.enabled
        <3> DEFINE y == StartGateway(w, c)
        <3>1. /\ y \in World /\ y.gw = gw /\ y.writes = writes /\ y.gone = gone /\ y.app = app
              /\ Keeps(y.r, s) /\ y.r.gateway = None /\ y.r.status = "starting"
              /\ GoesOn(y.calls[c], calls[c], "certs")
              /\ \A d \in Slots \ {c} : y.calls[d] = calls[d]
            BY <2>2, <2>3, StartGatewayFacts
        <3>2. Set(y)
            BY <2>1, <2>6
        <3> HIDE DEF y
        <3>3. /\ Now' \in World /\ r' = y.r /\ gw' = gw /\ calls' = y.calls /\ writes' = writes
              /\ app' = app /\ gone' = gone
            BY <3>1, <3>2, StepFacts
        <3>4. Starts(c) /\ Silent /\ r'.enabled /\ Onward /\ r'.devices \subseteq issued \ gone
            BY <1>1, <2>2, <2>4, <2>6, <3>1, <3>3 DEF Starts, Silent, Keeps, Onward, Alive
        <3>5. Shapes' /\ Gates' /\ Truth' /\ ShutOff'
            BY <1>1, <3>4, StartsFacts
        <3>6. /\ OnlyMoves(c) /\ calls'[c].kind = "start" /\ calls'[c].pc = "certs"
              /\ \A d \in Slots \ {c} : calls'[d] = calls[d]
            BY <1>1, <3>1, <3>3 DEF OnlyMoves, GoesOn
        <3>7. Apart'
            BY <1>1, <3>3, <3>6, ApartSame
        <3>8. Queue'
            BY <1>1, <3>3, <3>6, QueueKept
        <3>9. Revocations'
            <4>1. \A d \in Slots : Revoking(d)'
                BY <1>1, <3>6 DEF Revoking
            <4> QED
                BY <1>2, <3>3, <3>4, <4>1 DEF Revocations
        <3>10. Typed'
            BY <1>2, <3>3 DEF Typed
        <3> QED
            BY <3>5, <3>7, <3>8, <3>9, <3>10
    <2> QED
        BY <2>5, <2>6 DEF Typed, Config
<1> QED
    BY <1>3, <1>4

---------------------------------------------------------------------------
(* The program ends                                                        *)

\* What the end of the program finds of its own call.
LEMMA QuitIsIdle ==
    ASSUME IInv, app = "up"
    PROVE  calls[Quit].kind = "none" /\ calls[Quit].pc = "idle" /\ Quit \in Slots
BY Distinct DEF IInv, Shapes, Staged, Apart

LEMMA QuittingFacts ==
    ASSUME IInv, app = "up",
           NEW w, w = [Now EXCEPT !.app = "quitting", !.calls[Quit] = [Idle EXCEPT !.kind = "quit"]]
    PROVE  /\ w \in World /\ w.r = r /\ w.gw = gw /\ w.writes = writes /\ w.gone = gone
           /\ w.app = "quitting" /\ w.calls[Quit].kind = "quit"
           /\ \A d \in Slots \ {Quit} : w.calls[d] = calls[d]
<1> DEFINE call == [Idle EXCEPT !.kind = "quit"]
           k == [calls EXCEPT ![Quit] = call]
<1>1. call \in Call /\ call.kind = "quit"
    BY IdleIsCall, KindsFacts DEF Idle, Call
<1>2. w = [Now EXCEPT !.app = "quitting", !.calls = k]
    BY NowFacts DEF IInv
<1> HIDE DEF call
<1>3. k \in [Slots -> Call] /\ k[Quit] = call /\ \A d \in Slots \ {Quit} : k[d] = calls[d]
    BY <1>1, Distinct, NowFacts DEF World, IInv
<1> HIDE DEF k
<1> QED
    BY <1>1, <1>2, <1>3, NowFacts DEF World, Apps, IInv

LEMMA QuitBeginsStep ==
    ASSUME IInv, QuitBegins, ~Busy({"ports", "revokeAll"}) PROVE IInv'
<1> USE DEF IInv
<1> DEFINE w == [Now EXCEPT !.app = "quitting", !.calls[Quit] = [Idle EXCEPT !.kind = "quit"]]
           y == Stop(w, Quit)
<1>1. app = "up" /\ Set(y) /\ UNCHANGED <<disk, issued, restarts>>
    BY DEF QuitBegins
<1>2. calls[Quit].kind = "none" /\ calls[Quit].pc = "idle" /\ Quit \in Slots
    BY <1>1, QuitIsIdle
<1>3. /\ w \in World /\ w.r = r /\ w.gw = gw /\ w.writes = writes /\ w.gone = gone
      /\ w.app = "quitting" /\ w.calls[Quit].kind = "quit"
      /\ \A d \in Slots \ {Quit} : w.calls[d] = calls[d]
    BY <1>1, QuittingFacts
<1> HIDE DEF w
<1>4. \A d \in Slots : calls[d].kind \notin {"start", "ports", "revokeAll", "quit"}
    BY <1>1 DEF Apart, Busy
<1>5. CASE r.gateway = None
    <2>1. /\ y \in World /\ y.writes = writes /\ y.gone = gone /\ y.gw = gw
          /\ y.app = "backend"
          /\ \A d \in Slots \ {Quit} : y.calls[d] = Overtaken(calls[d])
          /\ y.calls[Quit] = Idle
          /\ Keeps(y.r, r) /\ y.r.gateway = None /\ y.r.status # "running"
        BY <1>2, <1>3, <1>5, StopAtOnce
    <2>2. /\ Now' \in World /\ r' = y.r /\ gw' = gw /\ calls' = y.calls /\ writes' = writes
          /\ app' = "backend" /\ gone' = gone
        BY <1>1, <2>1, StepFacts
    <2> HIDE DEF y
    <2>3. StopsAtOnce(Quit) /\ Onward /\ ~Alive'
        BY <1>5, <2>1, <2>2 DEF StopsAtOnce, Onward, Alive
    <2>4. OnlyMoves(Quit) /\ Shapes' /\ Gates' /\ Truth'
        BY <1>2, <2>3, StopsAtOnceFacts
    <2>5. calls'[Quit].kind = "none" /\ calls'[Quit].pc = "idle"
        BY <2>1, <2>2, IdleFacts
    <2>6. \A d \in Slots \ {Quit} : SameBut(d)
        BY <2>4, OthersStay
    <2>7. Apart'
        <3>1. \A d \in Slots : calls'[d].kind \notin {"start", "ports", "revokeAll", "quit"}
            BY <1>4, <2>5, <2>6 DEF SameBut
        <3> QED
            BY <1>2, <2>2, <2>4, <2>5, <3>1, ApartKept
    <2>8. Queue'
        BY <1>2, <2>2, <2>4, <2>5, QueueKept
    <2>9. Revocations'
        BY <1>1, <2>1, <2>2, <2>5, <2>6, RevocationsSame
           DEF RevokesAsBefore, SameBut, ServesKnown, Keeps
    <2>10. Typed' /\ ShutOff'
        BY <1>1, <2>2, <2>3 DEF Typed, ShutOff
    <2> QED
        BY <2>4, <2>7, <2>8, <2>9, <2>10
<1>6. CASE r.gateway # None
    <2>1. /\ y \in World /\ y.writes = writes /\ y.gone = gone
          /\ y.app = "quitting" /\ Keeps(y.r, r)
          /\ y.r.gateway = r.gateway /\ y.r.status = r.status
          /\ Silenced(y.gw, gw, r.gateway)
          /\ \A d \in Slots \ {Quit} : y.calls[d] = Overtaken(calls[d])
          /\ GoesOn(y.calls[Quit], w.calls[Quit], "stopping")
        BY <1>2, <1>3, <1>6, StopBegins
    <2>2. /\ Now' \in World /\ r' = y.r /\ gw' = y.gw /\ calls' = y.calls /\ writes' = writes
          /\ app' = "quitting" /\ gone' = gone
        BY <1>1, <2>1, StepFacts
    <2> HIDE DEF y
    <2>3. calls'[Quit].kind = "quit" /\ calls'[Quit].pc = "stopping"
        BY <1>3, <2>1, <2>2 DEF GoesOn
    <2>4. StopsGateway(Quit) /\ ~Alive' /\ Staged(calls'[Quit])
        BY <1>6, <2>1, <2>2, <2>3 DEF StopsGateway, GoesOn, Alive, Staged
    <2>5. OnlyMoves(Quit) /\ Shapes' /\ Gates' /\ Truth'
        BY <1>2, <2>3, <2>4, StopsGatewayFacts
    <2>6. \A d \in Slots \ {Quit} : SameBut(d)
        BY <2>5, OthersStay
    <2>7. Apart'
        BY <1>4, <2>2, <2>3, <2>6 DEF Apart, Starter, SameBut
    <2>8. Queue'
        BY <1>2, <2>2, <2>3, <2>5, QueueKept
    <2>9. Revocations'
        <3>1. ServesKnown
            BY <2>1, <2>2 DEF ServesKnown, Silenced
        <3> QED
            BY <1>1, <2>1, <2>2, <2>3, <2>6, <3>1, RevocationsSame
               DEF RevokesAsBefore, SameBut, Keeps
    <2>10. Typed' /\ ShutOff'
        BY <1>1, <2>2, <2>4 DEF Typed, ShutOff
    <2> QED
        BY <2>5, <2>7, <2>8, <2>9, <2>10
<1> QED
    BY <1>5, <1>6

\* forceStop(): the gateway, if any, ends, and nobody waits for it.
LEMMA TimesOutFacts ==
    ASSUME Typed, NEW y,
           y = [Stopped(Bumped(Now), r.gateway) EXCEPT !.app = "backend", !.r.pairing = FALSE,
                                                       !.r.gateway = None]
    PROVE  /\ y \in World /\ y.writes = writes /\ y.gone = gone /\ y.app = "backend"
           /\ Keeps(y.r, r) /\ y.r.gateway = None
           /\ \A d \in Slots : y.calls[d] = Overtaken(calls[d])
           /\ \A g \in Gateways :
                  IF g = r.gateway
                  THEN y.gw[g].phase \notin {"listening", "up"} /\ y.gw[g].proxies = {}
                  ELSE y.gw[g] = gw[g]
<1> DEFINE b == Bumped(Now)
           x == Stopped(b, r.gateway)
           s == [x.r EXCEPT !.pairing = FALSE, !.gateway = None]
<1>1. b \in World /\ b = [Now EXCEPT !.calls = [d \in Slots |-> Overtaken(calls[d])]]
    BY NowFacts, BumpedFacts
<1>2. /\ y = [x EXCEPT !.app = "backend", !.r.pairing = FALSE, !.r.gateway = None]
      /\ x = Stopped(b, r.gateway)
    OBVIOUS
<1> HIDE DEF b, x
<1>3. /\ b.r = r /\ b.gw = gw /\ b.writes = writes /\ b.app = app /\ b.gone = gone
      /\ \A d \in Slots : b.calls[d] = Overtaken(calls[d])
    BY <1>1, NowFacts DEF World
<1>4. /\ x \in World /\ x.r = r /\ x.calls = b.calls /\ x.writes = writes /\ x.gone = gone
      /\ \A g \in Gateways :
             IF g = r.gateway
             THEN x.gw[g].phase \notin {"listening", "up"} /\ x.gw[g].proxies = {}
             ELSE x.gw[g] = gw[g]
    <2>1. CASE r.gateway = None
        <3>1. x = b
            BY <1>2, <2>1 DEF Stopped
        <3> QED
            BY <1>1, <1>3, <2>1, <3>1, Distinct
    <2>2. CASE r.gateway # None
        <3> DEFINE g == r.gateway
        <3>1. b \in World /\ g \in Gateways /\ x = Stopped(b, g)
            BY <1>1, <1>2, <2>2, GatewayTyped
        <3> HIDE DEF g
        <3>2. /\ x \in World /\ x.r = b.r /\ x.calls = b.calls /\ x.writes = b.writes
              /\ x.gone = b.gone /\ Silenced(x.gw, b.gw, g)
            BY <3>1, StoppedFacts
        <3> QED
            BY <1>3, <3>2 DEF Silenced, g
    <2> QED
        BY <2>1, <2>2
<1>5. y = [x EXCEPT !.app = "backend", !.r = s]
    BY <1>4, <1>2 DEF World
<1>6. s \in Fields /\ Keeps(s, r) /\ s.gateway = None
    BY <1>4 DEF World, Fields, Keeps
<1> HIDE DEF s
<1>7. /\ y \in World /\ y.r = s /\ y.gw = x.gw /\ y.writes = writes /\ y.gone = gone
      /\ y.app = "backend" /\ y.calls = x.calls
    BY <1>4, <1>5, <1>6 DEF World, Apps
<1> QED
    BY <1>3, <1>4, <1>6, <1>7

LEMMA StepTimesOutStep == ASSUME IInv, StepTimesOut PROVE IInv'
<1> USE DEF IInv
<1> DEFINE y == [Stopped(Bumped(Now), r.gateway) EXCEPT !.app = "backend", !.r.pairing = FALSE,
                                                        !.r.gateway = None]
<1>1. app = "quitting" /\ Set(y) /\ UNCHANGED <<disk, issued, restarts>>
    BY DEF StepTimesOut
<1>2. /\ y \in World /\ y.writes = writes /\ y.gone = gone /\ y.app = "backend"
      /\ Keeps(y.r, r) /\ y.r.gateway = None
      /\ \A d \in Slots : y.calls[d] = Overtaken(calls[d])
      /\ \A g \in Gateways :
             IF g = r.gateway
             THEN y.gw[g].phase \notin {"listening", "up"} /\ y.gw[g].proxies = {}
             ELSE y.gw[g] = gw[g]
    BY TimesOutFacts
<1>3. /\ Now' \in World /\ r' = y.r /\ gw' = y.gw /\ calls' = y.calls /\ writes' = writes
      /\ app' = "backend" /\ gone' = gone
    BY <1>1, <1>2, StepFacts
<1> HIDE DEF y
<1>4. OnlyMoves(Quit) /\ Quit \in Slots /\ ~Alive'
    BY <1>2, <1>3, Distinct DEF OnlyMoves, Alive
<1>5. \A d \in Slots : SameBut(d) /\ calls'[d].fresh = FALSE
    <2> SUFFICES ASSUME NEW d \in Slots PROVE SameBut(d) /\ calls'[d].fresh = FALSE
        OBVIOUS
    <2>1. calls[d] \in Call /\ calls'[d] = Overtaken(calls[d])
        BY <1>2, <1>3, NowFacts DEF World
    <2> QED
        BY <2>1 DEF Overtaken, SameBut, Call
<1>6. \A d \in Slots : calls[d].kind \notin {"start", "ports", "revokeAll"}
    BY <1>1 DEF Apart
<1>7. Shapes'
    BY <1>5 DEF Shapes, Staged, SameBut
<1>8. Apart'
    BY <1>3, <1>5, <1>6 DEF Apart, Starter, SameBut
<1>9. Queue'
    <2>1. calls[Quit].pc # "saving"
        BY <1>4 DEF Shapes, Staged
    <2> QED
        BY <1>3, <1>4, <1>5, <2>1, QueueKept DEF SameBut
<1>10. \A g \in Gateways : /\ gw'[g].phase # "up" /\ gw'[g].proxies = {}
                           /\ gw'[g].phase = "listening" => gw[g].phase = "listening"
    BY <1>2, <1>3 DEF Gates
<1>11. Gates'
    <2>1. ASSUME NEW d \in Slots PROVE Relies(d)'
        <3>1. calls'[d].pc # "closing"
            BY <1>5, <1>6 DEF Shapes, Staged, SameBut, Starting
        <3> QED
            BY <1>2, <1>3, <1>5, <1>7, <1>10, <3>1 DEF Relies, Shapes
    <2>2. ASSUME NEW g \in Gateways, gw'[g].phase = "listening"
          PROVE  \E d \in Slots : calls'[d].pc = "listen" /\ calls'[d].gate = g
        <3>1. PICK d \in Slots : calls[d].pc = "listen" /\ calls[d].gate = g
            BY <1>10, <2>2 DEF Gates
        <3> QED
            BY <1>5, <3>1 DEF SameBut
    <2> QED
        BY <1>10, <2>1, <2>2 DEF Gates
<1>12. Truth' /\ ShutOff'
    BY <1>2, <1>3, <1>4 DEF Truth, ShutOff
<1>13. Revocations'
    <2>1. ServesKnown
        BY <1>10 DEF ServesKnown
    <2> QED
        BY <1>1, <1>2, <1>3, <1>5, <2>1, RevocationsSame DEF RevokesAsBefore, SameBut, Keeps
<1>14. Typed'
    BY <1>1, <1>3 DEF Typed
<1> QED
    BY <1>7, <1>8, <1>9, <1>11, <1>12, <1>13, <1>14

LEMMA ExitStep == ASSUME IInv, Exit PROVE IInv'
<1> USE DEF IInv
<1>1. /\ app = "backend" /\ app' = "exited"
      /\ UNCHANGED <<r, gw, calls, writes, disk, issued, gone, restarts>>
    BY DEF Exit
<1>2. Typed'
    BY <1>1 DEF Typed, World, Now, Apps
<1>3. Shapes' /\ Queue'
    BY <1>1 DEF Shapes, Queue
<1>4. Apart'
    BY <1>1 DEF Apart, Starter
<1>5. Gates'
    BY <1>1 DEF Gates, Relies, Silent
<1>6. Truth' /\ ShutOff'
    BY <1>1 DEF Truth, ShutOff, Alive
<1>7. Revocations'
    BY <1>1, RevocationsSame DEF RevokesAsBefore, ServesKnown
<1> QED
    BY <1>2, <1>3, <1>4, <1>5, <1>6, <1>7

---------------------------------------------------------------------------
(* The program starts, for the first time or again                         *)

LEMMA FreshFacts ==
    ASSUME NEW c \in Calls, NEW y, y = Fresh(c), gone \subseteq Devices
    PROVE  /\ y \in World /\ y.app = "starting" /\ y.writes = <<>> /\ y.gone = gone
           /\ ~y.r.enabled /\ y.r.devices = {} /\ y.r.gateway = None /\ y.r.status = "disabled"
           /\ \A g \in Gateways : y.gw[g] = NoGateway
           /\ \A d \in Slots \ {c} : y.calls[d] = Idle
           /\ y.calls[c].kind = "start" /\ y.calls[c].pc = "load"
<1> DEFINE s == [enabled |-> FALSE, ports |-> 1, devices |-> {}, gateway |-> None,
                 pairing |-> FALSE, status |-> "disabled"]
           l == [g \in Gateways |-> NoGateway]
           call == [Idle EXCEPT !.kind = "start", !.pc = "load", !.fresh = TRUE]
           k == [d \in Slots |-> IF d # c THEN Idle ELSE call]
<1>1. s \in Fields
    BY DEF Fields, Ports
<1>2. call \in Call /\ call.kind = "start" /\ call.pc = "load"
    BY IdleIsCall DEF Idle, Call, Kinds, Awaits
<1>3. y = [r |-> s, gw |-> l, calls |-> k, writes |-> <<>>, app |-> "starting", gone |-> gone]
    BY DEF Fresh
<1> HIDE DEF call
<1>4. /\ l \in [Gateways -> Gateway] /\ \A g \in Gateways : l[g] = NoGateway
      /\ k \in [Slots -> Call] /\ k[c] = call /\ \A d \in Slots \ {c} : k[d] = Idle
    BY <1>2, IdleIsCall, Distinct
<1>5. ~s.enabled /\ s.devices = {} /\ s.gateway = None /\ s.status = "disabled"
    OBVIOUS
<1>6. <<>> \in Seq(Write) /\ "starting" \in Apps
    BY DEF Apps
<1> HIDE DEF s, l, k
<1> QED
    BY <1>1, <1>2, <1>3, <1>4, <1>5, <1>6 DEF World

LEMMA RestartStep == ASSUME IInv, NEW torn \in BOOLEAN, Restart(torn) PROVE IInv'
<1> USE DEF IInv
<1>1. PICK c \in Calls : Set(Fresh(c))
    BY DEF Restart
<1>2. /\ issued' = issued /\ disk' \in {disk, Torn} /\ restarts' \in 0..MaxRestarts
    BY RestartsAssumption DEF Restart, Typed
<1> DEFINE y == Fresh(c)
<1>3. /\ y \in World /\ y.app = "starting" /\ y.writes = <<>> /\ y.gone = gone
      /\ ~y.r.enabled /\ y.r.devices = {} /\ y.r.gateway = None /\ y.r.status = "disabled"
      /\ \A g \in Gateways : y.gw[g] = NoGateway
      /\ \A d \in Slots \ {c} : y.calls[d] = Idle
      /\ y.calls[c].kind = "start" /\ y.calls[c].pc = "load"
    BY FreshFacts DEF Typed, Revocations
<1>4. /\ Now' \in World /\ r' = y.r /\ gw' = y.gw /\ calls' = y.calls /\ writes' = <<>>
      /\ app' = "starting" /\ gone' = gone
    BY <1>1, <1>3, StepFacts
<1> HIDE DEF y
<1>5. /\ \A d \in Slots \ {c} : calls'[d].kind = "none" /\ calls'[d].pc = "idle"
      /\ calls'[c].kind = "start" /\ calls'[c].pc = "load"
      /\ c \in Slots /\ c # Quit
    BY <1>3, <1>4, IdleFacts, Distinct
<1>6. \A g \in Gateways : gw'[g].phase = "none" /\ gw'[g].proxies = {}
    BY <1>3, <1>4 DEF NoGateway
<1>7. Typed'
    BY <1>2, <1>4 DEF Typed
<1>8. Shapes' /\ Apart'
    BY <1>4, <1>5 DEF Shapes, Staged, Apart, Starter
<1>9. Queue'
    BY <1>4, <1>5 DEF Queue
<1>10. Gates'
    BY <1>3, <1>4, <1>5, <1>6 DEF Gates, Relies
<1>11. Truth' /\ ShutOff'
    BY <1>3, <1>4, <1>5 DEF Truth, ShutOff, Coming, Starting
<1>12. Revocations'
    BY <1>2, <1>3, <1>4, <1>5, <1>6 DEF Revocations, Revoking
<1> QED
    BY <1>7, <1>8, <1>9, <1>10, <1>11, <1>12

LEMMA InitIInv == Init => IInv
<1> SUFFICES ASSUME Init PROVE IInv
    OBVIOUS
<1>1. PICK c \in Calls : LET w == Fresh(c)
                         IN /\ r = w.r /\ gw = w.gw /\ calls = w.calls /\ writes = w.writes
                            /\ app = w.app
    BY DEF Init
<1> DEFINE y == Fresh(c)
<1>2. /\ gone = {} /\ issued = {} /\ restarts = 0
      /\ disk = [enabled |-> FALSE, ports |-> 1, devices |-> {}]
    BY DEF Init
<1>3. /\ y \in World /\ y.app = "starting" /\ y.writes = <<>> /\ y.gone = gone
      /\ ~y.r.enabled /\ y.r.devices = {} /\ y.r.gateway = None /\ y.r.status = "disabled"
      /\ \A g \in Gateways : y.gw[g] = NoGateway
      /\ \A d \in Slots \ {c} : y.calls[d] = Idle
      /\ y.calls[c].kind = "start" /\ y.calls[c].pc = "load"
    BY <1>2, FreshFacts
<1>4. r = y.r /\ gw = y.gw /\ calls = y.calls /\ writes = <<>> /\ app = "starting"
    BY <1>1, <1>3
<1>5. Now \in World
    BY <1>3, <1>4 DEF World, Now
<1> HIDE DEF y
<1>6. /\ \A d \in Slots \ {c} : calls[d].kind = "none" /\ calls[d].pc = "idle"
      /\ calls[c].kind = "start" /\ calls[c].pc = "load"
      /\ c \in Slots /\ c # Quit
    BY <1>3, <1>4, IdleFacts, Distinct
<1>7. \A g \in Gateways : gw[g].phase = "none" /\ gw[g].proxies = {}
    BY <1>3, <1>4 DEF NoGateway
<1>8. Typed
    <2>1. disk \in Config /\ restarts \in 0..MaxRestarts
        BY <1>2, RestartsAssumption DEF Config, Ports
    <2> QED
        BY <1>2, <1>5, <2>1 DEF Typed
<1>9. Shapes /\ Apart
    BY <1>4, <1>6 DEF Shapes, Staged, Apart, Starter
<1>10. Queue
    BY <1>4, <1>6 DEF Queue
<1>11. Gates
    BY <1>3, <1>4, <1>6, <1>7 DEF Gates, Relies
<1>12. Truth /\ ShutOff
    BY <1>3, <1>4, <1>6 DEF Truth, ShutOff, Coming, Starting
<1>13. Revocations
    BY <1>2, <1>3, <1>4, <1>6, <1>7 DEF Revocations, Revoking
<1> QED
    BY <1>8, <1>9, <1>10, <1>11, <1>12, <1>13 DEF IInv

LEMMA Stutter == ASSUME IInv, UNCHANGED vars PROVE IInv'
<1> USE DEF IInv, vars
<1>1. Typed'
    BY DEF Typed, Now
<1>2. Shapes' /\ Apart' /\ Queue'
    BY DEF Shapes, Apart, Starter, Queue
<1>3. Gates'
    BY DEF Gates, Relies, Silent
<1>4. Truth' /\ ShutOff'
    BY DEF Truth, ShutOff, Alive, Coming
<1>5. Revocations'
    BY RevocationsSame DEF RevokesAsBefore, ServesKnown
<1> QED
    BY <1>1, <1>2, <1>3, <1>4, <1>5

LEMMA SettlesStep == ASSUME IInv, NEW c \in Slots, Settles(c) PROVE IInv'
<1>1. ASSUME NEW g \in Gateways, Certified(c, g) PROVE IInv'
    BY <1>1, CertifiedStep
<1>2. ASSUME NEW ok \in BOOLEAN, Cleared(c, ok) PROVE IInv'
    BY <1>2, ClearedStep
<1>3. ASSUME NEW ok \in BOOLEAN, Bootstrapped(c, ok) PROVE IInv'
    BY <1>3, BootstrappedStep
<1> QED
    BY <1>1, <1>2, <1>3, LoadedStep, CertificatesFailStep, ListensStep, ListenFailsStep,
       GatewayEndsStep DEF Settles

LEMMA RemoteStep == ASSUME IInv, Remote PROVE IInv'
<1>1. PICK g \in Gateways :
          \/ BootstrapExpires(g)
          \/ \E d \in Devices : \/ \E c \in Calls : Pair(c, d, g)
                                \/ \E seen \in BOOLEAN : Connect(d, g, seen)
                                \/ Disconnect(d, g)
    BY DEF Remote
<1>2. CASE BootstrapExpires(g)
    BY <1>2, BootstrapExpiresStep
<1>3. ASSUME NEW d \in Devices, NEW c \in Calls, Pair(c, d, g) PROVE IInv'
    BY <1>3, PairStep
<1>4. ASSUME NEW d \in Devices, NEW seen \in BOOLEAN, Connect(d, g, seen) PROVE IInv'
    BY <1>4, ConnectStep
<1>5. ASSUME NEW d \in Devices, Disconnect(d, g) PROVE IInv'
    BY <1>5, DisconnectStep
<1> QED
    BY <1>1, <1>2, <1>3, <1>4, <1>5

LEMMA NextIInv == IInv /\ [OrderlyNext]_vars => IInv'
<1> SUFFICES ASSUME IInv, [OrderlyNext]_vars PROVE IInv'
    OBVIOUS
<1>1. ASSUME NEW c \in Slots,
             \/ Enable(c) /\ ~Busy({"enable", "disable", "ports", "revokeAll"})
             \/ Disable(c) /\ ~Busy({"disable", "ports", "revokeAll"})
             \/ UpdatePorts(c) /\ ~Busy({"enable", "disable", "ports", "revokeAll"})
             \/ RevokeAll(c) /\ ~Busy({"enable", "disable", "ports", "revokeAll"})
             \/ RevokeDevice(c) \/ BeginPairing(c) \/ Settles(c)
      PROVE  IInv'
    BY <1>1, EnableStep, DisableStep, UpdatePortsStep, RevokeAllStep, RevokeDeviceStep,
       BeginPairingStep, SettlesStep
<1>2. ASSUME NEW ok \in BOOLEAN, Written(ok) /\ (WritesDisable => ok) PROVE IInv'
    BY <1>2, WrittenStep
<1>3. CASE Remote
    BY <1>3, RemoteStep
<1>4. CASE StepTimesOut \/ Exit
    BY <1>4, StepTimesOutStep, ExitStep
<1>5. CASE QuitBegins /\ ~Busy({"ports", "revokeAll"})
    BY <1>5, QuitBeginsStep
<1>6. ASSUME NEW torn \in BOOLEAN, Restart(torn) PROVE IInv'
    BY <1>6, RestartStep
<1>7. CASE UNCHANGED vars
    BY <1>7, Stutter
<1> QED
    BY <1>1, <1>2, <1>3, <1>4, <1>5, <1>6, <1>7 DEF OrderlyNext

LEMMA Invariant == OrderlySpec => []IInv
BY InitIInv, NextIInv, PTL DEF OrderlySpec

---------------------------------------------------------------------------
(* The theorems                                                            *)

\* A gateway whose listeners are open, or will be, is the one of the service or
\* the business of a call that awaits it: a start that a disable() or the end of
\* the program overtakes at any of its awaits leaves none behind.
THEOREM NoGatewayIsLost == OrderlySpec => []NoOrphanGateway
BY Invariant, MeansNoOrphan, PTL

\* With no call in progress the status is "running" exactly when the gateway of
\* the service accepts connections.
THEOREM StatusTellsTheTruth == OrderlySpec => []StatusIsTrue
BY Invariant, MeansTrueStatus, PTL

\* With no call in progress and remote access off, nothing listens and no device
\* is connected.
THEOREM OffMeansClosed == OrderlySpec => []DisabledIsClosed
BY Invariant, MeansClosed, PTL

\* A device whose revocation has returned is in no configuration, in memory or
\* on the disk, and on no connection, whatever was queued or crashed since.
THEOREM RevokedForGood == OrderlySpec => []RevokedIsGone
BY Invariant, MeansGone, PTL

\* Type correctness, and that only issued devices are ever gone.
THEOREM TypeCorrect == OrderlySpec => []TypeOK
<1>1. IInv => TypeOK
    <2>1. Typed => \A i \in DOMAIN writes : writes[i] \in Write
        BY DEF Typed, World, Now
    <2>2. Typed => r \in Fields /\ gw \in [Gateways -> Gateway] /\ calls \in [Slots -> Call] /\ app \in Apps
        BY DEF Typed, World, Now
    <2> QED
        BY <2>1, <2>2 DEF IInv, Typed, Revocations, TypeOK, Fields, Write, Apps
<1> QED
    BY <1>1, Invariant, PTL
================================================================================

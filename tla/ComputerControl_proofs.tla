------------------------ MODULE ComputerControl_proofs ------------------------
(***************************************************************************)
(* Proofs about ComputerControl for any number of calls and turns.  First   *)
(* the types and the windows, then who holds access, without any assumption *)
(* on the order of events; then what the user has granted and what he sees  *)
(* of it, under OrderlySpec; and what input that reaches the window has     *)
(* behind it, under Spec.                                                   *)
(***************************************************************************)
EXTENDS ComputerControl, TLAPS

---------------------------------------------------------------------------
(* Types                                                                   *)

Fields == [setting : {"off", "observe", "control"}, access : Grant \cup {None},
           control : Control \cup {None}, decision : Grant \cup {None},
           target : BOOLEAN, denied : SUBSET Turns, listed : BOOLEAN, frame : BOOLEAN,
           busy : Slots \cup {None}, resuming : Slots \cup {None},
           trusted : Slots \cup {None}, flight : Slots \cup {None},
           health : Slots \cup {None}, monitor : BOOLEAN, beat : BOOLEAN,
           early : {"none", "open", "paused"}]

Way == {"none", "starting", "sent"}
Links == [proc : {"none", "starting", "doomed", "up"}, beat : Way, pause : Way, stop : Way]

Natives  == {"idle", "begun", "arming", "active", "cancelled", "paused"}
Overlays == {"closed", "opening", "doomed", "open"}

World == [s : Fields, flows : [Slots -> Flow], link : Links, native : Natives,
          overlay : Overlays, consent : [Turns -> SUBSET Modes]]

---------------------------------------------------------------------------
(* The inductive invariant, of a state w of the service in which the call h   *)
(* may be between two of its awaits                                          *)

\* Where a call of each kind can be.
Places == [none |-> {"idle"}, hello |-> {"queued", "hello"}, request |-> {"readiness"},
           trust |-> {"readiness", "queued", "validate"} \cup Starting,
           list |-> {"queued", "list", "thumbs"}, decide |-> {"queued", "select"} \cup Starting,
           resume |-> Starting \cup {"observe"}, observe |-> {"queued", "validate", "observe"},
           act |-> {"readiness", "queued", "validate", "act"}, probe |-> {"validate"}]

Methods == {"hello", "list", "select", "validate", "target", "start", "observe", "act"}

\* What a call can wait for at each of its awaits.
Waits(fl) ==
    /\ fl.pc \in {"idle", "queued", "waiting", "thumbs"} => fl.req = "none"
    /\ fl.pc = "readiness" => fl.req \in {"none", "kept"}
    /\ fl.pc = "overlay" => fl.req \in {"none", "kept", "broken"}
    /\ fl.pc \in Methods => fl.req # "none"

Placed(w, h) ==
    \A f \in Slots \ {h} : w.flows[f].pc \in Places[w.flows[f].kind] /\ Waits(w.flows[f])

\* Each lock has a call of its kind, which is past the readiness of the helper.
Owned(w, h) ==
    /\ w.s.busy # None =>
           /\ w.flows[w.s.busy].kind \in {"observe", "act", "resume"}
           /\ w.flows[w.s.busy].kind = "resume" => w.s.resuming = w.s.busy
           /\ w.s.busy # h => w.flows[w.s.busy].pc # "readiness"
    /\ w.s.resuming # None =>
           w.flows[w.s.resuming].kind = "resume" /\ w.s.busy = w.s.resuming
    /\ w.s.health # None => w.flows[w.s.health].kind = "probe"
    /\ w.s.trusted # None =>
           /\ w.flows[w.s.trusted].kind = "trust"
           /\ w.s.trusted # h => w.flows[w.s.trusted].pc # "readiness"
    /\ w.s.flight # None => w.flows[w.s.flight].kind = "hello"
    /\ w.s.early # "none" => \E f \in Slots : w.flows[f].pc = "start"

\* The helper has one request at a time, and it is up then.
OneRequest(w, h) ==
    /\ \A f, g \in Slots \ {h} : UnderWay(w.flows[f]) /\ UnderWay(w.flows[g]) => f = g
    /\ \A f \in Slots \ {h} :
           /\ UnderWay(w.flows[f]) => w.link.proc = "up"
           /\ w.flows[f].req = "starting" => w.link.proc \in {"starting", "doomed"}

\* A call of the observation tool that nothing has overtaken.
Observes(fl) == fl.kind = "observe" /\ fl.fresh

\* A call that knows the helper to be ready and may ask for another access.
Asks(fl) == fl.pc = "readiness" /\ fl.req = "kept" /\ fl.fresh

\* What may publish an observation has the access, in turn t.
Accessed(w, h, t) ==
    /\ w.s.frame => w.s.access # None
    /\ \A f \in Slots \ {h} :
           /\ w.flows[f].kind = "resume" /\ w.flows[f].same => w.s.access # None
           /\ Observes(w.flows[f]) =>
                  w.s.access # None /\ w.s.access.turn = t /\ w.flows[f].turn = t
    /\ \A f, g \in Slots \ {h} : ~(Asks(w.flows[f]) /\ Observes(w.flows[g]))

\* What a resumption resumes is still there.
Resumes(w, h) ==
    \A f \in Slots \ {h} : w.flows[f].kind = "resume" /\ w.flows[f].fresh =>
        w.s.control # None /\ w.s.control.state # "cancelled"

Good(w, h, t) ==
    /\ w \in World
    /\ Placed(w, h) /\ Owned(w, h) /\ OneRequest(w, h) /\ Accessed(w, h, t) /\ Resumes(w, h)

IInv == Good(Now, None, turn) /\ turn \in 1..MaxTurns + 1

USE SlotsAssumption, TurnsAssumption, NoneAssumption

---------------------------------------------------------------------------
(* Parts of the state                                                      *)

\* All but the fields of the service, the calls, the link.
SameFrame(w, y) == y.native = w.native /\ y.overlay = w.overlay /\ y.consent = w.consent

LEMMA WithFlows ==
    ASSUME NEW w \in World, NEW k \in [Slots -> Flow], NEW y, y = [w EXCEPT !.flows = k]
    PROVE  /\ y \in World /\ y.flows = k /\ y.s = w.s /\ y.link = w.link /\ SameFrame(w, y)
BY DEF World, SameFrame

LEMMA WithFields ==
    ASSUME NEW w \in World, NEW k \in Fields, NEW y, y = [w EXCEPT !.s = k]
    PROVE  /\ y \in World /\ y.s = k /\ y.flows = w.flows /\ y.link = w.link /\ SameFrame(w, y)
BY DEF World, SameFrame

LEMMA WithLink ==
    ASSUME NEW w \in World, NEW k \in Links, NEW y, y = [w EXCEPT !.link = k]
    PROVE  /\ y \in World /\ y.link = k /\ y.s = w.s /\ y.flows = w.flows /\ SameFrame(w, y)
BY DEF World, SameFrame

LEMMA Parts ==
    ASSUME NEW w \in World
    PROVE  /\ w.s \in Fields /\ w.flows \in [Slots -> Flow] /\ w.link \in Links
           /\ \A f \in Slots : w.flows[f] \in Flow
BY DEF World

LEMMA IdleIsFlow == Idle \in Flow
BY DEF Idle, Flow, Kinds, Awaits, Promises, Modes, Turns

---------------------------------------------------------------------------
(* What the functions of the state make of it                              *)

\* The call is where it was, and no more up to date.
Dimmer(fl, gl) ==
    /\ gl.kind = fl.kind /\ gl.pc = fl.pc /\ gl.req = fl.req /\ gl.turn = fl.turn
    /\ gl.mode = fl.mode
    /\ (gl.fresh => fl.fresh) /\ (gl.same => fl.same)

Dimmed(w, y) == \A g \in Slots : Dimmer(w.flows[g], y.flows[g])

LEMMA ReplacedFacts ==
    ASSUME NEW w \in World, NEW kinds, NEW y, y = Replaced(w, kinds)
    PROVE  /\ y \in World /\ y.s = w.s /\ y.link = w.link /\ SameFrame(w, y)
           /\ Dimmed(w, y)
           /\ \A g \in Slots : w.flows[g].kind \in kinds => ~y.flows[g].same
           /\ \A g \in Slots : y.flows[g].fresh <=> w.flows[g].fresh
<1> DEFINE e(g) == [w.flows[g] EXCEPT !.same = @ /\ w.flows[g].kind \notin kinds]
           k == [g \in Slots |-> e(g)]
<1>1. ASSUME NEW g \in Slots
      PROVE  /\ e(g) \in Flow /\ Dimmer(w.flows[g], e(g))
             /\ w.flows[g].kind \in kinds => ~e(g).same
             /\ e(g).fresh <=> w.flows[g].fresh
    BY Parts DEF Flow, Dimmer
<1>2. y = [w EXCEPT !.flows = k]
    BY Zenon DEF Replaced
<1> HIDE DEF e
<1>3. k \in [Slots -> Flow] /\ \A g \in Slots : k[g] = e(g)
    BY <1>1
<1> HIDE DEF k
<1>4. y \in World /\ y.flows = k /\ y.s = w.s /\ y.link = w.link /\ SameFrame(w, y)
    BY <1>2, <1>3, WithFlows
<1> QED
    BY <1>1, <1>3, <1>4 DEF Dimmed

LEMMA BumpedFacts ==
    ASSUME NEW w \in World, NEW f, NEW y, y = Bumped(w, f)
    PROVE  /\ y \in World /\ y.s = w.s /\ y.link = w.link /\ SameFrame(w, y)
           /\ Dimmed(w, y)
           /\ \A g \in Slots : g # f => ~y.flows[g].fresh
           /\ \A g \in Slots : y.flows[g].same <=> w.flows[g].same
<1> DEFINE e(g) == [w.flows[g] EXCEPT !.fresh = @ /\ g = f]
           k == [g \in Slots |-> e(g)]
<1>1. ASSUME NEW g \in Slots
      PROVE  /\ e(g) \in Flow /\ Dimmer(w.flows[g], e(g))
             /\ g # f => ~e(g).fresh
             /\ e(g).same <=> w.flows[g].same
    BY Parts DEF Flow, Dimmer
<1>2. y = [w EXCEPT !.flows = k]
    BY Zenon DEF Bumped
<1> HIDE DEF e
<1>3. k \in [Slots -> Flow] /\ \A g \in Slots : k[g] = e(g)
    BY <1>1
<1> HIDE DEF k
<1>4. y \in World /\ y.flows = k /\ y.s = w.s /\ y.link = w.link /\ SameFrame(w, y)
    BY <1>2, <1>3, WithFlows
<1> QED
    BY <1>1, <1>3, <1>4 DEF Dimmed

\* The fields that locks and access are about are the same.
SameLocks(r, d) ==
    /\ d.busy = r.busy /\ d.resuming = r.resuming /\ d.trusted = r.trusted
    /\ d.flight = r.flight /\ d.health = r.health /\ d.early = r.early

SameAccess(r, d) == d.access = r.access /\ d.control = r.control /\ d.decision = r.decision

LEMMA FramedFacts ==
    ASSUME NEW w \in World, NEW shown \in BOOLEAN, NEW y, y = Framed(w, shown)
    PROVE  /\ y \in World /\ y.link = w.link /\ SameFrame(w, y)
           /\ Dimmed(w, y)
           /\ \A g \in Slots : /\ y.flows[g].fresh <=> w.flows[g].fresh
                               /\ y.flows[g].same <=> w.flows[g].same
           /\ SameLocks(w.s, y.s) /\ SameAccess(w.s, y.s) /\ (y.s.frame <=> shown)
           /\ y.s.denied = w.s.denied /\ y.s.setting = w.s.setting
<1> DEFINE e(g) == [w.flows[g] EXCEPT !.latest = FALSE]
           k == [g \in Slots |-> e(g)]
           d == [w.s EXCEPT !.frame = shown]
<1>1. ASSUME NEW g \in Slots
      PROVE  /\ e(g) \in Flow /\ Dimmer(w.flows[g], e(g))
             /\ e(g).fresh <=> w.flows[g].fresh
             /\ e(g).same <=> w.flows[g].same
    BY Parts DEF Flow, Dimmer
<1>2. y = [w EXCEPT !.s = d, !.flows = k]
    BY DEF Framed, World
<1>3. /\ d \in Fields /\ SameLocks(w.s, d) /\ SameAccess(w.s, d) /\ (d.frame <=> shown)
      /\ d.denied = w.s.denied /\ d.setting = w.s.setting
    BY Parts DEF Fields, SameLocks, SameAccess
<1> HIDE DEF e
<1>4. k \in [Slots -> Flow] /\ \A g \in Slots : k[g] = e(g)
    BY <1>1
<1> HIDE DEF k, d
<1>5. y \in World /\ y.flows = k /\ y.s = d /\ y.link = w.link /\ SameFrame(w, y)
    BY <1>2, <1>3, <1>4 DEF World, SameFrame
<1> QED
    BY <1>1, <1>3, <1>4, <1>5 DEF Dimmed

LEMMA SignalFacts ==
    ASSUME NEW w \in World, NEW g \in Signals, NEW y, y = Signal(w, g)
    PROVE  /\ y \in World /\ y.s = w.s /\ y.flows = w.flows /\ SameFrame(w, y)
           /\ w.link.proc # "none" => y.link.proc = w.link.proc
           /\ w.link.proc = "none" => y.link.proc # "up"
           /\ y.link[g] # "none"
           /\ \A k \in Signals \ {g} : y.link[k] = w.link[k]
BY DEF Signal, Signals, World, Links, Way, SameFrame

LEMMA CloseOverlayFacts ==
    ASSUME NEW w \in World, NEW y, y = CloseOverlay(w)
    PROVE  /\ y \in World /\ y.s = w.s /\ y.flows = w.flows /\ y.native = w.native
           /\ y.link = w.link /\ y.consent = w.consent /\ y.overlay \in {"doomed", "closed"}
BY DEF CloseOverlay, World, Overlays

LEMMA UnlinkedFacts ==
    ASSUME NEW w \in World, NEW y, y = Unlinked(w)
    PROVE  /\ y \in World /\ y.s = w.s /\ y.flows = w.flows
           /\ y.overlay = w.overlay /\ y.consent = w.consent /\ y.native = "idle"
           /\ w.link.proc \in {"starting", "doomed"} => y.link.proc = "doomed"
BY DEF Unlinked, World, Links, Way, Natives

LEMMA CheckingTyped ==
    ASSUME NEW w \in World PROVE Checking(w) \subseteq Turns
BY DEF Checking, World, Flow

LEMMA TurnOfTyped ==
    ASSUME NEW grant \in Grant \cup {None} PROVE TurnOf(grant) \subseteq Turns
BY DEF TurnOf, Grant

---------------------------------------------------------------------------
(* revoke(), pause() and finish()                                          *)

LEMMA CancelledTyped ==
    ASSUME NEW control \in Control \cup {None} PROVE Cancelled(control) \in Control \cup {None}
BY DEF Cancelled, Control

LEMMA WithoutTyped ==
    ASSUME NEW slot \in Slots \cup {None}, NEW gone
    PROVE  Without(slot, gone) \in Slots \cup {None}
BY DEF Without

LEMMA NoConsent == [t \in Turns |-> {}] \in [Turns -> SUBSET Modes]
OBVIOUS

\* The lock is free, or held by the call it was held by, which is none of gone.
Freed(old, new, gone) == new = None \/ (new = old /\ new \notin gone)

LEMMA RevokedFacts ==
    ASSUME NEW w \in World, NEW y, y = Revoked(w)
    PROVE  /\ y \in World
           /\ \A g \in Slots : Rejected(w.flows[g]) => y.flows[g] = Idle
           /\ \A g \in Slots : ~Rejected(w.flows[g]) =>
                  /\ Dimmer(w.flows[g], y.flows[g]) /\ ~y.flows[g].fresh
                  /\ w.flows[g].kind = "resume" => ~y.flows[g].same
           /\ y.s.access = None /\ y.s.decision = None /\ y.s.busy = None
           /\ y.s.resuming = None /\ y.s.flight = None /\ y.s.early = "none" /\ ~y.s.frame
           /\ Freed(w.s.trusted, y.s.trusted, {g \in Slots : Rejected(w.flows[g])})
           /\ Freed(w.s.health, y.s.health, {g \in Slots : Rejected(w.flows[g])})
           /\ w.link.proc \in {"starting", "doomed"} => y.link.proc = "doomed"
           /\ y.s.control = Cancelled(w.s.control) /\ y.native = "idle"
           /\ w.s.control = None => y.overlay \in {"doomed", "closed"}
<1> DEFINE gone == {g \in Slots : Rejected(w.flows[g])}
           x1 == Replaced(w, {"list", "resume"})
           x2 == Bumped(x1, None)
           x3 == Framed(x2, FALSE)
           x == Unlinked(x3)
           ended == TurnOf(w.s.access) \cup TurnOf(w.s.decision)
           fields == [x.s EXCEPT
                        !.access = None, !.decision = None, !.target = FALSE,
                        !.denied = @ \cup ended \cup Checking(w),
                        !.listed = FALSE, !.busy = None, !.resuming = None,
                        !.flight = None, !.monitor = FALSE, !.beat = FALSE, !.early = "none",
                        !.trusted = Without(@, gone), !.health = Without(@, gone),
                        !.control = Cancelled(@)]
           k == [g \in Slots |-> IF g \in gone THEN Idle ELSE x.flows[g]]
           z == [x EXCEPT !.s = fields, !.flows = k, !.consent = [t \in Turns |-> {}]]
<1>1. y = IF w.s.control = None THEN CloseOverlay(z) ELSE z
    BY DEF Revoked
<1>2. /\ x1 \in World /\ x1.s = w.s /\ x1.link = w.link /\ Dimmed(w, x1)
      /\ \A g \in Slots : w.flows[g].kind = "resume" => ~x1.flows[g].same
    BY ReplacedFacts
<1> HIDE DEF x1
<1>3. /\ x2 \in World /\ x2.s = w.s /\ x2.link = w.link /\ Dimmed(x1, x2)
      /\ \A g \in Slots : ~x2.flows[g].fresh
    BY <1>2, BumpedFacts
<1> HIDE DEF x2
<1>4. /\ x3 \in World /\ SameLocks(w.s, x3.s) /\ SameAccess(w.s, x3.s) /\ ~x3.s.frame
      /\ x3.link = w.link /\ Dimmed(x2, x3)
    BY <1>3, FramedFacts
<1> HIDE DEF x3
<1>5. /\ x \in World /\ x.s = x3.s /\ x.flows = x3.flows /\ x.native = "idle"
      /\ w.link.proc \in {"starting", "doomed"} => x.link.proc = "doomed"
    BY <1>4, UnlinkedFacts
<1> HIDE DEF x
<1>6. \A g \in Slots :
          /\ x.flows[g] \in Flow
          /\ Dimmer(w.flows[g], x.flows[g]) /\ ~x.flows[g].fresh
          /\ w.flows[g].kind = "resume" => ~x.flows[g].same
    BY <1>2, <1>3, <1>4, <1>5, Parts DEF Dimmed, Dimmer
<1>7. /\ fields \in Fields
      /\ fields.access = None /\ fields.decision = None /\ fields.busy = None
      /\ fields.resuming = None /\ fields.flight = None /\ fields.early = "none"
      /\ ~fields.frame
      /\ fields.trusted = Without(w.s.trusted, gone)
      /\ fields.health = Without(w.s.health, gone)
      /\ fields.control = Cancelled(w.s.control)
    <2> HIDE DEF gone
    <2>1. ended \subseteq Turns /\ Checking(w) \subseteq Turns
        BY CheckingTyped, TurnOfTyped, Parts DEF Fields
    <2>2. /\ x.s \in Fields /\ ~x.s.frame /\ x.s.trusted = w.s.trusted /\ x.s.health = w.s.health
          /\ x.s.control = w.s.control
        BY <1>4, <1>5, Parts DEF SameLocks, SameAccess
    <2>3. /\ Without(x.s.trusted, gone) \in Slots \cup {None}
          /\ Without(x.s.health, gone) \in Slots \cup {None}
          /\ Cancelled(x.s.control) \in Control \cup {None}
        BY <2>2, WithoutTyped, CancelledTyped DEF Fields
    <2>4. x.s.denied \cup ended \cup Checking(w) \in SUBSET Turns
        BY <2>1, <2>2 DEF Fields
    <2> HIDE DEF ended
    <2> QED
        BY ZenonT(60), <2>2, <2>3, <2>4 DEF Fields
<1> HIDE DEF fields
<1>8. k \in [Slots -> Flow] /\ \A g \in Slots : k[g] = IF g \in gone THEN Idle ELSE x.flows[g]
    BY <1>6, IdleIsFlow
<1> HIDE DEF k
<1>9. z \in World /\ z.s = fields /\ z.flows = k /\ z.link = x.link /\ z.native = "idle"
    BY <1>5, <1>7, <1>8, NoConsent DEF World
<1> HIDE DEF z
<1>10. /\ y \in World /\ y.s = fields /\ y.flows = k /\ y.link = x.link
       /\ y.native = "idle"
       /\ w.s.control = None => y.overlay \in {"doomed", "closed"}
    BY <1>1, <1>9, CloseOverlayFacts
<1>11. /\ Freed(w.s.trusted, y.s.trusted, gone) /\ Freed(w.s.health, y.s.health, gone)
    BY <1>7, <1>10 DEF Freed, Without
<1>12. \A g \in Slots : g \in gone <=> Rejected(w.flows[g])
    OBVIOUS
<1> QED
    <2> HIDE DEF gone
    <2>1. \A g \in Slots : Rejected(w.flows[g]) => y.flows[g] = Idle
        BY <1>8, <1>10, <1>12
    <2>2. \A g \in Slots : ~Rejected(w.flows[g]) => y.flows[g] = x.flows[g]
        BY <1>8, <1>10, <1>12
    <2>3. w.link.proc \in {"starting", "doomed"} => y.link.proc = "doomed"
        BY <1>5, <1>10
    <2> USE DEF gone
    <2> QED
        BY <1>6, <1>7, <1>10, <1>11, <2>1, <2>2, <2>3

LEMMA IdleFacts ==
    /\ Idle.kind = "none" /\ Idle.pc = "idle" /\ Idle.req = "none" /\ ~Idle.fresh /\ ~Idle.same
    /\ Idle.pc \in Places[Idle.kind] /\ Waits(Idle)
BY DEF Idle, Places, Waits, Methods

\* A call that is no more up to date is placed as before.
LEMMA DimmerPlaced ==
    ASSUME NEW fl, NEW gl, Dimmer(fl, gl), fl.pc \in Places[fl.kind], Waits(fl)
    PROVE  gl.pc \in Places[gl.kind] /\ Waits(gl)
BY DEF Dimmer, Waits

\* A state in which no call is up to date, and no access is held.
Barren(y) ==
    /\ ~y.s.frame
    /\ \A g \in Slots : ~y.flows[g].fresh /\ (y.flows[g].kind = "resume" => ~y.flows[g].same)

LEMMA BarrenIsFine ==
    ASSUME NEW y, NEW h, NEW t, Barren(y) PROVE Accessed(y, h, t) /\ Resumes(y, h)
BY DEF Barren, Accessed, Resumes, Observes, Asks

LEMMA RevokedGood ==
    ASSUME NEW w, NEW h, NEW t, NEW u, Good(w, h, t) PROVE Good(Revoked(w), h, u)
<1> DEFINE y == Revoked(w)
<1>1. w \in World
    BY DEF Good
<1>2. /\ y \in World
      /\ \A g \in Slots : Rejected(w.flows[g]) => y.flows[g] = Idle
      /\ \A g \in Slots : ~Rejected(w.flows[g]) =>
             /\ Dimmer(w.flows[g], y.flows[g]) /\ ~y.flows[g].fresh
             /\ w.flows[g].kind = "resume" => ~y.flows[g].same
      /\ y.s.access = None /\ y.s.decision = None /\ y.s.busy = None
      /\ y.s.resuming = None /\ y.s.flight = None /\ y.s.early = "none" /\ ~y.s.frame
      /\ Freed(w.s.trusted, y.s.trusted, {g \in Slots : Rejected(w.flows[g])})
      /\ Freed(w.s.health, y.s.health, {g \in Slots : Rejected(w.flows[g])})
      /\ w.link.proc \in {"starting", "doomed"} => y.link.proc = "doomed"
    BY <1>1, RevokedFacts
<1> HIDE DEF y
<1>3. Placed(y, h)
    <2> SUFFICES ASSUME NEW g \in Slots \ {h}
                 PROVE  y.flows[g].pc \in Places[y.flows[g].kind] /\ Waits(y.flows[g])
        BY DEF Placed
    <2>1. CASE Rejected(w.flows[g])
        BY <1>2, <2>1, IdleFacts
    <2>2. CASE ~Rejected(w.flows[g])
        <3>1. w.flows[g].pc \in Places[w.flows[g].kind] /\ Waits(w.flows[g])
            BY DEF Good, Placed
        <3> QED
            BY <1>2, <2>2, <3>1, DimmerPlaced
    <2> QED
        BY <2>1, <2>2
<1>4. Owned(y, h)
    <2>1. y.s.trusted # None => /\ y.s.trusted \in Slots /\ y.s.trusted = w.s.trusted
                                /\ Dimmer(w.flows[w.s.trusted], y.flows[w.s.trusted])
        BY <1>2, Parts DEF Freed, Fields
    <2>2. y.s.health # None => /\ y.s.health \in Slots /\ y.s.health = w.s.health
                               /\ Dimmer(w.flows[w.s.health], y.flows[w.s.health])
        BY <1>2, Parts DEF Freed, Fields
    <2> QED
        BY <1>2, <2>1, <2>2 DEF Owned, Good, Dimmer
<1>5. OneRequest(y, h)
    <2>1. \A g \in Slots : ~UnderWay(y.flows[g])
        BY <1>2, IdleFacts DEF UnderWay, Rejected, Dimmer
    <2>2. \A g \in Slots : y.flows[g].req = "starting" => w.flows[g].req = "starting"
        BY <1>2, IdleFacts DEF Dimmer
    <2> QED
        BY <1>2, <2>1, <2>2 DEF OneRequest, Good
<1>6. Barren(y)
    BY <1>2, IdleFacts DEF Barren, Dimmer
<1> QED
    BY <1>2, <1>3, <1>4, <1>5, <1>6, BarrenIsFine DEF Good, y

LEMMA PausedFacts ==
    ASSUME NEW w \in World, NEW y, y = Paused(w)
    PROVE  /\ y \in World /\ Dimmed(w, y)
           /\ SameLocks(w.s, y.s) /\ y.s.access = w.s.access
           /\ y.s.frame => w.s.frame
           /\ ((\A g \in Slots : ~y.flows[g].fresh) /\ y.link.pause # "none") \/ y = w
           /\ w.link.proc # "none" => y.link.proc = w.link.proc
           /\ w.link.proc = "none" => y.link.proc # "up"
           /\ y.native = w.native
           /\ y.overlay = w.overlay /\ y.consent = w.consent /\ y.s.decision = w.s.decision
           /\ y.s.control = None <=> w.s.control = None
           /\ y.s.control # None => y.s.control.state # "running"
<1> DEFINE x1 == Bumped(w, None)
           x2 == Framed(x1, FALSE)
           c == [w.s.control EXCEPT !.state = "paused", !.resuming = FALSE]
           d == [x2.s EXCEPT !.control = c]
           x3 == [x2 EXCEPT !.s = d]
<1>1. CASE w.s.control = None \/ w.s.control.state = "cancelled"
    <2>1. y = w
        BY <1>1 DEF Paused
    <2> QED
        BY <1>1, <2>1, Parts DEF Dimmed, Dimmer, SameLocks
<1>2. CASE ~(w.s.control = None \/ w.s.control.state = "cancelled")
    <2>1. /\ x1 \in World /\ x1.s = w.s /\ x1.link = w.link /\ Dimmed(w, x1)
          /\ SameFrame(w, x1) /\ \A g \in Slots : ~x1.flows[g].fresh
        BY BumpedFacts
    <2>2. x3 = [x2 EXCEPT !.s.control.state = "paused", !.s.control.resuming = FALSE]
        <3> HIDE DEF x1
        <3>1. x2 \in World /\ SameAccess(x1.s, x2.s)
            BY <2>1, FramedFacts
        <3> HIDE DEF x2
        <3> QED
            BY ZenonT(60), <1>2, <2>1, <3>1 DEF World, Fields, Control, SameAccess
    <2>3. y = Signal(x3, "pause")
        BY <1>2, <2>2 DEF Paused
    <2> HIDE DEF x1
    <2>4. /\ x2 \in World /\ SameLocks(w.s, x2.s) /\ SameAccess(w.s, x2.s) /\ ~x2.s.frame
          /\ x2.link = w.link /\ Dimmed(x1, x2) /\ SameFrame(x1, x2)
          /\ \A g \in Slots : ~x2.flows[g].fresh
        BY <2>1, FramedFacts
    <2> HIDE DEF x2
    <2>5. c \in Control /\ c.state = "paused"
        BY <1>2, Parts DEF Fields, Control
    <2> HIDE DEF c
    <2>6. /\ d \in Fields /\ SameLocks(w.s, d) /\ d.access = w.s.access /\ ~d.frame
          /\ d.control = c /\ d.decision = w.s.decision
        BY <2>4, <2>5, Parts DEF Fields, SameLocks, SameAccess
    <2> HIDE DEF d
    <2>7. /\ x3 \in World /\ x3.s = d /\ x3.flows = x2.flows /\ x3.link = w.link
          /\ SameFrame(x2, x3)
        BY <2>4, <2>6, WithFields
    <2> HIDE DEF x3
    <2>8. /\ y \in World /\ y.s = d /\ y.flows = x2.flows /\ SameFrame(x3, y)
          /\ w.link.proc # "none" => y.link.proc = w.link.proc
          /\ w.link.proc = "none" => y.link.proc # "up"
          /\ y.link.pause # "none"
        BY <2>3, <2>7, SignalFacts DEF Signals
    <2>9. y.overlay = w.overlay /\ y.consent = w.consent /\ y.native = w.native
        BY <2>1, <2>4, <2>7, <2>8 DEF SameFrame
    <2> QED
        BY <1>2, <2>1, <2>4, <2>5, <2>6, <2>8, <2>9 DEF Dimmed, Dimmer
<1> QED
    BY <1>1, <1>2

\* Steps that move no call, take no lock and leave the access alone.
LEMMA DimmedGood ==
    ASSUME NEW w, NEW h, NEW t, NEW y \in World, Good(w, h, t),
           Dimmed(w, y), SameLocks(w.s, y.s), y.s.access = w.s.access,
           y.s.frame => w.s.frame, Resumes(y, h),
           w.link.proc # "none" => y.link.proc = w.link.proc
    PROVE  Good(y, h, t)
<1>1. w \in World
    BY DEF Good
<1>2. Placed(y, h)
    BY DimmerPlaced DEF Placed, Good, Dimmed
<1>3. Owned(y, h)
    BY <1>1, Parts DEF Owned, Good, Dimmed, Dimmer, SameLocks, Fields
<1>4. OneRequest(y, h)
    <2>1. /\ \A g \in Slots : UnderWay(y.flows[g]) => UnderWay(w.flows[g])
          /\ \A g \in Slots : y.flows[g].req = "starting" => w.flows[g].req = "starting"
        BY DEF UnderWay, Dimmed, Dimmer
    <2> QED
        BY <2>1 DEF OneRequest, Good
<1>5. Accessed(y, h, t)
    BY DEF Accessed, Good, Dimmed, Dimmer, Observes, Asks
<1> QED
    BY <1>2, <1>3, <1>4, <1>5 DEF Good

LEMMA PausedGood ==
    ASSUME NEW w, NEW h, NEW t, Good(w, h, t) PROVE Good(Paused(w), h, t)
<1> DEFINE y == Paused(w)
<1>1. w \in World
    BY DEF Good
<1>2. /\ y \in World /\ Dimmed(w, y)
      /\ SameLocks(w.s, y.s) /\ y.s.access = w.s.access
      /\ y.s.frame => w.s.frame
      /\ (\A g \in Slots : ~y.flows[g].fresh) \/ y = w
      /\ w.link.proc # "none" => y.link.proc = w.link.proc
    BY <1>1, PausedFacts
<1> HIDE DEF y
<1>3. Resumes(y, h)
    BY <1>2 DEF Resumes, Good
<1>4. Good(y, h, t)
    BY <1>2, <1>3, DimmedGood
<1> QED
    BY <1>4 DEF y

LEMMA FramedGood ==
    ASSUME NEW w, NEW h, NEW t, Good(w, h, t) PROVE Good(Framed(w, FALSE), h, t)
<1> DEFINE y == Framed(w, FALSE)
<1>1. w \in World
    BY DEF Good
<1>2. /\ y \in World /\ y.link = w.link /\ Dimmed(w, y)
      /\ SameLocks(w.s, y.s) /\ SameAccess(w.s, y.s) /\ ~y.s.frame
    BY <1>1, FramedFacts
<1> HIDE DEF y
<1>3. Resumes(y, h)
    BY <1>2 DEF Resumes, Good, Dimmed, Dimmer, SameAccess
<1>4. Good(y, h, t)
    BY <1>2, <1>3, DimmedGood DEF SameAccess
<1> QED
    BY <1>4 DEF y

\* y is w after the end of a turn that had access, or asked for it.
Bereft(w, y) ==
    /\ y \in World /\ Dimmed(w, y) /\ Barren(y)
    /\ y.s.busy = Without(w.s.busy, {w.s.resuming})
    /\ y.s.resuming = None /\ y.s.early = "none"
    /\ y.s.trusted = w.s.trusted /\ y.s.health = w.s.health /\ y.s.flight = w.s.flight
    /\ w.link.proc # "none" => y.link.proc = w.link.proc
    /\ w.link.proc = "none" => y.link.proc # "up"
    /\ y.native = w.native /\ y.link.stop # "none"
    /\ y.s.access = None /\ y.s.decision = None /\ y.s.control = None
    /\ y.overlay \in {"doomed", "closed"}

LEMMA FinishedFacts ==
    ASSUME NEW w \in World, NEW t \in Turns, NEW y, y = Finished(w, t),
           t \in TurnOf(w.s.access) \cup TurnOf(w.s.decision) \cup Checking(w)
    PROVE  Bereft(w, y)
<1> DEFINE x1 == Replaced(w, {"list", "resume"})
           v == Bumped(x1, None)
           x3 == Framed(v, FALSE)
           x4 == Signal(x3, "stop")
           x == CloseOverlay(x4)
           d == [x.s EXCEPT
                   !.denied = @ \cup TurnOf(w.s.access) \cup ({t} \cap Checking(w)),
                   !.access = None, !.decision = None, !.control = None,
                   !.busy = Without(@, {w.s.resuming}),
                   !.resuming = None, !.beat = FALSE, !.early = "none"]
<1>1. y = [x EXCEPT !.s = d]
    BY Zenon DEF Finished
<1>2. /\ x1 \in World /\ x1.s = w.s /\ x1.link = w.link /\ x1.native = w.native
      /\ Dimmed(w, x1)
      /\ \A g \in Slots : w.flows[g].kind = "resume" => ~x1.flows[g].same
    BY ReplacedFacts DEF SameFrame
<1> HIDE DEF x1
<1>3. /\ v \in World /\ v.s = w.s /\ v.link = w.link /\ v.native = w.native /\ Dimmed(x1, v)
      /\ \A g \in Slots : ~v.flows[g].fresh
    BY <1>2, BumpedFacts DEF SameFrame
<1> HIDE DEF v
<1>4. /\ x3 \in World /\ SameLocks(w.s, x3.s) /\ ~x3.s.frame
      /\ x3.link = w.link /\ x3.native = w.native /\ Dimmed(v, x3)
    BY ZenonT(60), <1>3, FramedFacts DEF SameFrame
<1> HIDE DEF x3
<1>5. /\ x4 \in World /\ x4.s = x3.s /\ x4.flows = x3.flows
      /\ w.link.proc # "none" => x4.link.proc = w.link.proc
      /\ w.link.proc = "none" => x4.link.proc # "up"
      /\ x4.native = w.native /\ x4.link.stop # "none"
    BY <1>4, SignalFacts DEF Signals, SameFrame
<1> HIDE DEF x4
<1>6. /\ x \in World /\ x.s = x3.s /\ x.flows = x3.flows
      /\ w.link.proc # "none" => x.link.proc = w.link.proc
      /\ w.link.proc = "none" => x.link.proc # "up"
      /\ x.native = w.native /\ x.link.stop # "none"
      /\ x.overlay \in {"doomed", "closed"}
    BY <1>5, CloseOverlayFacts
<1> HIDE DEF x
<1>7. /\ d \in Fields /\ ~d.frame
      /\ d.access = None /\ d.decision = None /\ d.control = None
      /\ d.busy = Without(w.s.busy, {w.s.resuming}) /\ d.resuming = None /\ d.early = "none"
      /\ d.trusted = w.s.trusted /\ d.health = w.s.health /\ d.flight = w.s.flight
    <2>1. x.s \in Fields /\ ~x.s.frame /\ SameLocks(w.s, x.s)
        BY <1>4, <1>6, Parts
    <2>2. TurnOf(w.s.access) \subseteq Turns /\ Checking(w) \subseteq Turns
        BY CheckingTyped, TurnOfTyped, Parts DEF Fields
    <2>3. x.s.denied \cup TurnOf(w.s.access) \cup ({t} \cap Checking(w)) \in SUBSET Turns
        BY <2>1, <2>2 DEF Fields
    <2>4. Without(x.s.busy, {w.s.resuming}) \in Slots \cup {None}
        BY <2>1, WithoutTyped DEF Fields
    <2> QED
        BY <2>1, <2>3, <2>4 DEF Fields, SameLocks
<1> HIDE DEF d
<1>8. /\ y \in World /\ y.s = d /\ y.flows = x.flows /\ y.link = x.link
      /\ y.native = x.native /\ y.overlay = x.overlay
    BY <1>1, <1>6, <1>7, WithFields DEF SameFrame
<1>9. Dimmed(w, y) /\ Barren(y)
    BY <1>2, <1>3, <1>4, <1>6, <1>7, <1>8 DEF Dimmed, Dimmer, Barren
<1> QED
    BY <1>6, <1>7, <1>8, <1>9 DEF Bereft

LEMMA FinishedGood ==
    ASSUME NEW w, NEW t \in Turns, NEW u, Good(w, None, t)
    PROVE  Good(Finished(w, t), None, u)
<1> DEFINE y == Finished(w, t)
           mine == {t} \cap (TurnOf(w.s.access) \cup TurnOf(w.s.decision) \cup Checking(w))
<1>1. w \in World
    BY DEF Good
<1>2. CASE mine = {}
    <2>1. y = w
        BY <1>2 DEF Finished
    <2>2. \A g \in Slots : ~Observes(w.flows[g])
        BY <1>2 DEF Good, Accessed, TurnOf
    <2>3. Accessed(w, None, u)
        BY <2>2 DEF Good, Accessed
    <2> QED
        BY <2>1, <2>3 DEF Good
<1>3. CASE mine # {}
    <2>1. t \in TurnOf(w.s.access) \cup TurnOf(w.s.decision) \cup Checking(w)
        BY <1>3
    <2>2. /\ y \in World /\ Dimmed(w, y) /\ Barren(y)
          /\ y.s.busy = Without(w.s.busy, {w.s.resuming})
          /\ y.s.resuming = None /\ y.s.early = "none"
          /\ y.s.trusted = w.s.trusted /\ y.s.health = w.s.health /\ y.s.flight = w.s.flight
          /\ w.link.proc # "none" => y.link.proc = w.link.proc
        <3>1. Bereft(w, y)
            BY <1>1, <2>1, FinishedFacts
        <3> HIDE DEF y
        <3> QED
            BY <3>1 DEF Bereft
    <2> HIDE DEF y
    <2>3. Placed(y, None)
        BY <2>2, DimmerPlaced DEF Placed, Good, Dimmed
    <2>4. Owned(y, None)
        BY <1>1, <2>2, Parts DEF Owned, Good, Dimmed, Dimmer, Without, Fields
    <2>5. OneRequest(y, None)
        <3>1. /\ \A g \in Slots : UnderWay(y.flows[g]) => UnderWay(w.flows[g])
              /\ \A g \in Slots : y.flows[g].req = "starting" => w.flows[g].req = "starting"
            BY <2>2 DEF UnderWay, Dimmed, Dimmer
        <3> QED
            BY <2>2, <3>1 DEF OneRequest, Good
    <2> QED
        BY <2>2, <2>3, <2>4, <2>5, BarrenIsFine DEF Good, y
<1> QED
    BY <1>2, <1>3

---------------------------------------------------------------------------
(* The end of a call                                                       *)

\* The control is there, and cancelled, as before.
SameControl(r, d) ==
    /\ d.control = None <=> r.control = None
    /\ d.control # None => d.control.state = r.control.state

\* The holder of the service's busy mark that lets it go when the call f ends.
Held(w, f) == IF w.flows[f].kind = "resume" /\ w.s.resuming # f THEN {} ELSE {f}

LEMMA ResumingEnds ==
    ASSUME NEW control \in Control \cup {None}, NEW ends \in BOOLEAN, NEW c,
           c = IF control # None /\ ends THEN [control EXCEPT !.resuming = FALSE] ELSE control
    PROVE  /\ c \in Control \cup {None} /\ (c = None <=> control = None)
           /\ c # None => c.state = control.state
<1>1. CASE control = None
    BY <1>1
<1>2. CASE control # None /\ ~ends
    BY <1>2
<1>3. CASE control # None /\ ends
    <2>1. c = [control EXCEPT !.resuming = FALSE] /\ control \in Control
        BY <1>3
    <2>2. c \in Control /\ c.state = control.state
        BY <2>1 DEF Control
    <2> QED
        BY <1>3, <2>2
<1> QED
    BY <1>1, <1>2, <1>3

\* With the call f only calls end that wait for the readiness of the helper.
EndsWith(w, f, y) ==
    \A g \in Slots : y.flows[g] # w.flows[g] =>
        y.flows[g] = Idle /\ (g = f \/ w.flows[g].pc = "readiness")

LEMMA ReleasedFacts ==
    ASSUME NEW w \in World, NEW f \in Slots, NEW y, y = Released(w, f)
    PROVE  /\ y \in World /\ y.link = w.link /\ SameFrame(w, y)
           /\ y.flows[f] = Idle
           /\ EndsWith(w, f, y)
           /\ y.s.access = w.s.access /\ (y.s.frame => w.s.frame) /\ y.s.early = w.s.early
           /\ y.s.decision = w.s.decision
           /\ SameControl(w.s, y.s)
           /\ y.s.busy = Without(w.s.busy, Held(w, f))
           /\ y.s.resuming = Without(w.s.resuming, {f})
           /\ y.s.trusted = Without(w.s.trusted, {f})
           /\ y.s.health = Without(w.s.health, {f})
           /\ y.s.flight = Without(w.s.flight, {f})
<1> DEFINE Ends(g) == \/ g = f
                      \/ w.s.flight = f /\ w.flows[g].pc = "readiness" /\ w.flows[g].req = "none"
           held == Held(w, f)
           k == [g \in Slots |-> IF Ends(g) THEN Idle ELSE w.flows[g]]
           c == IF w.s.control # None /\ w.s.resuming = f
                THEN [w.s.control EXCEPT !.resuming = FALSE] ELSE w.s.control
           d == [w.s EXCEPT !.busy = Without(@, held), !.health = Without(@, {f}),
                            !.trusted = Without(@, {f}), !.flight = Without(@, {f}),
                            !.resuming = Without(@, {f}), !.control = c]
<1>1. y = [w EXCEPT !.flows = k, !.s = d]
    BY Zenon DEF Released, Held
<1>2. /\ k \in [Slots -> Flow] /\ k[f] = Idle
      /\ \A g \in Slots : \/ k[g] = w.flows[g]
                          \/ k[g] = Idle /\ (g = f \/ w.flows[g].pc = "readiness")
    BY Parts, IdleIsFlow
<1> HIDE DEF k
<1>3. c \in Control \cup {None} /\ (c = None <=> w.s.control = None)
      /\ (c # None => c.state = w.s.control.state)
    <2>1. w.s.control \in Control \cup {None}
        BY Parts DEF Fields
    <2>2. (w.s.resuming = f) \in BOOLEAN
        OBVIOUS
    <2> QED
        BY <2>1, <2>2, ResumingEnds
<1> HIDE DEF c
<1>4. /\ d \in Fields /\ d.access = w.s.access /\ (d.frame <=> w.s.frame) /\ d.early = w.s.early
      /\ d.decision = w.s.decision /\ d.control = c /\ d.busy = Without(w.s.busy, held)
      /\ d.resuming = Without(w.s.resuming, {f}) /\ d.trusted = Without(w.s.trusted, {f})
      /\ d.health = Without(w.s.health, {f}) /\ d.flight = Without(w.s.flight, {f})
    <2> DEFINE a1 == Without(w.s.busy, held)
               a2 == Without(w.s.health, {f})
               a3 == Without(w.s.trusted, {f})
               a4 == Without(w.s.flight, {f})
               a5 == Without(w.s.resuming, {f})
    <2>1. w.s \in Fields
        BY Parts
    <2>2. {a1, a2, a3, a4, a5} \subseteq Slots \cup {None}
        BY <2>1, WithoutTyped DEF Fields
    <2>3. d = [w.s EXCEPT !.busy = a1, !.health = a2, !.trusted = a3, !.flight = a4,
                          !.resuming = a5, !.control = c]
        BY Zenon
    <2> HIDE DEF held, a1, a2, a3, a4, a5, d
    <2>4. /\ d \in Fields /\ d.access = w.s.access /\ (d.frame <=> w.s.frame)
          /\ d.early = w.s.early /\ d.decision = w.s.decision /\ d.control = c /\ d.busy = a1 /\ d.resuming = a5
          /\ d.trusted = a3 /\ d.health = a2 /\ d.flight = a4
        BY <2>1, <2>2, <2>3, <1>3 DEF Fields
    <2> QED
        BY <2>4 DEF a1, a2, a3, a4, a5
<1> HIDE DEF d
<1>5. y \in World /\ y.s = d /\ y.flows = k /\ y.link = w.link /\ SameFrame(w, y)
    BY <1>1, <1>2, <1>4 DEF World, SameFrame
<1> QED
    BY <1>2, <1>3, <1>4, <1>5 DEF SameControl, EndsWith

LEMMA ReleasedGood ==
    ASSUME NEW w, NEW f \in Slots, NEW t, Good(w, f, t),
           w.flows[f].pc = "start" => w.s.early = "none"
    PROVE  Good(Released(w, f), None, t)
<1>0. PICK y : y = Released(w, f)
    OBVIOUS
<1>1. w \in World
    BY DEF Good
<1>2. /\ y \in World /\ y.link = w.link
      /\ y.flows[f] = Idle
      /\ \A g \in Slots : y.flows[g] # w.flows[g] =>
             y.flows[g] = Idle /\ (g = f \/ w.flows[g].pc = "readiness")
      /\ y.s.access = w.s.access /\ (y.s.frame => w.s.frame) /\ y.s.early = w.s.early
      /\ SameControl(w.s, y.s)
      /\ y.s.busy = Without(w.s.busy, Held(w, f))
      /\ y.s.resuming = Without(w.s.resuming, {f})
      /\ y.s.trusted = Without(w.s.trusted, {f})
      /\ y.s.health = Without(w.s.health, {f})
      /\ y.s.flight = Without(w.s.flight, {f})
    <2>1. /\ y \in World /\ y.link = w.link
          /\ y.flows[f] = Idle /\ EndsWith(w, f, y)
          /\ y.s.access = w.s.access /\ (y.s.frame => w.s.frame) /\ y.s.early = w.s.early
          /\ SameControl(w.s, y.s)
          /\ y.s.busy = Without(w.s.busy, Held(w, f))
          /\ y.s.resuming = Without(w.s.resuming, {f})
          /\ y.s.trusted = Without(w.s.trusted, {f})
          /\ y.s.health = Without(w.s.health, {f})
          /\ y.s.flight = Without(w.s.flight, {f})
        BY <1>0, <1>1, ReleasedFacts
    <2> QED
        BY <2>1 DEF EndsWith
<1>3. Placed(y, None)
    BY <1>2, IdleFacts DEF Placed, Good
<1>4. \A g \in Slots : g # f /\ w.flows[g].pc # "readiness" => y.flows[g] = w.flows[g]
    BY <1>2
<1>5. Owned(w, f) /\ Placed(w, f) /\ w.s \in Fields /\ None \notin Slots
    BY <1>1, Parts DEF Good
<1>6. /\ y.s.busy # None => y.s.busy = w.s.busy /\ y.s.busy # f
      /\ y.s.resuming # None => y.s.resuming = w.s.resuming /\ y.s.resuming # f
    BY <1>2, <1>5 DEF Without, Owned, Held
<1>7. w.s.busy # None /\ w.s.busy # f =>
          /\ y.s.busy = w.s.busy /\ y.flows[w.s.busy] = w.flows[w.s.busy]
          /\ w.s.busy \in Slots
          /\ w.flows[w.s.busy].kind = "resume" => y.s.resuming = w.s.resuming
    BY <1>2, <1>4, <1>5 DEF Without, Owned, Fields, Held
<1>8. Owned(y, None)
    <2>1. y.s.busy # None =>
              /\ y.flows[y.s.busy].kind \in {"observe", "act", "resume"}
              /\ y.flows[y.s.busy].kind = "resume" => y.s.resuming = y.s.busy
              /\ y.flows[y.s.busy].pc # "readiness"
        BY <1>5, <1>6, <1>7 DEF Owned
    <2>2. y.s.resuming # None =>
              y.flows[y.s.resuming].kind = "resume" /\ y.s.busy = y.s.resuming
        BY <1>5, <1>6, <1>7 DEF Owned
    <2>3. y.s.health # None => y.flows[y.s.health].kind = "probe"
        BY <1>2, <1>4, <1>5 DEF Without, Owned, Placed, Places, Fields
    <2>4. y.s.trusted # None =>
              y.flows[y.s.trusted].kind = "trust" /\ y.flows[y.s.trusted].pc # "readiness"
        BY <1>2, <1>4, <1>5 DEF Without, Owned, Fields
    <2>5. y.s.flight # None => y.flows[y.s.flight].kind = "hello"
        BY <1>2, <1>4, <1>5 DEF Without, Owned, Placed, Places, Fields
    <2>6. y.s.early # "none" => \E g \in Slots : y.flows[g].pc = "start"
        BY <1>2, <1>4, <1>5 DEF Owned
    <2> QED
        BY <2>1, <2>2, <2>3, <2>4, <2>5, <2>6 DEF Owned
<1>9. OneRequest(y, None)
    <2>1. \A g \in Slots : UnderWay(y.flows[g]) => g # f /\ UnderWay(w.flows[g])
        BY <1>2, IdleFacts DEF UnderWay
    <2>2. \A g \in Slots : y.flows[g].req = "starting" => g # f /\ w.flows[g].req = "starting"
        BY <1>2, IdleFacts
    <2> QED
        BY <1>2, <2>1, <2>2 DEF OneRequest, Good
<1>10. Accessed(y, None, t)
    BY <1>2, IdleFacts DEF Accessed, Good, Observes, Asks
<1>11. Resumes(y, None)
    BY <1>2, IdleFacts DEF Resumes, Good, SameControl
<1> QED
    BY <1>0, <1>2, <1>3, <1>8, <1>9, <1>10, <1>11 DEF Good


---------------------------------------------------------------------------
(* Errors, requests and the start of a control                             *)

\* early is "none" again: control.start has been answered.
LEMMA EarlyFacts ==
    ASSUME NEW w \in World, NEW y, y = [w EXCEPT !.s.early = "none"]
    PROVE  /\ y \in World /\ y.flows = w.flows /\ y.link = w.link /\ y.s.early = "none"
           /\ y.s = [w.s EXCEPT !.early = "none"] /\ SameFrame(w, y)
<1> DEFINE d == [w.s EXCEPT !.early = "none"]
<1>1. d \in Fields /\ d.early = "none"
    BY Parts DEF Fields
<1>2. y = [w EXCEPT !.s = d]
    BY DEF World
<1> HIDE DEF d
<1>3. y \in World /\ y.s = d /\ y.flows = w.flows /\ y.link = w.link /\ SameFrame(w, y)
    BY <1>1, <1>2 DEF World, SameFrame
<1> QED
    BY <1>1, <1>3 DEF d

LEMMA EarlyGood ==
    ASSUME NEW w, NEW h, NEW t, Good(w, h, t)
    PROVE  Good([w EXCEPT !.s.early = "none"], h, t)
<1>0. PICK y : y = [w EXCEPT !.s.early = "none"]
    OBVIOUS
<1>1. w \in World
    BY DEF Good
<1>2. /\ y \in World /\ y.flows = w.flows /\ y.link = w.link
      /\ y.s = [w.s EXCEPT !.early = "none"]
    BY <1>0, <1>1, EarlyFacts
<1>3. w.s \in Fields
    BY <1>1, Parts
<1>4. /\ y.s.early = "none" /\ y.s.busy = w.s.busy /\ y.s.resuming = w.s.resuming
      /\ y.s.trusted = w.s.trusted /\ y.s.flight = w.s.flight /\ y.s.health = w.s.health
      /\ y.s.access = w.s.access /\ y.s.control = w.s.control /\ (y.s.frame => w.s.frame)
    BY <1>2, <1>3 DEF Fields
<1>5. Placed(y, h) /\ Owned(y, h) /\ OneRequest(y, h) /\ Accessed(y, h, t) /\ Resumes(y, h)
    BY <1>2, <1>4 DEF Good, Placed, Owned, OneRequest, Accessed, Resumes
<1> QED
    BY <1>0, <1>2, <1>5 DEF Good

LEMMA ThrowGood ==
    ASSUME NEW w, NEW f \in Slots, NEW t, NEW code, Good(w, f, t)
    PROVE  Good(Throw(w, f, code), None, t)
<1> DEFINE fl == w.flows[f]
           y == IF fl.pc = "start" THEN [w EXCEPT !.s.early = "none"] ELSE w
           x == IF fl.kind = "act" THEN Framed(y, FALSE) ELSE y
<1>1. w \in World
    BY DEF Good
<1>2. /\ Good(y, f, t) /\ y.flows = w.flows
      /\ fl.pc = "start" => y.s.early = "none"
    BY <1>1, EarlyFacts, EarlyGood
<1>3. Throw(w, f, code) =
          IF Revokes(fl, code) THEN Released(Revoked(x), f)
          ELSE IF Pauses(fl, code) THEN Released(Paused(x), f)
          ELSE Released(x, f)
    BY Zenon DEF Throw
<1> HIDE DEF y
<1>4. /\ Good(x, f, t) /\ x.flows[f].pc = fl.pc
      /\ fl.pc = "start" => x.s.early = "none"
    <2>1. CASE fl.kind # "act"
        BY <1>2, <2>1
    <2>2. CASE fl.kind = "act"
        <3>1. y \in World
            BY <1>2 DEF Good
        <3>2. Good(Framed(y, FALSE), f, t)
            BY <1>2, FramedGood
        <3>3. Dimmed(y, Framed(y, FALSE)) /\ SameLocks(y.s, Framed(y, FALSE).s)
            BY <3>1, FramedFacts
        <3> QED
            BY <1>2, <2>2, <3>2, <3>3 DEF Dimmed, Dimmer, SameLocks
    <2> QED
        BY <2>1, <2>2
<1> HIDE DEF x, fl
<1>5. x \in World
    BY <1>4 DEF Good
<1>6. Good(Released(Revoked(x), f), None, t)
    <2>1. Good(Revoked(x), f, t)
        BY <1>4, RevokedGood
    <2>2. Revoked(x).s.early = "none"
        BY <1>5, RevokedFacts
    <2> QED
        BY <2>1, <2>2, ReleasedGood
<1>7. Good(Released(Paused(x), f), None, t)
    <2>1. Good(Paused(x), f, t)
        BY <1>4, PausedGood
    <2>2. Dimmed(x, Paused(x)) /\ SameLocks(x.s, Paused(x).s)
        BY <1>5, PausedFacts
    <2>3. Paused(x).flows[f].pc = "start" => Paused(x).s.early = "none"
        BY <1>4, <2>2 DEF Dimmed, Dimmer, SameLocks
    <2> QED
        BY <2>1, <2>3, ReleasedGood
<1>8. Good(Released(x, f), None, t)
    BY <1>4, ReleasedGood
<1> QED
    BY <1>3, <1>6, <1>7, <1>8

---------------------------------------------------------------------------
(* The call in hand                                                        *)

\* The call f sees the access and the control it needs, and no other call can
\* take them away.
Allowed(w, f, t) ==
    LET fl == w.flows[f] IN
    /\ fl.kind = "resume" /\ fl.same => w.s.access # None
    /\ fl.kind = "resume" /\ fl.fresh => w.s.control # None /\ w.s.control.state # "cancelled"
    /\ Observes(fl) => /\ w.s.access # None /\ w.s.access.turn = t /\ fl.turn = t
                       /\ \A g \in Slots \ {f} : ~Asks(w.flows[g])

\* The call f may be left at its await.
Fits(w, f, t) ==
    LET fl == w.flows[f] IN
    /\ fl.pc \in Places[fl.kind] /\ Waits(fl)
    /\ w.s.busy = f \/ w.s.trusted = f => fl.pc # "readiness"
    /\ w.s.early # "none" => \E g \in Slots : w.flows[g].pc = "start"
    /\ UnderWay(fl) => w.link.proc = "up" /\ \A g \in Slots \ {f} : ~UnderWay(w.flows[g])
    /\ fl.req = "starting" => w.link.proc \in {"starting", "doomed"}
    /\ Asks(fl) => ~Observes(fl) /\ \A g \in Slots \ {f} : ~Observes(w.flows[g])
    /\ Allowed(w, f, t)

LEMMA HandBack ==
    ASSUME NEW w, NEW f \in Slots, NEW t, Good(w, f, t), Fits(w, f, t)
    PROVE  Good(w, None, t)
<1>1. w \in World
    BY DEF Good
<1>2. Placed(w, None)
    BY DEF Good, Placed, Fits
<1>3. Owned(w, None)
    BY <1>1, Parts DEF Good, Owned, Fits, Fields
<1>4. OneRequest(w, None)
    BY DEF Good, OneRequest, Fits
<1>5. Accessed(w, None, t)
    BY DEF Good, Accessed, Fits, Allowed
<1>6. Resumes(w, None)
    BY DEF Good, Resumes, Fits, Allowed
<1> QED
    BY <1>1, <1>2, <1>3, <1>4, <1>5, <1>6 DEF Good

LEMMA TakeUp ==
    ASSUME NEW w, NEW f \in Slots, NEW t, Good(w, None, t)
    PROVE  Good(w, f, t) /\ Allowed(w, f, t)
<1>1. w \in World
    BY DEF Good
<1>2. Placed(w, f) /\ Owned(w, f)
    BY DEF Good, Placed, Owned
<1>3. OneRequest(w, f) /\ Accessed(w, f, t) /\ Resumes(w, f)
    BY DEF Good, OneRequest, Accessed, Resumes
<1>4. Allowed(w, f, t)
    BY DEF Good, Accessed, Resumes, Allowed
<1> QED
    BY <1>1, <1>2, <1>3, <1>4 DEF Good

\* The call f is as e says; it is at p and waits for r.
Called(w, f, e) == [w EXCEPT !.flows = [w.flows EXCEPT ![f] = e]]
At(fl, p, r) == [fl EXCEPT !.pc = p, !.req = r]
Moved(w, f, p, r) == Called(w, f, At(w.flows[f], p, r))

\* The call changes, or one begins.
LEMMA CallGood ==
    ASSUME NEW w, NEW f \in Slots, NEW t, Good(w, f, t), NEW e \in Flow,
           e.kind = w.flows[f].kind
             \/ w.flows[f].kind \notin {"observe", "act", "resume", "probe", "trust", "hello"},
           w.flows[f].pc = "start" => e.pc = "start" \/ w.s.early = "none",
           NEW y, y = Called(w, f, e)
    PROVE  /\ Good(y, f, t)
           /\ y.flows[f] = e /\ \A g \in Slots : g # f => y.flows[g] = w.flows[g]
           /\ y.s = w.s /\ y.link = w.link /\ SameFrame(w, y)
<1> DEFINE k == [w.flows EXCEPT ![f] = e]
<1>1. w \in World
    BY DEF Good
<1>2. /\ k \in [Slots -> Flow] /\ k[f] = e
      /\ \A g \in Slots : g # f => k[g] = w.flows[g]
    BY <1>1, Parts
<1> HIDE DEF k
<1>3. y \in World /\ y.flows = k /\ y.s = w.s /\ y.link = w.link /\ SameFrame(w, y)
    BY <1>1, <1>2 DEF World, SameFrame, k, Called
<1>4. Placed(y, f)
    BY <1>2, <1>3 DEF Placed, Good
<1>5. Owned(y, f)
    <2>1. Owned(w, f) /\ w.s \in Fields
        BY <1>1, Parts DEF Good
    <2>2. w.s.early # "none" => \E g \in Slots : k[g].pc = "start"
        BY <2>1, <1>2 DEF Owned
    <2> QED
        BY <2>1, <2>2, <1>2, <1>3 DEF Owned, Fields
<1>6. OneRequest(y, f) /\ Accessed(y, f, t) /\ Resumes(y, f)
    BY <1>2, <1>3 DEF OneRequest, Accessed, Resumes, Good
<1> QED
    BY <1>2, <1>3, <1>4, <1>5, <1>6 DEF Good

\* Everything but the calls and the fields of the service may change.
LEMMA RestGood ==
    ASSUME NEW w, NEW h, NEW t, Good(w, h, t), NEW y \in World,
           y.s = w.s, y.flows = w.flows,
           w.link.proc # "none" => y.link.proc = w.link.proc
    PROVE  Good(y, h, t)
<1>1. w \in World
    BY DEF Good
<1>2. OneRequest(y, h)
    BY DEF Good, OneRequest
<1> QED
    BY <1>2 DEF Good, Placed, Owned, Accessed, Resumes

---------------------------------------------------------------------------
(* A request of the helper, and what comes before it                       *)

LEMMA MovedFacts ==
    ASSUME NEW fl \in Flow, NEW p \in Awaits, NEW r \in Promises, NEW e,
           e = At(fl, p, r)
    PROVE  /\ e \in Flow /\ e.pc = p /\ e.req = r /\ e.kind = fl.kind /\ e.turn = fl.turn
           /\ e.mode = fl.mode /\ (e.fresh <=> fl.fresh) /\ (e.same <=> fl.same)
BY DEF Flow, At

LEMMA MovedGood ==
    ASSUME NEW w, NEW f \in Slots, NEW t, Good(w, f, t), NEW p \in Awaits, NEW r \in Promises,
           w.flows[f].pc = "start" => p = "start" \/ w.s.early = "none",
           NEW y, y = Moved(w, f, p, r)
    PROVE  /\ Good(y, f, t) /\ y.s = w.s /\ y.link = w.link /\ SameFrame(w, y)
           /\ \A g \in Slots : g # f => y.flows[g] = w.flows[g]
           /\ y.flows[f] \in Flow /\ y.flows[f].pc = p /\ y.flows[f].req = r
           /\ y.flows[f].kind = w.flows[f].kind /\ y.flows[f].turn = w.flows[f].turn
           /\ y.flows[f].mode = w.flows[f].mode
           /\ y.flows[f].fresh <=> w.flows[f].fresh
           /\ y.flows[f].same <=> w.flows[f].same
<1>0. PICK e : e = At(w.flows[f], p, r)
    OBVIOUS
<1>1. w \in World
    BY DEF Good
<1>2. /\ e \in Flow /\ e.pc = p /\ e.req = r /\ e.kind = w.flows[f].kind
      /\ e.turn = w.flows[f].turn /\ e.mode = w.flows[f].mode
      /\ (e.fresh <=> w.flows[f].fresh) /\ (e.same <=> w.flows[f].same)
    BY <1>0, <1>1, Parts, MovedFacts
<1>3. y = Called(w, f, e)
    BY <1>0 DEF Moved
<1>4. /\ Good(y, f, t) /\ y.flows[f] = e /\ y.s = w.s /\ y.link = w.link /\ SameFrame(w, y)
      /\ \A g \in Slots : g # f => y.flows[g] = w.flows[g]
    BY <1>2, <1>3, CallGood
<1> QED
    BY <1>2, <1>4

\* The call may be given up, whatever it sees.
LEMMA AllowedStill ==
    ASSUME NEW w, NEW y, NEW f \in Slots, NEW t, Allowed(w, f, t),
           y.s.access = w.s.access, y.s.control = w.s.control,
           y.flows[f].kind = w.flows[f].kind, y.flows[f].turn = w.flows[f].turn,
           y.flows[f].fresh <=> w.flows[f].fresh, y.flows[f].same <=> w.flows[f].same,
           \A g \in Slots : g # f => y.flows[g] = w.flows[g]
    PROVE  Allowed(y, f, t)
BY DEF Allowed, Observes

LEMMA MethodsAwait == Methods \subseteq Awaits /\ "readiness" \notin Methods
BY DEF Methods, Awaits

LEMMA MovedTwice ==
    ASSUME NEW w \in World, NEW f \in Slots, NEW p, NEW q, NEW r, NEW x, x = Moved(w, f, p, q)
    PROVE  Moved(x, f, p, r) = Moved(w, f, p, r)
<1>1. w.flows[f] \in Flow /\ w.flows \in [Slots -> Flow]
    BY Parts
<1>2. PICK e : e = At(w.flows[f], p, q)
    OBVIOUS
<1>3. x = Called(w, f, e)
    BY <1>2 DEF Moved
<1>4. x.flows = [w.flows EXCEPT ![f] = e]
    BY <1>3 DEF Called, World
<1>5. x.flows[f] = e
    BY <1>1, <1>4
<1>6. PICK d : d = At(w.flows[f], p, r)
    OBVIOUS
<1>7. At(e, p, r) = d
    BY <1>1, <1>2, <1>6 DEF At, Flow
<1>8. [x.flows EXCEPT ![f] = d] = [w.flows EXCEPT ![f] = d]
    BY <1>1, <1>4
<1>9. Called(x, f, d) = Called(w, f, d)
    BY <1>3, <1>8 DEF Called, World
<1> QED
    BY <1>5, <1>6, <1>7, <1>9 DEF Moved

\* The method takes the place of the await, whatever that was.
LEMMA AskedGood ==
    ASSUME NEW w \in World, NEW f \in Slots, NEW t, NEW method \in Methods,
           NEW x, x = Moved(w, f, method, w.flows[f].req), x.s = w.s, x.link = w.link,
           \A g \in Slots : g # f => x.flows[g] = w.flows[g],
           Good(x, f, t), Allowed(x, f, t), x.flows[f].pc = method,
           method \in Places[x.flows[f].kind]
    PROVE  Good(Ask(w, f, method), None, t)
<1>0. PICK y, v : y = Moved(x, f, method, "starting") /\ v = Moved(x, f, method, "sent")
    OBVIOUS
<1> DEFINE started == [w.link EXCEPT !.proc = IF @ = "none" THEN "starting" ELSE @]
           z == [y EXCEPT !.link = started]
<1>1. /\ w \in World /\ w.flows[f] \in Flow /\ w.flows \in [Slots -> Flow]
      /\ w.link \in Links /\ method \in Awaits /\ method # "readiness"
    BY Parts, MethodsAwait DEF Good
<1>2. x = [w EXCEPT !.flows[f].pc = method]
    BY <1>1 DEF World, Flow, Moved, At, Called
<1>5. CASE w.link.proc # "up"
    <2>0. y = Moved(w, f, method, "starting")
        BY <1>0, MovedTwice
    <2>1. Ask(w, f, method) = z
        BY ZenonT(60), <1>1, <1>5, <2>0 DEF Ask, World, Links, Flow, Moved, At, Called
    <2>2. "starting" \in Promises
        BY DEF Promises
    <2> HIDE DEF z
    <2>3. /\ Good(y, f, t) /\ y.s = x.s /\ y.link = x.link
          /\ \A g \in Slots : g # f => y.flows[g] = x.flows[g]
          /\ y.flows[f].pc = method /\ y.flows[f].req = "starting"
          /\ y.flows[f].kind = x.flows[f].kind /\ y.flows[f].turn = x.flows[f].turn
          /\ y.flows[f].fresh <=> x.flows[f].fresh
          /\ y.flows[f].same <=> x.flows[f].same
        BY <1>0, <1>1, <2>2, MovedGood
    <2>4. started \in Links /\ started.proc \in {"starting", "doomed"}
          /\ (w.link.proc # "none" => started.proc = w.link.proc)
        BY <1>1, <1>5 DEF Links
    <2> HIDE DEF started
    <2>5. y \in World
        BY <2>3 DEF Good
    <2>6. z \in World /\ z.s = x.s /\ z.flows = y.flows /\ z.link = started
        BY <2>3, <2>4, <2>5, WithLink DEF z
    <2>7. Good(z, f, t)
        BY <2>3, <2>4, <2>6, RestGood
    <2>8. Allowed(z, f, t)
        BY <2>3, <2>6, AllowedStill
    <2>9. Fits(z, f, t)
        <3>1. Waits(z.flows[f])
            BY SMTT(30), <2>3, <2>6 DEF Waits, Methods
        <3>2. z.s.early # "none" => \E g \in Slots : z.flows[g].pc = "start"
            BY <2>7 DEF Good, Owned
        <3> QED
            BY <1>1, <2>3, <2>4, <2>6, <2>8, <3>1, <3>2 DEF Fits, UnderWay, Asks
    <2> QED
        BY <2>1, <2>7, <2>9, HandBack
<1>6. CASE w.link.proc = "up" /\ \E g \in Slots \ {f} : UnderWay(w.flows[g])
    <2>1. Ask(w, f, method) = Throw(x, f, "busy")
        BY <1>2, <1>6 DEF Ask
    <2> QED
        BY <2>1, ThrowGood
<1>7. CASE w.link.proc = "up" /\ ~\E g \in Slots \ {f} : UnderWay(w.flows[g])
    <2>0. v = Moved(w, f, method, "sent")
        BY <1>0, MovedTwice
    <2>1. Ask(w, f, method) = v
        <3>1. v = [w EXCEPT !.flows[f].pc = method, !.flows[f].req = "sent"]
            BY <1>1, <2>0 DEF World, Flow, Moved, At, Called
        <3> QED
            BY <1>1, <1>7, <3>1 DEF Ask, World, Flow
    <2>2. "sent" \in Promises
        BY DEF Promises
    <2>3. /\ Good(v, f, t) /\ v.s = x.s /\ v.link = x.link
          /\ \A g \in Slots : g # f => v.flows[g] = x.flows[g]
          /\ v.flows[f].pc = method /\ v.flows[f].req = "sent"
          /\ v.flows[f].kind = x.flows[f].kind /\ v.flows[f].turn = x.flows[f].turn
          /\ v.flows[f].fresh <=> x.flows[f].fresh
          /\ v.flows[f].same <=> x.flows[f].same
        BY <1>0, <1>1, <2>2, MovedGood
    <2>4. Allowed(v, f, t)
        BY <2>3, AllowedStill
    <2>5. Fits(v, f, t)
        <3>1. Waits(v.flows[f])
            BY SMTT(30), <2>3 DEF Waits, Methods
        <3>2. v.s.early # "none" => \E g \in Slots : v.flows[g].pc = "start"
            BY <2>3 DEF Good, Owned
        <3> QED
            BY <1>1, <1>7, <2>3, <2>4, <3>1, <3>2 DEF Fits, UnderWay, Asks
    <2> QED
        BY <2>1, <2>3, <2>5, HandBack
<1> QED
    BY <1>5, <1>6, <1>7

LEMMA AskGood ==
    ASSUME NEW w, NEW f \in Slots, NEW t, NEW method \in Methods,
           Good(w, f, t), Allowed(w, f, t), method \in Places[w.flows[f].kind],
           w.flows[f].pc = "start" => method = "start" \/ w.s.early = "none"
    PROVE  Good(Ask(w, f, method), None, t)
<1>1. PICK x : x = Moved(w, f, method, w.flows[f].req)
    OBVIOUS
<1>2. w \in World /\ w.flows[f].req \in Promises /\ method \in Awaits
    BY Parts, MethodsAwait DEF Good, Flow
<1>3. /\ Good(x, f, t) /\ x.s = w.s /\ x.link = w.link
      /\ \A g \in Slots : g # f => x.flows[g] = w.flows[g]
      /\ x.flows[f].pc = method
      /\ x.flows[f].kind = w.flows[f].kind /\ x.flows[f].turn = w.flows[f].turn
      /\ x.flows[f].fresh <=> w.flows[f].fresh
      /\ x.flows[f].same <=> w.flows[f].same
    BY <1>1, <1>2, MovedGood
<1>4. Allowed(x, f, t)
    BY <1>3, AllowedStill
<1> QED
    BY <1>1, <1>2, <1>3, <1>4, AskedGood

LEMMA AfterHealthGood ==
    ASSUME NEW w, NEW f \in Slots, NEW t, NEW method \in Methods,
           NEW place \in {"queued", "waiting"},
           Good(w, f, t), Allowed(w, f, t),
           method \in Places[w.flows[f].kind], place \in Places[w.flows[f].kind],
           w.flows[f].pc # "start"
    PROVE  Good(AfterHealth(w, f, place, method), None, t)
<1>1. CASE w.s.health = None
    BY <1>1, AskGood DEF AfterHealth
<1>2. CASE w.s.health # None
    <2>0. PICK y : y = Moved(w, f, place, "none")
        OBVIOUS
    <2>1. w \in World /\ w.flows[f] \in Flow /\ w.flows \in [Slots -> Flow]
        BY Parts DEF Good
    <2>2. AfterHealth(w, f, place, method) = y
        BY ZenonT(60), <1>2, <2>0, <2>1 DEF AfterHealth, World, Flow, Moved, At, Called
    <2>3. place \in Awaits /\ "none" \in Promises
        BY DEF Awaits, Promises
    <2>4. /\ Good(y, f, t) /\ y.s = w.s /\ y.link = w.link
          /\ \A g \in Slots : g # f => y.flows[g] = w.flows[g]
          /\ y.flows[f].pc = place /\ y.flows[f].req = "none"
          /\ y.flows[f].kind = w.flows[f].kind /\ y.flows[f].turn = w.flows[f].turn
          /\ y.flows[f].fresh <=> w.flows[f].fresh
          /\ y.flows[f].same <=> w.flows[f].same
        BY <2>0, <2>3, MovedGood
    <2>5. Allowed(y, f, t)
        BY <2>4, AllowedStill
    <2>6. Fits(y, f, t)
        <3>1. Waits(y.flows[f])
            BY <2>4 DEF Waits, Methods
        <3>2. y.s.early # "none" => \E g \in Slots : y.flows[g].pc = "start"
            BY <2>4 DEF Good, Owned
        <3> QED
            BY <2>4, <2>5, <3>1, <3>2 DEF Fits, UnderWay, Asks
    <2> QED
        BY <2>2, <2>4, <2>6, HandBack
<1> QED
    BY <1>1, <1>2

\* The call takes the present generation for its own.
Renewed(fl) == [fl EXCEPT !.fresh = TRUE]
Refreshed(w, f) == [Bumped(w, f) EXCEPT !.flows[f].fresh = TRUE]

LEMMA RenewedFacts ==
    ASSUME NEW fl \in Flow, NEW e, e = Renewed(fl)
    PROVE  /\ e \in Flow /\ e.pc = fl.pc /\ e.req = fl.req /\ e.kind = fl.kind
           /\ e.turn = fl.turn /\ e.mode = fl.mode /\ e.fresh /\ (e.same <=> fl.same)
BY DEF Flow, Renewed

LEMMA RefreshedGood ==
    ASSUME NEW w, NEW f \in Slots, NEW t, Good(w, f, t), NEW y, y = Refreshed(w, f)
    PROVE  /\ Good(y, f, t) /\ y.s = w.s /\ y.link = w.link /\ SameFrame(w, y)
           /\ \A g \in Slots : g # f => ~y.flows[g].fresh
           /\ y.flows[f].kind = w.flows[f].kind /\ y.flows[f].turn = w.flows[f].turn
           /\ y.flows[f].mode = w.flows[f].mode
           /\ y.flows[f].pc = w.flows[f].pc /\ y.flows[f].req = w.flows[f].req
           /\ y.flows[f].fresh /\ (y.flows[f].same <=> w.flows[f].same)
<1>0. PICK b : b = Bumped(w, f)
    OBVIOUS
<1>1. w \in World
    BY DEF Good
<1>2. /\ b \in World /\ b.s = w.s /\ b.link = w.link /\ SameFrame(w, b) /\ Dimmed(w, b)
      /\ \A g \in Slots : g # f => ~b.flows[g].fresh
      /\ \A g \in Slots : b.flows[g].same <=> w.flows[g].same
    BY <1>0, <1>1, BumpedFacts
<1>3. Resumes(b, f) /\ SameLocks(w.s, b.s)
    BY <1>2 DEF Resumes, Good, SameLocks
<1>4. Good(b, f, t)
    BY <1>2, <1>3, DimmedGood
<1>5. PICK e : e = Renewed(b.flows[f])
    OBVIOUS
<1>6. /\ e \in Flow /\ e.pc = b.flows[f].pc /\ e.req = b.flows[f].req
      /\ e.kind = b.flows[f].kind /\ e.turn = b.flows[f].turn /\ e.mode = b.flows[f].mode
      /\ e.fresh /\ (e.same <=> b.flows[f].same)
    BY <1>2, <1>5, Parts, RenewedFacts
<1>7. y = Called(b, f, e)
    BY <1>0, <1>2, <1>5 DEF Refreshed, Renewed, Called, World
<1>8. /\ Good(y, f, t) /\ y.flows[f] = e /\ y.s = b.s /\ y.link = b.link /\ SameFrame(b, y)
      /\ \A g \in Slots : g # f => y.flows[g] = b.flows[g]
    BY <1>4, <1>6, <1>7, CallGood
<1> QED
    BY <1>2, <1>6, <1>8 DEF Dimmed, Dimmer, SameFrame

LEMMA StartControlGood ==
    ASSUME NEW w, NEW f \in Slots, NEW t, Good(w, f, t),
           w.flows[f].kind \in {"decide", "trust", "resume"}, w.flows[f].pc # "start",
           w.flows[f].kind = "resume" =>
               w.s.control # None /\ w.s.control.state # "cancelled"
    PROVE  Good(StartControl(w, f), None, t)
<1> DEFINE z == [w EXCEPT !.flows[f].pc = "waiting"]
<1>0. PICK x : x = z
    OBVIOUS
<1>1. w \in World /\ w.flows[f] \in Flow /\ w.flows \in [Slots -> Flow]
    BY Parts DEF Good
<1>2. x = Moved(w, f, "waiting", w.flows[f].req)
    BY <1>0, <1>1 DEF World, Flow, Moved, At, Called
<1>3. w.flows[f].req \in Promises /\ "waiting" \in Awaits
    BY <1>1 DEF Flow, Awaits
<1>4. /\ Good(x, f, t) /\ x.s = w.s /\ x.link = w.link
      /\ x.flows[f].kind = w.flows[f].kind /\ x.flows[f].pc = "waiting"
    BY <1>2, <1>3, MovedGood
<1>5. PICK y : y = Refreshed(x, f)
    OBVIOUS
<1>6. /\ Good(y, f, t) /\ y.s = x.s
      /\ y.flows[f].kind = x.flows[f].kind /\ y.flows[f].pc = x.flows[f].pc
    BY <1>4, <1>5, RefreshedGood
<1>7. CASE w.s.access = None \/ w.s.setting # "control"
    <2>1. StartControl(w, f) = Throw(x, f, "refused")
        BY <1>0, <1>7 DEF StartControl
    <2> QED
        BY <1>4, <2>1, ThrowGood
<1>8. CASE ~(w.s.access = None \/ w.s.setting # "control")
    <2>1. StartControl(w, f) = AfterHealth(y, f, "waiting", "target")
        BY <1>0, <1>5, <1>8 DEF StartControl, Refreshed
    <2>2. Allowed(y, f, t)
        BY <1>4, <1>6, <1>8 DEF Allowed, Observes
    <2>3. "target" \in Methods /\ "target" \in Places[y.flows[f].kind]
          /\ "waiting" \in Places[y.flows[f].kind]
        BY <1>4, <1>6 DEF Methods, Places, Starting
    <2> QED
        BY <1>4, <1>6, <2>1, <2>2, <2>3, AfterHealthGood
<1> QED
    BY <1>7, <1>8

---------------------------------------------------------------------------
(* The tools and the grant                                                 *)

\* The fields of the service are d.
Fielded(w, d) == [w EXCEPT !.s = d]

LEMMA FieldedFacts ==
    ASSUME NEW w, NEW h, NEW t, Good(w, h, t), NEW d \in Fields, NEW y, y = Fielded(w, d)
    PROVE  /\ y \in World /\ y.s = d /\ y.flows = w.flows /\ y.link = w.link /\ SameFrame(w, y)
           /\ Owned(y, h) /\ Accessed(y, h, t) /\ Resumes(y, h) => Good(y, h, t)
<1>1. w \in World
    BY DEF Good
<1>2. y \in World /\ y.s = d /\ y.flows = w.flows /\ y.link = w.link /\ SameFrame(w, y)
    BY <1>1 DEF Fielded, World, SameFrame
<1>3. Placed(y, h) /\ OneRequest(y, h)
    BY <1>2 DEF Good, Placed, OneRequest
<1> QED
    BY <1>2, <1>3 DEF Good

\* The fields that change are none of the locks, the access, the control and the frame.
LEMMA OtherFieldsGood ==
    ASSUME NEW w, NEW h, NEW t, Good(w, h, t), NEW d \in Fields, NEW y, y = Fielded(w, d),
           SameLocks(w.s, d), d.access = w.s.access, d.control = w.s.control,
           d.frame => w.s.frame
    PROVE  Good(y, h, t) /\ y.flows = w.flows /\ y.s = d /\ y.link = w.link
<1>1. /\ y \in World /\ y.s = d /\ y.flows = w.flows /\ y.link = w.link
      /\ Owned(y, h) /\ Accessed(y, h, t) /\ Resumes(y, h) => Good(y, h, t)
    BY FieldedFacts
<1>2. Owned(y, h) /\ Accessed(y, h, t) /\ Resumes(y, h)
    BY <1>1 DEF Good, Owned, Accessed, Resumes, SameLocks
<1> QED
    BY <1>1, <1>2

LEMMA ReplacedGood ==
    ASSUME NEW w, NEW h, NEW t, Good(w, h, t), NEW kinds, NEW y, y = Replaced(w, kinds)
    PROVE  /\ Good(y, h, t) /\ y.s = w.s /\ y.link = w.link /\ Dimmed(w, y)
           /\ \A g \in Slots : w.flows[g].kind \in kinds => ~y.flows[g].same
           /\ \A g \in Slots : y.flows[g].fresh <=> w.flows[g].fresh
<1>1. w \in World
    BY DEF Good
<1>2. /\ y \in World /\ y.s = w.s /\ y.link = w.link /\ Dimmed(w, y)
      /\ \A g \in Slots : w.flows[g].kind \in kinds => ~y.flows[g].same
      /\ \A g \in Slots : y.flows[g].fresh <=> w.flows[g].fresh
    BY <1>1, ReplacedFacts
<1>3. Resumes(y, h) /\ SameLocks(w.s, y.s)
    BY <1>2 DEF Resumes, Good, SameLocks, Dimmed, Dimmer
<1> QED
    BY <1>2, <1>3, DimmedGood

LEMMA GrantedGood ==
    ASSUME NEW w, NEW f \in Slots, NEW t, Good(w, f, t),
           w.flows[f].pc = "start" => w.s.early = "none"
    PROVE  Good(Granted(w, f), None, t)
<1>0. PICK x : x = Replaced(w, {"list"})
    OBVIOUS
<1>1. Good(x, f, t) /\ x.s = w.s /\ Dimmed(w, x)
    BY <1>0, ReplacedGood
<1>2. x \in World /\ x.s \in Fields
    BY <1>1, Parts DEF Good
<1>3. PICK d : d = [x.s EXCEPT !.decision = None, !.listed = FALSE, !.monitor = TRUE]
    OBVIOUS
<1>4. /\ d \in Fields /\ SameLocks(x.s, d) /\ d.access = x.s.access
      /\ d.control = x.s.control /\ d.frame = x.s.frame
    BY <1>2, <1>3 DEF Fields, SameLocks
<1>5. PICK y : y = Fielded(x, d)
    OBVIOUS
<1>6. Good(y, f, t) /\ y.flows = x.flows /\ y.s = d
    BY <1>1, <1>4, <1>5, OtherFieldsGood
<1>7. Granted(w, f) = Released(y, f)
    BY <1>0, <1>2, <1>3, <1>5 DEF Granted, Fielded, World
<1>8. y.flows[f].pc = "start" => y.s.early = "none"
    BY <1>1, <1>4, <1>6 DEF Dimmed, Dimmer, SameLocks
<1> QED
    BY <1>6, <1>7, <1>8, ReleasedGood

LEMMA UseAccessGood ==
    ASSUME NEW w, NEW f \in Slots, NEW t, Good(w, f, t),
           w.flows[f].kind \in {"observe", "act"}, w.flows[f].pc # "start",
           Observes(w.flows[f]) => /\ w.flows[f].turn = t
                                   /\ \A g \in Slots \ {f} : ~Asks(w.flows[g])
    PROVE  Good(UseAccess(w, f), None, t)
<1> DEFINE Refuses == \/ w.s.access = None \/ w.flows[f].turn # w.s.access.turn
                      \/ w.s.control # None /\ w.s.control.state = "paused"
                      \/ w.s.busy # None \/ w.flows[f].turn \in w.s.denied
<1>1. CASE Refuses
    <2>1. UseAccess(w, f) = Released(w, f)
        BY <1>1 DEF UseAccess
    <2> QED
        BY <2>1, ReleasedGood
<1>2. CASE ~Refuses
    <2>1. w \in World /\ w.s \in Fields /\ w.flows[f] \in Flow
        BY Parts DEF Good
    <2>2. PICK d : d = [w.s EXCEPT !.busy = f]
        OBVIOUS
    <2>3. /\ d \in Fields /\ d.busy = f /\ d.resuming = w.s.resuming
          /\ d.trusted = w.s.trusted /\ d.flight = w.s.flight /\ d.health = w.s.health
          /\ d.early = w.s.early /\ d.access = w.s.access /\ d.control = w.s.control
          /\ d.frame = w.s.frame
        BY <2>1, <2>2 DEF Fields
    <2>4. PICK y : y = Fielded(w, d)
        OBVIOUS
    <2>5. /\ y \in World /\ y.s = d /\ y.flows = w.flows /\ y.link = w.link
          /\ Owned(y, f) /\ Accessed(y, f, t) /\ Resumes(y, f) => Good(y, f, t)
        BY <2>3, <2>4, FieldedFacts
    <2>6. Owned(y, f)
        <3>1. w.s.busy = None /\ w.s.resuming = None
            BY <1>2 DEF Good, Owned
        <3> QED
            BY <2>3, <2>5, <3>1 DEF Good, Owned
    <2>7. Accessed(y, f, t) /\ Resumes(y, f)
        BY <2>3, <2>5 DEF Good, Accessed, Resumes
    <2>8. UseAccess(w, f) = AfterHealth(y, f, "queued", "validate")
        BY <1>2, <2>1, <2>2, <2>4 DEF UseAccess, Fielded, World
    <2>9. Allowed(y, f, t)
        BY <1>2, <2>3, <2>5 DEF Allowed, Observes
    <2>10. "validate" \in Methods /\ "validate" \in Places[y.flows[f].kind]
           /\ "queued" \in Places[y.flows[f].kind]
        BY <2>5 DEF Methods, Places
    <2> QED
        BY <2>5, <2>6, <2>7, <2>8, <2>9, <2>10, AfterHealthGood
<1> QED
    BY <1>1, <1>2

LEMMA RequestAccessGood ==
    ASSUME NEW w, NEW f \in Slots, NEW t, Good(w, f, t),
           w.flows[f].kind \in {"request", "trust"}, w.flows[f].pc # "start",
           \/ \A g \in Slots \ {f} : ~Observes(w.flows[g])
           \/ w.flows[f].turn = t /\ w.flows[f].mode = "observe"
    PROVE  Good(RequestAccess(w, f), None, t)
<1> DEFINE fl == w.flows[f]
           has == w.s.access # None /\ w.s.access.turn = fl.turn
                  /\ (fl.mode = "observe" \/ w.s.access.mode = "control")
           renews == /\ w.s.access = None /\ fl.kind = "trust" /\ fl.mode = "control"
                     /\ w.s.target
           Refuses == fl.turn \in w.s.denied \/ w.s.trusted # None \/ w.s.decision # None \/ has
<1>1. /\ w \in World /\ w.s \in Fields /\ w.flows[f] \in Flow
      /\ w.consent \in [Turns -> SUBSET Modes]
    BY Parts DEF Good, World
<1>2. CASE Refuses
    <2>1. RequestAccess(w, f) = Released(w, f)
        BY <1>2 DEF RequestAccess
    <2> QED
        BY <2>1, ReleasedGood
<1>3. CASE ~Refuses /\ renews
    <2>2. PICK d : d = [w.s EXCEPT !.trusted = f]
        OBVIOUS
    <2>3. /\ d \in Fields /\ d.busy = w.s.busy /\ d.resuming = w.s.resuming
          /\ d.trusted = f /\ d.flight = w.s.flight /\ d.health = w.s.health
          /\ d.early = w.s.early /\ d.access = w.s.access /\ d.control = w.s.control
          /\ d.frame = w.s.frame
        BY <1>1, <2>2 DEF Fields
    <2>4. PICK y : y = Fielded(w, d)
        OBVIOUS
    <2>5. /\ y \in World /\ y.s = d /\ y.flows = w.flows /\ y.link = w.link
          /\ y.consent = w.consent
          /\ Owned(y, f) /\ Accessed(y, f, t) /\ Resumes(y, f) => Good(y, f, t)
        BY <2>3, <2>4, FieldedFacts DEF SameFrame
    <2>6. Owned(y, f)
        BY <1>3, <2>3, <2>5 DEF Good, Owned
    <2>7. Accessed(y, f, t) /\ Resumes(y, f)
        BY <2>3, <2>5 DEF Good, Accessed, Resumes
    <2>8. PICK k : k = [y.consent EXCEPT ![fl.turn] = {"control"}]
        OBVIOUS
    <2>9. PICK z : z = [y EXCEPT !.consent = k]
        OBVIOUS
    <2>10. k \in [Turns -> SUBSET Modes]
        BY <1>1, <2>5, <2>8 DEF Modes
    <2>11. z \in World /\ z.s = y.s /\ z.flows = y.flows /\ z.link = y.link
        BY <2>5, <2>9, <2>10 DEF World
    <2>12. Good(z, f, t)
        BY <2>5, <2>6, <2>7, <2>11, RestGood
    <2>13. RequestAccess(w, f) = AfterHealth(z, f, "queued", "validate")
        BY <1>1, <1>3, <2>2, <2>4, <2>8, <2>9 DEF RequestAccess, Fielded, World
    <2>14. Allowed(z, f, t)
        BY <1>3, <2>5, <2>11 DEF Allowed, Observes
    <2>15. "validate" \in Methods /\ "validate" \in Places[z.flows[f].kind]
           /\ "queued" \in Places[z.flows[f].kind]
        BY <1>3, <2>5, <2>11 DEF Methods, Places
    <2>16. z.flows[f].pc # "start"
        BY <2>5, <2>11
    <2> QED
        BY <2>12, <2>13, <2>14, <2>15, <2>16, AfterHealthGood
<1>4. CASE ~Refuses /\ ~renews
    <2>1. PICK r : r = Replaced(w, {"resume"})
        OBVIOUS
    <2>2. /\ Good(r, f, t) /\ r.s = w.s /\ Dimmed(w, r)
          /\ \A g \in Slots : w.flows[g].kind \in {"resume"} => ~r.flows[g].same
        BY <2>1, ReplacedGood
    <2>3. PICK p : p = Framed(r, FALSE)
        OBVIOUS
    <2>4. /\ p.link = r.link /\ Dimmed(r, p)
          /\ SameLocks(r.s, p.s) /\ SameAccess(r.s, p.s) /\ ~p.s.frame
        BY <2>2, <2>3, FramedFacts DEF Good
    <2>5. Good(p, f, t)
        BY <2>2, <2>3, FramedGood
    <2>6. PICK x : x = IF w.s.access = None THEN w ELSE p
        OBVIOUS
    <2>7. /\ Good(x, f, t) /\ Dimmed(w, x) /\ SameLocks(w.s, x.s) /\ ~x.s.frame
          /\ x.s.control = w.s.control
          /\ \A g \in Slots \ {f} : x.flows[g].kind = "resume" => ~x.flows[g].same
        <3>1. CASE w.s.access = None
            <4>1. x = w /\ ~w.s.frame
                BY <2>6, <3>1 DEF Good, Accessed
            <4>2. Dimmed(w, w) /\ SameLocks(w.s, w.s)
                BY DEF Dimmed, Dimmer, SameLocks
            <4> QED
                BY <3>1, <4>1, <4>2 DEF Good, Accessed
        <3>2. CASE w.s.access # None
            BY <2>2, <2>4, <2>5, <2>6, <3>2 DEF Dimmed, Dimmer, SameLocks, SameAccess
        <3> QED
            BY <3>1, <3>2
    <2>8. \A g \in Slots \ {f} : ~Observes(x.flows[g])
        <3>1. \A g \in Slots \ {f} : ~Observes(w.flows[g])
            BY <1>4 DEF Good, Accessed
        <3> QED
            BY <2>7, <3>1 DEF Observes, Dimmed, Dimmer
    <2>9. PICK d : d = [x.s EXCEPT !.access = None,
                                   !.decision = [turn |-> fl.turn, mode |-> fl.mode]]
        OBVIOUS
    <2>10. x \in World /\ x.s \in Fields
        BY <2>7, Parts DEF Good
    <2>11. [turn |-> fl.turn, mode |-> fl.mode] \in Grant
        BY <1>1 DEF Flow, Grant
    <2>12. /\ d \in Fields /\ SameLocks(x.s, d) /\ d.access = None
           /\ d.control = x.s.control /\ ~d.frame
        BY <2>7, <2>9, <2>10, <2>11 DEF Fields, SameLocks
    <2>13. PICK y : y = Fielded(x, d)
        OBVIOUS
    <2>14. /\ y \in World /\ y.s = d /\ y.flows = x.flows /\ y.link = x.link
           /\ Owned(y, f) /\ Accessed(y, f, t) /\ Resumes(y, f) => Good(y, f, t)
        BY <2>7, <2>12, <2>13, FieldedFacts
    <2>15. Owned(y, f) /\ Resumes(y, f)
        BY <2>7, <2>12, <2>14 DEF Good, Owned, Resumes, SameLocks
    <2>16. Accessed(y, f, t)
        BY <2>7, <2>8, <2>12, <2>14 DEF Accessed
    <2>17. RequestAccess(w, f) = Released(y, f)
        BY <1>4, <2>1, <2>3, <2>6, <2>9, <2>10, <2>13 DEF RequestAccess, Fielded, World
    <2>18. y.flows[f].pc # "start"
        BY <2>7, <2>14 DEF Dimmed, Dimmer
    <2> QED
        BY <2>14, <2>15, <2>16, <2>17, <2>18, ReleasedGood
<1> QED
    BY <1>2, <1>3, <1>4

---------------------------------------------------------------------------
(* The reactions                                                           *)

\* The present state, as constants of a step.
IsNow(n, t) ==
    /\ n = Now /\ t = turn /\ n.s = s /\ n.flows = flows /\ n.link = link
    /\ n.native = native /\ n.overlay = overlay /\ n.consent = consent

LEMMA NowIs ==
    ASSUME IInv
    PROVE  \E n, t : IsNow(n, t) /\ Good(n, None, t) /\ t \in 1..MaxTurns + 1
BY DEF IsNow, Now, IInv

LEMMA SetGood ==
    ASSUME NEW w, NEW t, Set(w), Good(w, None, t), turn' = t, t \in 1..MaxTurns + 1
    PROVE  IInv'
<1>1. w \in World
    BY DEF Good
<1>2. Now' = w
    BY <1>1 DEF Set, Now, World
<1> QED
    BY <1>2 DEF IInv

LEMMA KindsOfPlaces ==
    ASSUME NEW fl \in Flow, fl.pc \in Places[fl.kind]
    PROVE  /\ fl.pc = "readiness" => fl.kind \in {"request", "trust", "act"}
           /\ fl.pc \in Starting => fl.kind \in {"decide", "trust", "resume"}
           /\ fl.pc = "queued" => fl.kind \in {"hello", "list", "decide", "trust", "observe", "act"}
           /\ fl.pc = "hello" => fl.kind = "hello"
           /\ fl.pc \in {"list", "thumbs"} => fl.kind = "list"
           /\ fl.pc = "select" => fl.kind = "decide"
           /\ fl.pc = "validate" => fl.kind \in {"trust", "observe", "act", "probe"}
           /\ fl.pc = "observe" => fl.kind \in {"observe", "resume"}
           /\ fl.pc = "act" => fl.kind = "act"
           /\ fl.kind = "none" => fl.pc = "idle"
           /\ fl.kind = "probe" => fl.pc = "validate"
BY DEF Flow, Kinds, Places, Starting

LEMMA AdmittedGood ==
    ASSUME IInv, NEW f \in Slots, Admitted(f) PROVE IInv'
<1>1. PICK n, t : IsNow(n, t) /\ Good(n, None, t) /\ t \in 1..MaxTurns + 1
    BY NowIs
<1>2. /\ n \in World /\ n.flows[f] \in Flow /\ n.flows \in [Slots -> Flow]
      /\ n.flows[f].pc \in Places[n.flows[f].kind]
      /\ n.flows[f].pc = "readiness" /\ n.flows[f].req = "kept" /\ turn' = t
    BY <1>1, Parts DEF Good, Placed, Admitted, IsNow
<1>3. n.flows[f].kind \in {"request", "trust", "act"}
    BY <1>2, KindsOfPlaces
<1>4. PICK x : x = Moved(n, f, "readiness", "none")
    OBVIOUS
<1>5. x = [Now EXCEPT !.flows[f].req = "none"]
    BY ZenonT(60), <1>1, <1>2, <1>4 DEF World, Flow, Moved, At, Called, IsNow
<1>6. "readiness" \in Awaits /\ "none" \in Promises
    BY DEF Awaits, Promises
<1>7. /\ Good(x, f, t) /\ x.s = n.s /\ x.link = n.link
      /\ \A g \in Slots : g # f => x.flows[g] = n.flows[g]
      /\ x.flows[f].pc = "readiness" /\ x.flows[f].kind = n.flows[f].kind
    <2>1. Good(n, f, t)
        BY <1>1, TakeUp
    <2> QED
        BY <1>2, <1>4, <1>6, <2>1, MovedGood
<1>8. CASE ~n.flows[f].fresh
    <2>1. PICK y : y = Released(x, f)
        OBVIOUS
    <2>2. Set(y)
        BY <1>1, <1>5, <1>8, <2>1 DEF Admitted, IsNow
    <2>3. Good(y, None, t)
        BY <1>7, <2>1, ReleasedGood
    <2> QED
        BY <1>1, <1>2, <2>2, <2>3, SetGood
<1>9. CASE n.flows[f].fresh /\ n.flows[f].kind = "act"
    <2>1. PICK y : y = UseAccess(x, f)
        OBVIOUS
    <2>2. Set(y)
        BY <1>1, <1>5, <1>9, <2>1 DEF Admitted, IsNow
    <2>3. Good(y, None, t)
        BY <1>7, <1>9, <2>1, UseAccessGood DEF Observes
    <2> QED
        BY <1>1, <1>2, <2>2, <2>3, SetGood
<1>10. CASE n.flows[f].fresh /\ n.flows[f].kind # "act"
    <2>1. PICK y : y = RequestAccess(x, f)
        OBVIOUS
    <2>2. Set(y)
        BY <1>1, <1>5, <1>10, <2>1 DEF Admitted, IsNow
    <2>3. \A g \in Slots \ {f} : ~Observes(n.flows[g])
        BY <1>1, <1>2, <1>10 DEF Good, Accessed, Asks
    <2>4. \A g \in Slots \ {f} : ~Observes(x.flows[g])
        BY <1>7, <2>3
    <2>5. Good(y, None, t)
        BY <1>3, <1>7, <1>10, <2>1, <2>4, RequestAccessGood
    <2> QED
        BY <1>1, <1>2, <2>2, <2>5, SetGood
<1> QED
    BY <1>8, <1>9, <1>10

LEMMA HealthOverGood ==
    ASSUME IInv, NEW f \in Slots, HealthOver(f) PROVE IInv'
<1>1. PICK n, t : IsNow(n, t) /\ Good(n, None, t) /\ t \in 1..MaxTurns + 1
    BY NowIs
<1>2. /\ n \in World /\ n.flows[f] \in Flow
      /\ n.flows[f].pc \in Places[n.flows[f].kind]
      /\ n.flows[f].pc \in {"queued", "waiting"} /\ turn' = t
    BY <1>1, Parts DEF Good, Placed, HealthOver, IsNow
<1>3. Good(n, f, t) /\ Allowed(n, f, t)
    BY <1>1, TakeUp
<1>4. CASE n.flows[f].pc = "queued" /\ n.flows[f].kind # "trust" /\ ~Stands(n.flows[f])
    <2>1. PICK y : y = Throw(n, f, "cancelled")
        OBVIOUS
    <2>2. Set(y)
        BY <1>1, <1>4, <2>1 DEF HealthOver, IsNow
    <2>3. Good(y, None, t)
        BY <1>3, <2>1, ThrowGood
    <2> QED
        BY <1>1, <1>2, <2>2, <2>3, SetGood
<1>5. CASE ~(n.flows[f].pc = "queued" /\ n.flows[f].kind # "trust" /\ ~Stands(n.flows[f]))
    <2>0. PICK m : m = Request(n.flows[f])
        OBVIOUS
    <2>1. PICK y : y = Ask(n, f, m)
        OBVIOUS
    <2>2. Set(y)
        BY <1>1, <1>5, <2>0, <2>1 DEF HealthOver, IsNow
    <2>3. m \in Methods /\ m \in Places[n.flows[f].kind]
        <3>1. CASE n.flows[f].pc = "waiting"
            <4>1. n.flows[f].kind \in {"decide", "trust", "resume"} /\ m = "target"
                BY <1>2, <2>0, <3>1, KindsOfPlaces DEF Starting, Request
            <4> QED
                BY <4>1 DEF Methods, Places, Starting
        <3>2. CASE n.flows[f].pc = "queued"
            <4>1. n.flows[f].kind \in {"hello", "list", "decide", "trust", "observe", "act"}
                BY <1>2, <3>2, KindsOfPlaces
            <4>2. m = IF n.flows[f].kind \in {"hello", "list"} THEN n.flows[f].kind
                      ELSE IF n.flows[f].kind = "decide" THEN "select" ELSE "validate"
                BY <2>0, <3>2 DEF Request
            <4> QED
                BY <4>1, <4>2 DEF Methods, Places
        <3> QED
            BY <1>2, <3>1, <3>2
    <2>4. Good(y, None, t)
        BY <1>2, <1>3, <2>1, <2>3, AskGood
    <2> QED
        BY <1>1, <1>2, <2>2, <2>4, SetGood
<1> QED
    BY <1>4, <1>5

LEMMA LinkedGood ==
    ASSUME IInv, NEW f \in Slots, Linked(f) PROVE IInv'
<1>1. PICK n, t : IsNow(n, t) /\ Good(n, None, t) /\ t \in 1..MaxTurns + 1
    BY NowIs
<1>2. /\ n \in World /\ n.flows[f] \in Flow
      /\ n.flows[f].pc \in Places[n.flows[f].kind] /\ Waits(n.flows[f])
      /\ n.flows[f].pc \notin {"readiness", "overlay"} /\ n.flows[f].req \in {"kept", "broken"}
      /\ turn' = t
    BY <1>1, Parts DEF Good, Placed, Linked, IsNow
<1>3. Good(n, f, t) /\ Allowed(n, f, t)
    BY <1>1, TakeUp
<1>4. CASE n.flows[f].req # "kept"
    <2>1. PICK y : y = Throw(n, f, "cancelled")
        OBVIOUS
    <2>2. Set(y)
        BY <1>1, <1>4, <2>1 DEF Linked, IsNow
    <2>3. Good(y, None, t)
        BY <1>3, <2>1, ThrowGood
    <2> QED
        BY <1>1, <1>2, <2>2, <2>3, SetGood
<1>5. CASE n.flows[f].req = "kept"
    <2>1. PICK y : y = Ask(n, f, n.flows[f].pc)
        OBVIOUS
    <2>2. Set(y)
        BY <1>1, <1>5, <2>1 DEF Linked, IsNow
    <2>3. n.flows[f].pc \in Methods
        BY <1>2 DEF Waits, Flow, Awaits, Methods
    <2>4. Good(y, None, t)
        BY <1>2, <1>3, <2>1, <2>3, AskGood
    <2> QED
        BY <1>1, <1>2, <2>2, <2>4, SetGood
<1> QED
    BY <1>4, <1>5

LEMMA PreparedGood ==
    ASSUME IInv, NEW f \in Slots, Prepared(f) PROVE IInv'
<1>1. PICK n, t : IsNow(n, t) /\ Good(n, None, t) /\ t \in 1..MaxTurns + 1
    BY NowIs
<1>2. /\ n \in World /\ n.s \in Fields /\ n.flows[f] \in Flow /\ n.flows \in [Slots -> Flow]
      /\ n.flows[f].pc \in Places[n.flows[f].kind] /\ n.flows[f].pc = "overlay" /\ turn' = t
    BY <1>1, Parts DEF Good, Placed, Prepared, IsNow
<1>3. Good(n, f, t) /\ Allowed(n, f, t)
    BY <1>1, TakeUp
<1>4. PICK d : d = [n.s EXCEPT !.early = "open"]
    OBVIOUS
<1>5. PICK w : w = Fielded(n, d)
    OBVIOUS
<1>6. w = [Now EXCEPT !.s.early = "open"]
    BY <1>1, <1>2, <1>4, <1>5 DEF IsNow, Fielded, World, Fields
<1>7. PICK y : y = IF n.flows[f].req = "broken" THEN Throw(n, f, "refused")
                   ELSE IF ~n.flows[f].fresh \/ n.s.access = None THEN Throw(n, f, "cancelled")
                   ELSE Ask(w, f, "start")
    OBVIOUS
<1>8. Set(y)
    BY <1>1, <1>6, <1>7, Zenon DEF Prepared, IsNow
<1>9. Good(Ask(w, f, "start"), None, t)
    <2>1. PICK u : u = Moved(n, f, "start", n.flows[f].req)
        OBVIOUS
    <2>2. "start" \in Awaits /\ n.flows[f].req \in Promises /\ "start" \in Methods
        BY <1>2 DEF Awaits, Flow, Methods
    <2>3. /\ Good(u, f, t) /\ u.s = n.s /\ u.link = n.link
          /\ \A g \in Slots : g # f => u.flows[g] = n.flows[g]
          /\ u.flows[f].pc = "start"
          /\ u.flows[f].kind = n.flows[f].kind /\ u.flows[f].turn = n.flows[f].turn
          /\ u.flows[f].fresh <=> n.flows[f].fresh
          /\ u.flows[f].same <=> n.flows[f].same
        BY <1>2, <1>3, <2>1, <2>2, MovedGood
    <2>4. /\ d \in Fields /\ d.busy = n.s.busy /\ d.resuming = n.s.resuming
          /\ d.trusted = n.s.trusted /\ d.flight = n.s.flight /\ d.health = n.s.health
          /\ d.access = n.s.access /\ d.control = n.s.control /\ d.frame = n.s.frame
        BY <1>2, <1>4 DEF Fields
    <2>5. PICK x : x = Fielded(u, d)
        OBVIOUS
    <2>6. /\ x \in World /\ x.s = d /\ x.flows = u.flows /\ x.link = u.link
          /\ Owned(x, f) /\ Accessed(x, f, t) /\ Resumes(x, f) => Good(x, f, t)
        BY <2>3, <2>4, <2>5, FieldedFacts
    <2>7. Owned(x, f) /\ Accessed(x, f, t) /\ Resumes(x, f)
        BY <2>3, <2>4, <2>6 DEF Good, Owned, Accessed, Resumes
    <2>8. Allowed(x, f, t)
        BY <1>3, <2>3, <2>4, <2>6, AllowedStill
    <2>9. /\ w \in World /\ w.s = d /\ w.flows = n.flows /\ w.link = n.link
        BY <1>3, <1>5, <2>4, FieldedFacts
    <2>10. x = Moved(w, f, "start", w.flows[f].req)
        BY <1>2, <1>5, <2>1, <2>5, <2>9 DEF Moved, Called, Fielded, World
    <2>11. "start" \in Places[x.flows[f].kind]
        BY <1>2, <2>3, <2>6, KindsOfPlaces DEF Places, Starting
    <2> QED
        BY <2>2, <2>3, <2>6, <2>7, <2>8, <2>9, <2>10, <2>11, AskedGood
<1>10. Good(y, None, t)
    BY <1>3, <1>7, <1>9, ThrowGood
<1> QED
    BY <1>1, <1>2, <1>8, <1>10, SetGood

---------------------------------------------------------------------------
(* Calls that begin                                                        *)

LEMMA CallFacts ==
    ASSUME NEW kind \in Kinds, NEW t \in Turns, NEW mode \in Modes, NEW e, e = Call(kind, t, mode)
    PROVE  /\ e \in Flow /\ e.kind = kind /\ e.turn = t /\ e.mode = mode
           /\ e.pc = "idle" /\ e.req = "none" /\ e.fresh
           /\ e.same <=> kind \in {"list", "resume"}
<1> DEFINE b == kind \in {"list", "resume"}
<1>1. b \in BOOLEAN
    OBVIOUS
<1>2. e = [kind |-> kind, turn |-> t, mode |-> mode, pc |-> "idle", req |-> "none",
           fresh |-> TRUE, same |-> b, latest |-> FALSE]
    BY DEF Call
<1> HIDE DEF b
<1>3. /\ e \in Flow /\ e.kind = kind /\ e.turn = t /\ e.mode = mode
      /\ e.pc = "idle" /\ e.req = "none" /\ e.fresh /\ (e.same <=> b)
    BY <1>1, <1>2 DEF Flow, Awaits, Promises
<1> QED
    BY <1>3 DEF b

LEMMA BeginGood ==
    ASSUME NEW w, NEW f \in Slots, NEW t, Good(w, None, t), w.flows[f].kind = "none",
           NEW e \in Flow, NEW y, y = Called(w, f, e)
    PROVE  /\ Good(y, f, t)
           /\ y.flows[f] = e /\ \A g \in Slots : g # f => y.flows[g] = w.flows[g]
           /\ y.s = w.s /\ y.link = w.link /\ SameFrame(w, y)
           /\ y.s.busy # f /\ y.s.trusted # f /\ w.flows[f].pc = "idle"
<1>1. Good(w, f, t) /\ w.flows[f] \in Flow
    BY TakeUp, Parts DEF Good
<1>2. w.flows[f].pc = "idle"
    BY <1>1, KindsOfPlaces DEF Good, Placed
<1>3. w.s.busy # f /\ w.s.trusted # f
    BY DEF Good, Owned
<1>4. /\ Good(y, f, t)
      /\ y.flows[f] = e /\ \A g \in Slots : g # f => y.flows[g] = w.flows[g]
      /\ y.s = w.s /\ y.link = w.link /\ SameFrame(w, y)
    BY <1>1, <1>2, CallGood
<1> QED
    BY <1>2, <1>3, <1>4

LEMMA CheckGood ==
    ASSUME NEW w, NEW f \in Slots, NEW g \in Slots, NEW t, Good(w, None, t), f # g,
           w.flows[f].kind = "none", w.flows[g].kind = "none",
           NEW call \in Flow, call.kind \in {"request", "trust", "act"}, call.req = "none"
    PROVE  Good(Check(w, f, g, call), None, t)
<1>1. w \in World /\ w.flows \in [Slots -> Flow]
    BY Parts DEF Good
<1>2. PICK e : e = At(call, "readiness", "none")
    OBVIOUS
<1>3. "readiness" \in Awaits /\ "none" \in Promises
    BY DEF Awaits, Promises
<1>4. e \in Flow /\ e.pc = "readiness" /\ e.req = "none" /\ e.kind = call.kind
    BY <1>2, <1>3, MovedFacts
<1>5. PICK x : x = Called(w, f, e)
    OBVIOUS
<1>6. /\ Good(x, f, t)
      /\ x.flows[f] = e /\ \A h \in Slots : h # f => x.flows[h] = w.flows[h]
      /\ x.s = w.s /\ x.link = w.link /\ SameFrame(w, x)
      /\ x.s.busy # f /\ x.s.trusted # f
    BY <1>4, <1>5, BeginGood
<1>7. x = [w EXCEPT !.flows[f] = [call EXCEPT !.pc = "readiness"]]
    BY <1>1, <1>2, <1>5 DEF World, Flow, Called, At
<1>8. Fits(x, f, t)
    <2>1. Waits(x.flows[f]) /\ x.flows[f].pc \in Places[x.flows[f].kind]
        BY <1>4, <1>6 DEF Waits, Methods, Places
    <2>2. x.s.early # "none" => \E h \in Slots : x.flows[h].pc = "start"
        BY <1>6 DEF Good, Owned
    <2>3. Allowed(x, f, t)
        BY <1>4, <1>6 DEF Allowed, Observes
    <2> QED
        BY <1>4, <1>6, <2>1, <2>2, <2>3 DEF Fits, UnderWay, Asks
<1>9. Good(x, None, t)
    BY <1>6, <1>8, HandBack
<1>10. CASE w.s.flight # None
    BY <1>7, <1>9, <1>10 DEF Check
<1>11. CASE w.s.flight = None
    <2>1. PICK a : a = Call("hello", call.turn, call.mode)
        OBVIOUS
    <2>2. call.turn \in Turns /\ call.mode \in Modes /\ "hello" \in Kinds
        BY DEF Flow, Kinds
    <2>3. a \in Flow /\ a.kind = "hello" /\ a.pc = "idle"
        BY <2>1, <2>2, CallFacts
    <2>4. PICK u : u = Called(x, g, a)
        OBVIOUS
    <2>5. x.flows[g].kind = "none"
        BY <1>6
    <2>6. /\ Good(u, g, t) /\ u.flows[g] = a /\ u.s = x.s
        BY <1>9, <2>3, <2>4, <2>5, BeginGood
    <2>7. PICK d : d = [u.s EXCEPT !.flight = g]
        OBVIOUS
    <2>8. u.s \in Fields
        BY <2>6, Parts DEF Good
    <2>9. /\ d \in Fields /\ d.busy = u.s.busy /\ d.resuming = u.s.resuming
          /\ d.trusted = u.s.trusted /\ d.flight = g /\ d.health = u.s.health
          /\ d.early = u.s.early /\ d.access = u.s.access /\ d.control = u.s.control
          /\ d.frame = u.s.frame
        BY <2>7, <2>8 DEF Fields
    <2>10. PICK y : y = Fielded(u, d)
        OBVIOUS
    <2>11. /\ y \in World /\ y.s = d /\ y.flows = u.flows /\ y.link = u.link
           /\ Owned(y, g) /\ Accessed(y, g, t) /\ Resumes(y, g) => Good(y, g, t)
        BY <2>6, <2>9, <2>10, FieldedFacts
    <2>12. Owned(y, g) /\ Accessed(y, g, t) /\ Resumes(y, g)
        BY <2>3, <2>6, <2>9, <2>11 DEF Good, Owned, Accessed, Resumes
    <2>13. x \in World /\ u \in World
        BY <1>9, <2>6 DEF Good
    <2>14. y = [x EXCEPT !.flows[g] = Call("hello", call.turn, call.mode), !.s.flight = g]
        BY <2>1, <2>4, <2>6, <2>7, <2>10, <2>13 DEF Called, Fielded, World
    <2>15. Check(w, f, g, call) = AfterHealth(y, g, "queued", "hello")
        BY <1>7, <1>11, <2>14, Zenon DEF Check
    <2>16. Allowed(y, g, t)
        BY <2>3, <2>6, <2>11 DEF Allowed, Observes
    <2>17. "hello" \in Methods /\ "hello" \in Places[y.flows[g].kind]
           /\ "queued" \in Places[y.flows[g].kind] /\ y.flows[g].pc # "start"
        BY <2>3, <2>6, <2>11 DEF Methods, Places
    <2> QED
        BY <2>11, <2>12, <2>15, <2>16, <2>17, AfterHealthGood
<1> QED
    BY <1>10, <1>11

LEMMA ExecuteGood ==
    ASSUME IInv, NEW f \in Slots, NEW g \in Slots, NEW kind \in {"request", "trust", "act"},
           NEW latest \in BOOLEAN, Execute(f, g, kind, latest)
    PROVE  IInv'
<1>1. PICK n, t : IsNow(n, t) /\ Good(n, None, t) /\ t \in 1..MaxTurns + 1
    BY NowIs
<1>2. /\ n.flows[f].kind = "none" /\ n.flows[g].kind = "none" /\ f # g /\ t \in Turns /\ turn' = t
    BY <1>1 DEF Execute, Free, IsNow
<1>3. PICK e : e = Call(kind, t, "control")
    OBVIOUS
<1>4. kind \in Kinds /\ "control" \in Modes
    BY DEF Kinds, Modes
<1>5. e \in Flow /\ e.kind = kind /\ e.req = "none"
    BY <1>2, <1>3, <1>4, CallFacts
<1>6. PICK c : c = [e EXCEPT !.latest = latest]
    OBVIOUS
<1>7. c \in Flow /\ c.kind = kind /\ c.req = "none"
    BY <1>5, <1>6 DEF Flow
<1>8. PICK y : y = Check(n, f, g, c)
    OBVIOUS
<1>9. Set(y)
    BY <1>1, <1>3, <1>6, <1>8 DEF Execute, IsNow
<1>10. Good(y, None, t)
    BY <1>1, <1>2, <1>7, <1>8, CheckGood
<1> QED
    BY <1>1, <1>2, <1>9, <1>10, SetGood

LEMMA ObserveGood ==
    ASSUME IInv, NEW f \in Slots, NEW kind \in {"request", "observe"}, Observe(f, kind)
    PROVE  IInv'
<1>1. PICK n, t : IsNow(n, t) /\ Good(n, None, t) /\ t \in 1..MaxTurns + 1
    BY NowIs
<1>2. n.flows[f].kind = "none" /\ t \in Turns /\ turn' = t
    BY <1>1 DEF Observe, Free, IsNow
<1>3. PICK e : e = Call(kind, t, "observe")
    OBVIOUS
<1>4. kind \in Kinds /\ "observe" \in Modes
    BY DEF Kinds, Modes
<1>5. e \in Flow /\ e.kind = kind /\ e.turn = t /\ e.mode = "observe" /\ e.pc = "idle"
    BY <1>2, <1>3, <1>4, CallFacts
<1>6. PICK x : x = Called(n, f, e)
    OBVIOUS
<1>7. /\ Good(x, f, t) /\ x.flows[f] = e
      /\ \A g \in Slots : g # f => x.flows[g] = n.flows[g]
    BY <1>1, <1>2, <1>5, <1>6, BeginGood
<1>8. x = [Now EXCEPT !.flows[f] = Call(kind, turn, "observe")]
    BY <1>1, <1>3, <1>6 DEF IsNow, Called, Good, World
<1>9. PICK y : y = IF kind = "request" THEN RequestAccess(x, f) ELSE UseAccess(x, f)
    OBVIOUS
<1>10. Set(y)
    BY <1>8, <1>9 DEF Observe
<1>11. CASE kind = "request"
    <2>1. Good(RequestAccess(x, f), None, t)
        BY <1>5, <1>7, <1>11, RequestAccessGood
    <2> QED
        BY <1>1, <1>2, <1>9, <1>10, <1>11, <2>1, SetGood
<1>12. CASE kind = "observe"
    <2>1. \A g \in Slots \ {f} : ~Asks(x.flows[g])
        BY <1>1, <1>7 DEF Observe, Free, Quiet, Ready, IsNow, Asks
    <2>2. Good(UseAccess(x, f), None, t)
        BY <1>5, <1>7, <1>12, <2>1, UseAccessGood
    <2> QED
        BY <1>1, <1>2, <1>9, <1>10, <1>12, <2>2, SetGood
<1> QED
    BY <1>11, <1>12

LEMMA ListGood ==
    ASSUME IInv, NEW f \in Slots, List(f) PROVE IInv'
<1>1. PICK n, t : IsNow(n, t) /\ Good(n, None, t) /\ t \in 1..MaxTurns + 1
    BY NowIs
<1>2. /\ n.flows[f].kind = "none" /\ n.s.decision # None /\ n.s \in Fields /\ turn' = t
    BY <1>1, Parts DEF List, Free, IsNow, Good
<1>3. n.s.decision.turn \in Turns /\ n.s.decision.mode \in Modes
    BY <1>2 DEF Fields, Grant
<1>4. PICK e : e = Call("list", n.s.decision.turn, n.s.decision.mode)
    OBVIOUS
<1>5. e \in Flow /\ e.kind = "list" /\ e.pc = "idle"
    BY <1>3, <1>4, CallFacts DEF Kinds
<1>6. PICK x : x = Called(n, f, e)
    OBVIOUS
<1>7. Good(x, f, t) /\ x.flows[f] = e
    BY <1>1, <1>2, <1>5, <1>6, BeginGood
<1>8. PICK y : y = AfterHealth(x, f, "queued", "list")
    OBVIOUS
<1>9. Set(y)
    <2>1. x = [Now EXCEPT !.flows[f] = Call("list", s.decision.turn, s.decision.mode)]
        BY <1>1, <1>4, <1>6 DEF IsNow, Called, Good, World
    <2> QED
        BY <1>8, <2>1 DEF List
<1>10. Allowed(x, f, t)
    BY <1>5, <1>7 DEF Allowed, Observes
<1>11. "list" \in Methods /\ "list" \in Places[x.flows[f].kind]
       /\ "queued" \in Places[x.flows[f].kind]
    BY <1>5, <1>7 DEF Methods, Places
<1>12. Good(y, None, t)
    BY <1>5, <1>7, <1>8, <1>10, <1>11, AfterHealthGood
<1> QED
    BY <1>1, <1>2, <1>9, <1>12, SetGood

LEMMA DecideGood ==
    ASSUME IInv, NEW f \in Slots, Decide(f) PROVE IInv'
<1>1. PICK n, t : IsNow(n, t) /\ Good(n, None, t) /\ t \in 1..MaxTurns + 1
    BY NowIs
<1>2. /\ n.flows[f].kind = "none" /\ n.s.decision # None /\ n.s \in Fields /\ turn' = t
      /\ n.consent \in [Turns -> SUBSET Modes]
    BY <1>1, Parts DEF Decide, Free, IsNow, Good, World
<1>3. n.s.decision.turn \in Turns /\ n.s.decision.mode \in Modes
    BY <1>2 DEF Fields, Grant
<1>4. PICK e : e = Call("decide", n.s.decision.turn, n.s.decision.mode)
    OBVIOUS
<1>5. e \in Flow /\ e.kind = "decide" /\ e.pc = "idle"
    BY <1>3, <1>4, CallFacts DEF Kinds
<1>6. PICK x : x = Called(n, f, e)
    OBVIOUS
<1>7. Good(x, f, t) /\ x.flows[f] = e /\ x.consent = n.consent
    BY <1>1, <1>2, <1>5, <1>6, BeginGood DEF SameFrame
<1>8. PICK k : k = [x.consent EXCEPT ![n.s.decision.turn] = {n.s.decision.mode}]
    OBVIOUS
<1>9. PICK z : z = [x EXCEPT !.consent = k]
    OBVIOUS
<1>10. k \in [Turns -> SUBSET Modes] /\ x \in World
    BY <1>2, <1>3, <1>7, <1>8 DEF Good
<1>11. z \in World /\ z.s = x.s /\ z.flows = x.flows /\ z.link = x.link
    BY <1>9, <1>10 DEF World
<1>12. Good(z, f, t)
    BY <1>7, <1>11, RestGood
<1>13. PICK y : y = AfterHealth(z, f, "queued", "select")
    OBVIOUS
<1>14. Set(y)
    <2>1. z = [Now EXCEPT !.flows[f] = Call("decide", s.decision.turn, s.decision.mode),
                          !.consent[s.decision.turn] = {s.decision.mode}]
        BY <1>1, <1>4, <1>6, <1>7, <1>8, <1>9 DEF IsNow, Called, Good, World
    <2> QED
        BY <1>13, <2>1 DEF Decide
<1>15. Allowed(z, f, t)
    BY <1>5, <1>7, <1>11 DEF Allowed, Observes
<1>16. "select" \in Methods /\ "select" \in Places[z.flows[f].kind]
       /\ "queued" \in Places[z.flows[f].kind] /\ z.flows[f].pc # "start"
    BY <1>5, <1>7, <1>11 DEF Methods, Places
<1>17. Good(y, None, t)
    BY <1>12, <1>13, <1>15, <1>16, AfterHealthGood
<1> QED
    BY <1>1, <1>2, <1>14, <1>17, SetGood

LEMMA ResumeGood ==
    ASSUME IInv, NEW f \in Slots, Resume(f) PROVE IInv'
<1>1. PICK n, t : IsNow(n, t) /\ Good(n, None, t) /\ t \in 1..MaxTurns + 1
    BY NowIs
<1>2. /\ n.flows[f].kind = "none" /\ n.s.control # None /\ n.s.control.state = "paused"
      /\ n.s.access # None /\ n.s \in Fields /\ turn' = t
      /\ n.s.busy = None /\ n.s.resuming = None
    BY <1>1, Parts DEF Resume, Free, IsNow, Good
<1>3. PICK p : p = Framed(n, FALSE)
    OBVIOUS
<1>4. /\ Good(p, None, t) /\ Dimmed(n, p) /\ SameLocks(n.s, p.s) /\ SameAccess(n.s, p.s)
      /\ ~p.s.frame
    BY <1>1, <1>3, FramedGood, FramedFacts DEF Good
<1>5. n.s.access.turn \in Turns /\ p.flows[f].kind = "none" /\ p \in World /\ p.s \in Fields
    BY <1>2, <1>4, Parts DEF Fields, Grant, Dimmed, Dimmer, Good
<1>6. PICK a : a = Call("resume", n.s.access.turn, "control")
    OBVIOUS
<1>7. a \in Flow /\ a.kind = "resume" /\ a.pc = "idle"
    BY <1>5, <1>6, CallFacts DEF Kinds, Modes
<1>8. PICK e : e = [a EXCEPT !.fresh = FALSE]
    OBVIOUS
<1>9. e \in Flow /\ e.kind = "resume" /\ e.pc = "idle"
    BY <1>7, <1>8 DEF Flow
<1>10. PICK u : u = Called(p, f, e)
    OBVIOUS
<1>11. Good(u, f, t) /\ u.flows[f] = e /\ u.s = p.s
    BY <1>4, <1>5, <1>9, <1>10, BeginGood
<1>12. PICK c : c = [p.s.control EXCEPT !.resuming = TRUE]
    OBVIOUS
<1>13. c \in Control /\ c.state = "paused"
    BY <1>2, <1>4, <1>5, <1>12 DEF Control, Fields, SameAccess
<1>14. PICK d : d = [p.s EXCEPT !.busy = f, !.resuming = f, !.control = c]
    OBVIOUS
<1>15. /\ d \in Fields /\ d.busy = f /\ d.resuming = f
       /\ d.trusted = p.s.trusted /\ d.flight = p.s.flight /\ d.health = p.s.health
       /\ d.early = p.s.early /\ d.access = p.s.access /\ d.control = c /\ d.frame = p.s.frame
    BY <1>5, <1>13, <1>14 DEF Fields
<1>16. PICK x : x = Fielded(u, d)
    OBVIOUS
<1>17. /\ x \in World /\ x.s = d /\ x.flows = u.flows /\ x.link = u.link
       /\ Owned(x, f) /\ Accessed(x, f, t) /\ Resumes(x, f) => Good(x, f, t)
    BY <1>11, <1>15, <1>16, FieldedFacts
<1>18. Owned(x, f)
    BY <1>9, <1>11, <1>15, <1>17 DEF Good, Owned
<1>19. Accessed(x, f, t)
    BY <1>11, <1>15, <1>17 DEF Good, Accessed
<1>20. Resumes(x, f)
    BY <1>13, <1>15, <1>17 DEF Resumes
<1>21. PICK y : y = StartControl(x, f)
    OBVIOUS
<1>22. Set(y)
    <2>1. u \in World
        BY <1>11 DEF Good
    <2>2. x = [p EXCEPT !.s = d, !.flows = u.flows]
        BY <1>5, <1>10, <1>16, <2>1 DEF Called, Fielded, World
    <2>3. u.flows = [p.flows EXCEPT ![f] = e]
        BY <1>5, <1>10 DEF Called, World
    <2>4. x = [p EXCEPT !.s.busy = f, !.s.resuming = f, !.s.control.resuming = TRUE,
                        !.flows[f] = e]
        BY <1>5, <1>12, <1>14, <2>2, <2>3 DEF World, Fields
    <2> QED
        BY <1>1, <1>3, <1>6, <1>8, <1>21, <2>4 DEF Resume, IsNow
<1>23. Good(y, None, t)
    BY <1>9, <1>11, <1>13, <1>15, <1>17, <1>18, <1>19, <1>20, <1>21, StartControlGood
<1> QED
    BY <1>1, <1>2, <1>22, <1>23, SetGood

LEMMA ProbeGood ==
    ASSUME IInv, NEW f \in Slots, Probe(f) PROVE IInv'
<1>1. PICK n, t : IsNow(n, t) /\ Good(n, None, t) /\ t \in 1..MaxTurns + 1
    BY NowIs
<1>2. n.flows[f].kind = "none" /\ n.s.health = None /\ turn' = t
    BY <1>1 DEF Probe, Free, IsNow
<1>3. PICK e : e = Call("probe", 1, "observe")
    OBVIOUS
<1>4. 1 \in Turns
    BY DEF Turns
<1>5. e \in Flow /\ e.kind = "probe" /\ e.pc = "idle"
    BY <1>3, <1>4, CallFacts DEF Kinds, Modes
<1>6. PICK u : u = Called(n, f, e)
    OBVIOUS
<1>7. Good(u, f, t) /\ u.flows[f] = e /\ u.s = n.s
    BY <1>1, <1>2, <1>5, <1>6, BeginGood
<1>8. u \in World /\ u.s \in Fields /\ n \in World
    BY <1>1, <1>7, Parts DEF Good
<1>9. PICK d : d = [u.s EXCEPT !.health = f]
    OBVIOUS
<1>10. /\ d \in Fields /\ d.busy = u.s.busy /\ d.resuming = u.s.resuming
       /\ d.trusted = u.s.trusted /\ d.flight = u.s.flight /\ d.health = f
       /\ d.early = u.s.early /\ d.access = u.s.access /\ d.control = u.s.control
       /\ d.frame = u.s.frame
    BY <1>8, <1>9 DEF Fields
<1>11. PICK x : x = Fielded(u, d)
    OBVIOUS
<1>12. /\ x \in World /\ x.s = d /\ x.flows = u.flows /\ x.link = u.link
       /\ Owned(x, f) /\ Accessed(x, f, t) /\ Resumes(x, f) => Good(x, f, t)
    BY <1>7, <1>10, <1>11, FieldedFacts
<1>13. Owned(x, f) /\ Accessed(x, f, t) /\ Resumes(x, f)
    BY <1>5, <1>7, <1>10, <1>12 DEF Good, Owned, Accessed, Resumes
<1>14. PICK y : y = Ask(x, f, "validate")
    OBVIOUS
<1>15. Set(y)
    <2>1. x = [Now EXCEPT !.flows[f] = Call("probe", 1, "observe"), !.s.health = f]
        BY <1>1, <1>3, <1>6, <1>7, <1>8, <1>9, <1>11 DEF IsNow, Called, Fielded, World
    <2> QED
        BY <1>14, <2>1 DEF Probe
<1>16. Allowed(x, f, t)
    BY <1>5, <1>7, <1>12 DEF Allowed, Observes
<1>17. "validate" \in Methods /\ "validate" \in Places[x.flows[f].kind] /\ x.flows[f].pc # "start"
    BY <1>5, <1>7, <1>12 DEF Methods, Places
<1>18. Good(y, None, t)
    BY <1>12, <1>13, <1>14, <1>16, <1>17, AskGood
<1> QED
    BY <1>1, <1>2, <1>15, <1>18, SetGood

---------------------------------------------------------------------------
(* Revocations, pauses and the end of a turn                               *)

LEMMA TurnEndsGood ==
    ASSUME IInv, TurnEnds PROVE IInv'
<1>1. PICK n, t : IsNow(n, t) /\ Good(n, None, t) /\ t \in 1..MaxTurns + 1
    BY NowIs
<1>2. t \in Turns /\ turn' = t + 1 /\ t + 1 \in 1..MaxTurns + 1
    BY <1>1 DEF TurnEnds, IsNow, Turns
<1>3. PICK x : x = Finished(n, t)
    OBVIOUS
<1>4. Good(x, None, t + 1)
    BY <1>1, <1>2, <1>3, FinishedGood
<1>5. PICK k : k = [x.consent EXCEPT ![t] = {}]
    OBVIOUS
<1>6. PICK y : y = [x EXCEPT !.consent = k]
    OBVIOUS
<1>7. x \in World /\ k \in [Turns -> SUBSET Modes]
    BY <1>2, <1>4, <1>5 DEF Good, World
<1>8. y \in World /\ y.s = x.s /\ y.flows = x.flows /\ y.link = x.link
    BY <1>6, <1>7 DEF World
<1>9. Good(y, None, t + 1)
    BY <1>4, <1>8, RestGood
<1>10. Set(y)
    BY <1>1, <1>3, <1>5, <1>6, <1>7 DEF TurnEnds, IsNow, World
<1> QED
    BY <1>2, <1>9, <1>10, SetGood

LEMMA RevokeGood ==
    ASSUME IInv, Set(Revoked(Now)), UNCHANGED turn PROVE IInv'
<1>1. PICK n, t : IsNow(n, t) /\ Good(n, None, t) /\ t \in 1..MaxTurns + 1
    BY NowIs
<1>2. PICK y : y = Revoked(n)
    OBVIOUS
<1>3. Set(y) /\ turn' = t
    BY <1>1, <1>2 DEF IsNow
<1>4. Good(y, None, t)
    BY <1>1, <1>2, RevokedGood
<1> QED
    BY <1>1, <1>3, <1>4, SetGood

LEMMA DisplayChangedGood ==
    ASSUME IInv, DisplayChanged PROVE IInv'
<1>1. PICK n, t : IsNow(n, t) /\ Good(n, None, t) /\ t \in 1..MaxTurns + 1
    BY NowIs
<1>2. PICK y : y = Paused(n)
    OBVIOUS
<1>3. Set(y) /\ turn' = t
    BY <1>1, <1>2 DEF IsNow, DisplayChanged
<1>4. Good(y, None, t)
    BY <1>1, <1>2, PausedGood
<1> QED
    BY <1>1, <1>3, <1>4, SetGood

LEMMA HeartbeatGood ==
    ASSUME IInv, Heartbeat PROVE IInv'
<1>1. PICK n, t : IsNow(n, t) /\ Good(n, None, t) /\ t \in 1..MaxTurns + 1
    BY NowIs
<1>2. PICK y : y = Signal(n, "beat")
    OBVIOUS
<1>3. Set(y) /\ turn' = t
    BY <1>1, <1>2 DEF IsNow, Heartbeat
<1>4. /\ y \in World /\ y.s = n.s /\ y.flows = n.flows
      /\ n.link.proc # "none" => y.link.proc = n.link.proc
    BY <1>1, <1>2, SignalFacts DEF Good, Signals
<1>5. Good(y, None, t)
    BY <1>1, <1>4, RestGood
<1> QED
    BY <1>1, <1>3, <1>5, SetGood

LEMMA AcknowledgeGood ==
    ASSUME IInv, Acknowledge PROVE IInv'
<1>1. PICK n, t : IsNow(n, t) /\ Good(n, None, t) /\ t \in 1..MaxTurns + 1
    BY NowIs
<1>2. n.s.control # None /\ n.s.control.state = "cancelled" /\ turn' = t
    BY <1>1 DEF Acknowledge, IsNow
<1>3. PICK x : x = CloseOverlay(n)
    OBVIOUS
<1>4. x \in World /\ x.s = n.s /\ x.flows = n.flows /\ x.link = n.link
    BY <1>1, <1>3, CloseOverlayFacts DEF Good
<1>5. Good(x, None, t) /\ x.s \in Fields
    BY <1>1, <1>4, RestGood, Parts
<1>6. PICK d : d = [x.s EXCEPT !.control = None]
    OBVIOUS
<1>7. /\ d \in Fields /\ SameLocks(x.s, d) /\ d.access = x.s.access /\ d.frame = x.s.frame
      /\ d.control = None
    BY <1>5, <1>6 DEF Fields, SameLocks
<1>8. PICK y : y = Fielded(x, d)
    OBVIOUS
<1>9. /\ y \in World /\ y.s = d /\ y.flows = x.flows /\ y.link = x.link
      /\ Owned(y, None) /\ Accessed(y, None, t) /\ Resumes(y, None) => Good(y, None, t)
    BY <1>5, <1>7, <1>8, FieldedFacts
<1>10. Owned(y, None) /\ Accessed(y, None, t)
    BY <1>5, <1>7, <1>9 DEF Good, Owned, Accessed, SameLocks
<1>11. Resumes(y, None)
    BY <1>2, <1>4, <1>5, <1>7, <1>9 DEF Good, Resumes
<1>12. Set(y)
    BY <1>1, <1>3, <1>4, <1>6, <1>8 DEF Acknowledge, IsNow, Fielded, World
<1> QED
    BY <1>1, <1>2, <1>9, <1>10, <1>11, <1>12, SetGood

LEMMA AllowGood ==
    ASSUME IInv, NEW setting \in {"off", "observe", "control"}, Allow(setting) PROVE IInv'
<1>1. PICK n, t : IsNow(n, t) /\ Good(n, None, t) /\ t \in 1..MaxTurns + 1
    BY NowIs
<1> DEFINE Ends == \/ setting = "off"
                   \/ /\ setting = "observe"
                      /\ n.s.control # None
                         \/ (n.s.decision # None /\ n.s.decision.mode = "control")
<1>2. PICK x : x = IF Ends THEN Revoked(n) ELSE n
    OBVIOUS
<1>3. Good(x, None, t)
    BY <1>1, <1>2, RevokedGood
<1>4. x \in World /\ x.s \in Fields
    BY <1>3, Parts DEF Good
<1>5. PICK d : d = [x.s EXCEPT !.setting = setting]
    OBVIOUS
<1>6. /\ d \in Fields /\ SameLocks(x.s, d) /\ d.access = x.s.access
      /\ d.control = x.s.control /\ d.frame = x.s.frame
    BY <1>4, <1>5 DEF Fields, SameLocks
<1>7. PICK y : y = Fielded(x, d)
    OBVIOUS
<1>8. Good(y, None, t)
    BY <1>3, <1>6, <1>7, OtherFieldsGood
<1>9. Set(y) /\ turn' = t
    <2>1. y = [x EXCEPT !.s.setting = setting]
        BY <1>4, <1>5, <1>7 DEF Fielded, World
    <2> QED
        BY <1>1, <1>2, <2>1 DEF Allow, IsNow
<1> QED
    BY <1>1, <1>8, <1>9, SetGood

---------------------------------------------------------------------------
(* The helper                                                              *)

LEMMA SettledFacts ==
    ASSUME NEW w \in World, NEW waiting, NEW how \in Promises, NEW y,
           y = Settled(w, waiting, how)
    PROVE  /\ y \in World /\ y.s = w.s /\ y.link = w.link /\ SameFrame(w, y)
           /\ \A g \in Slots : g \notin waiting => y.flows[g] = w.flows[g]
           /\ \A g \in Slots : g \in waiting => y.flows[g].req = how
           /\ \A g \in Slots :
                  /\ y.flows[g].kind = w.flows[g].kind /\ y.flows[g].pc = w.flows[g].pc
                  /\ y.flows[g].turn = w.flows[g].turn /\ y.flows[g].mode = w.flows[g].mode
                  /\ y.flows[g].fresh <=> w.flows[g].fresh
                  /\ y.flows[g].same <=> w.flows[g].same
<1> DEFINE e(g) == IF g \in waiting THEN [w.flows[g] EXCEPT !.req = how] ELSE w.flows[g]
           k == [g \in Slots |-> e(g)]
<1>1. ASSUME NEW g \in Slots
      PROVE  /\ e(g) \in Flow
             /\ g \notin waiting => e(g) = w.flows[g]
             /\ g \in waiting => e(g).req = how
             /\ e(g).kind = w.flows[g].kind /\ e(g).pc = w.flows[g].pc
             /\ e(g).turn = w.flows[g].turn /\ e(g).mode = w.flows[g].mode
             /\ e(g).fresh <=> w.flows[g].fresh
             /\ e(g).same <=> w.flows[g].same
    <2>1. w.flows[g] \in Flow
        BY Parts
    <2>2. CASE g \in waiting
        BY <2>1, <2>2 DEF Flow
    <2>3. CASE g \notin waiting
        BY <2>1, <2>3
    <2> QED
        BY <2>2, <2>3
<1>2. y = [w EXCEPT !.flows = k]
    BY Zenon DEF Settled
<1> HIDE DEF e
<1>3. k \in [Slots -> Flow] /\ \A g \in Slots : k[g] = e(g)
    BY <1>1
<1> HIDE DEF k
<1>4. y \in World /\ y.flows = k /\ y.s = w.s /\ y.link = w.link /\ SameFrame(w, y)
    BY <1>2, <1>3, WithFlows
<1> QED
    BY <1>1, <1>3, <1>4

\* Promises settle that are no requests under way, and for none that asks for
\* another access while an observation is on its way.
LEMMA SettledGood ==
    ASSUME NEW w, NEW t, Good(w, None, t), NEW waiting, NEW how \in {"kept", "broken"},
           \A g \in Slots : g \in waiting =>
               w.flows[g].pc \notin {"idle", "queued", "waiting", "thumbs"}
               /\ (w.flows[g].pc = "readiness" => how = "kept"),
           (\E g \in waiting : w.flows[g].pc = "readiness")
               => \A g \in Slots : ~Observes(w.flows[g]),
           NEW y, y = Settled(w, waiting, how)
    PROVE  Good(y, None, t) /\ y.s = w.s /\ y.link = w.link /\ SameFrame(w, y)
<1>1. w \in World /\ how \in Promises
    BY DEF Good, Promises
<1>2. /\ y \in World /\ y.s = w.s /\ y.link = w.link /\ SameFrame(w, y)
      /\ \A g \in Slots : g \notin waiting => y.flows[g] = w.flows[g]
      /\ \A g \in Slots : g \in waiting => y.flows[g].req = how
      /\ \A g \in Slots :
             /\ y.flows[g].kind = w.flows[g].kind /\ y.flows[g].pc = w.flows[g].pc
             /\ y.flows[g].turn = w.flows[g].turn
             /\ y.flows[g].fresh <=> w.flows[g].fresh
             /\ y.flows[g].same <=> w.flows[g].same
    BY <1>1, SettledFacts
<1>3. Placed(y, None)
    <2> SUFFICES ASSUME NEW g \in Slots \ {None}
                 PROVE  y.flows[g].pc \in Places[y.flows[g].kind] /\ Waits(y.flows[g])
        BY DEF Placed
    <2>1. w.flows[g].pc \in Places[w.flows[g].kind] /\ Waits(w.flows[g])
        BY DEF Good, Placed
    <2>2. CASE g \in waiting
        BY <1>2, <2>1, <2>2 DEF Waits
    <2>3. CASE g \notin waiting
        BY <1>2, <2>1, <2>3
    <2> QED
        BY <2>2, <2>3
<1>4. Owned(y, None)
    BY <1>1, <1>2, Parts DEF Good, Owned, Fields
<1>5. OneRequest(y, None)
    <2>1. /\ \A g \in Slots : UnderWay(y.flows[g]) => UnderWay(w.flows[g])
          /\ \A g \in Slots : y.flows[g].req = "starting" => w.flows[g].req = "starting"
        BY <1>2 DEF UnderWay
    <2> QED
        BY <1>2, <2>1 DEF OneRequest, Good
<1>6. Accessed(y, None, t)
    <2>1. \A g \in Slots : Observes(y.flows[g]) <=> Observes(w.flows[g])
        BY <1>2 DEF Observes
    <2>2. ASSUME NEW f \in Slots, NEW g \in Slots, Asks(y.flows[f]), Observes(y.flows[g])
          PROVE  FALSE
        <3>1. CASE f \in waiting
            BY <1>2, <2>1, <2>2, <3>1 DEF Asks
        <3>2. CASE f \notin waiting
            BY <1>2, <2>1, <2>2, <3>2 DEF Good, Accessed
        <3> QED
            BY <3>1, <3>2
    <2> QED
        BY <1>2, <2>1, <2>2 DEF Good, Accessed
<1>7. Resumes(y, None)
    BY <1>2 DEF Good, Resumes
<1> QED
    BY <1>2, <1>3, <1>4, <1>5, <1>6, <1>7 DEF Good

LEMMA HelperStartsGood ==
    ASSUME IInv, NEW ok \in BOOLEAN, HelperStarts(ok) PROVE IInv'
<1>1. PICK n, t : IsNow(n, t) /\ Good(n, None, t) /\ t \in 1..MaxTurns + 1
    BY NowIs
<1> DEFINE waiting == {f \in Slots : n.flows[f].req = "starting"}
           Told(g) == IF n.link[g] # "starting" THEN n.link[g] ELSE IF ok THEN "sent" ELSE "none"
<1>2. PICK how : how = IF ok THEN "kept" ELSE "broken"
    OBVIOUS
<1>3. PICK x : x = Settled(n, waiting, how)
    OBVIOUS
<1>4. n.link.proc \in {"starting", "doomed"} /\ turn' = t /\ n \in World /\ n.link \in Links
    BY <1>1, Parts DEF HelperStarts, IsNow, Good
<1>5. \A g \in waiting : n.flows[g].pc \notin {"idle", "queued", "waiting", "thumbs", "readiness"}
    BY <1>1 DEF Good, Placed, Waits
<1>6. Good(x, None, t) /\ x.s = n.s /\ x.link = n.link
    <2> HIDE DEF waiting
    <2> QED
        BY <1>1, <1>2, <1>3, <1>5, SettledGood
<1>7. PICK l : l = [proc |-> IF ok THEN "up" ELSE "none", beat |-> Told("beat"),
                    pause |-> Told("pause"), stop |-> Told("stop")]
    OBVIOUS
<1>8. PICK y : y = [x EXCEPT !.link = l]
    OBVIOUS
<1>9. l \in Links
    BY <1>4, <1>7 DEF Links, Way
<1>10. /\ x \in World /\ y \in World /\ y.link = l /\ y.s = x.s /\ y.flows = x.flows
    BY <1>6, <1>8, <1>9, WithLink DEF Good
<1>11. \A g \in Slots : ~UnderWay(x.flows[g]) /\ x.flows[g].req # "starting"
    <2>1. \A g \in Slots : ~UnderWay(n.flows[g])
        BY <1>1, <1>4 DEF Good, OneRequest
    <2>2. how \in Promises /\ how \in {"kept", "broken"}
        BY <1>2 DEF Promises
    <2>3. \A g \in Slots : /\ g \notin waiting => x.flows[g] = n.flows[g]
                           /\ g \in waiting => x.flows[g].req = how
        <3> HIDE DEF waiting
        <3> QED
            BY <1>3, <1>4, <2>2, SettledFacts
    <2> QED
        BY <2>1, <2>2, <2>3 DEF UnderWay
<1>12. OneRequest(y, None)
    BY <1>10, <1>11 DEF OneRequest
<1>13. Good(y, None, t)
    BY <1>6, <1>10, <1>12 DEF Good, Placed, Owned, Accessed, Resumes
<1>14. PICK z : z = IF ~ok /\ \E g \in Signals : n.link[g] = "starting" THEN Revoked(y) ELSE y
    OBVIOUS
<1>15. Good(z, None, t)
    BY <1>13, <1>14, RevokedGood
<1>16. Set(z)
    BY <1>1, <1>2, <1>3, <1>7, <1>8, <1>14, Zenon DEF HelperStarts, IsNow
<1> QED
    BY <1>1, <1>4, <1>15, <1>16, SetGood

LEMMA HelperDiesGood ==
    ASSUME IInv, HelperDies PROVE IInv'
<1>1. PICK n, t : IsNow(n, t) /\ Good(n, None, t) /\ t \in 1..MaxTurns + 1
    BY NowIs
<1> DEFINE sent == {f \in Slots : UnderWay(n.flows[f])}
<1>2. n \in World /\ n.link.proc = "up" /\ turn' = t
    BY <1>1 DEF HelperDies, IsNow, Good
<1>3. PICK x : x = Unlinked(n)
    OBVIOUS
<1>4. x \in World /\ x.s = n.s /\ x.flows = n.flows
    BY <1>2, <1>3, UnlinkedFacts
<1>5. \A g \in Slots : n.flows[g].req # "starting"
    BY <1>1, <1>2 DEF Good, OneRequest
<1>6. PICK f : f = CHOOSE g \in sent : TRUE
    OBVIOUS
<1>7. PICK y : y = IF sent = {} THEN x ELSE Throw(x, f, "stopped")
    OBVIOUS
<1>8. Good(y, None, t)
    <2>1. CASE sent = {}
        <3>1. OneRequest(x, None)
            BY <1>4, <1>5, <2>1 DEF OneRequest
        <3>2. Good(x, None, t)
            BY <1>1, <1>4, <3>1 DEF Good, Placed, Owned, Accessed, Resumes
        <3> QED
            BY <1>7, <2>1, <3>2
    <2>2. CASE sent # {}
        <3>1. f \in Slots /\ UnderWay(n.flows[f])
            BY <1>6, <2>2
        <3>2. \A g \in Slots \ {f} : ~UnderWay(n.flows[g])
            BY <1>1, <3>1 DEF Good, OneRequest
        <3>3. OneRequest(x, f)
            BY <1>4, <1>5, <3>2 DEF OneRequest
        <3>4. Good(n, f, t)
            BY <1>1, <3>1, TakeUp
        <3>5. Good(x, f, t)
            BY <1>4, <3>3, <3>4 DEF Good, Placed, Owned, Accessed, Resumes
        <3> QED
            BY <1>7, <2>2, <3>1, <3>5, ThrowGood
    <2> QED
        BY <2>1, <2>2
<1>9. PICK z : z = IF \E g \in Signals : n.link[g] = "sent" THEN Revoked(y) ELSE y
    OBVIOUS
<1>10. Good(z, None, t)
    BY <1>8, <1>9, RevokedGood
<1>11. Set(z)
    BY <1>1, <1>3, <1>6, <1>7, <1>9, Zenon DEF HelperDies, IsNow
<1> QED
    BY <1>1, <1>2, <1>10, <1>11, SetGood

LEMMA HelperFailsGood ==
    ASSUME IInv, NEW f \in Slots, NEW code \in {"refused", "native"}, HelperFails(f, code)
    PROVE  IInv'
<1>1. PICK n, t : IsNow(n, t) /\ Good(n, None, t) /\ t \in 1..MaxTurns + 1
    BY NowIs
<1>2. PICK x : x = IF n.flows[f].pc = "start" THEN [n EXCEPT !.native = "idle"] ELSE n
    OBVIOUS
<1>3. x \in World /\ x.s = n.s /\ x.flows = n.flows /\ x.link = n.link
    BY <1>1, <1>2 DEF Good, World, Natives
<1>4. Good(n, f, t)
    BY <1>1, TakeUp
<1>5. Good(x, f, t)
    BY <1>3, <1>4, RestGood
<1>6. PICK y : y = Throw(x, f, code)
    OBVIOUS
<1>7. Good(y, None, t)
    BY <1>5, <1>6, ThrowGood
<1>8. Set(y) /\ turn' = t
    BY <1>1, <1>2, <1>6 DEF HelperFails, IsNow
<1> QED
    BY <1>1, <1>7, <1>8, SetGood

\* While a request other than a tool's or the health check's is under way nothing
\* observes: an observation would wait for the health check, or be under way.
LEMMA NoneObserves ==
    ASSUME NEW n, NEW t, NEW f \in Slots, Good(n, None, t), IsNow(n, t), Quiet,
           UnderWay(n.flows[f]), n.flows[f].kind \notin {"observe", "probe"}
    PROVE  \A g \in Slots : ~Observes(n.flows[g])
<1>1. SUFFICES ASSUME NEW g \in Slots, n.flows[g].kind = "observe" PROVE FALSE
    BY DEF Observes
<1>2. n.link.proc = "up" /\ \A h \in Slots : n.flows[h].req # "starting"
    BY DEF Good, OneRequest
<1>3. \A h \in Slots : n.flows[h].req \in {"kept", "broken"} => FALSE
    BY DEF Quiet, Ready, IsNow
<1>4. \A h \in Slots : n.flows[h].req \in Promises /\ n.flows[h] \in Flow
    BY Parts DEF Good, Flow
<1>5. \A h \in Slots : n.flows[h].req = "none" \/ UnderWay(n.flows[h])
    BY <1>2, <1>3, <1>4 DEF Promises, UnderWay
<1>6. \A h \in Slots : UnderWay(n.flows[h]) => h = f
    BY DEF Good, OneRequest
<1>7. n.flows[g].req = "none"
    BY <1>1, <1>5, <1>6
<1>8. n.flows[g].pc \in {"queued", "validate", "observe"} /\ Waits(n.flows[g])
    BY <1>1 DEF Good, Placed, Places
<1>9. n.flows[g].pc = "queued"
    BY <1>7, <1>8 DEF Waits, Methods
<1>10. n.s.health # None
    BY <1>9 DEF Quiet, Ready, IsNow
<1>11. PICK h \in Slots : h = n.s.health /\ n.flows[h].kind = "probe"
    BY <1>10, Parts DEF Good, Owned, Fields
<1>12. n.flows[h].pc = "validate" /\ Waits(n.flows[h])
    BY <1>4, <1>11, KindsOfPlaces DEF Good, Placed
<1>13. UnderWay(n.flows[h])
    BY <1>5, <1>12 DEF Waits, Methods
<1> QED
    BY <1>6, <1>11, <1>13

LEMMA HelloAnsweredGood ==
    ASSUME IInv, NEW f \in Slots, HelloAnswered(f) PROVE IInv'
<1>1. PICK n, t : IsNow(n, t) /\ Good(n, None, t) /\ t \in 1..MaxTurns + 1
    BY NowIs
<1>2. /\ Quiet /\ n.flows[f].pc = "hello" /\ n.flows[f].req = "sent" /\ turn' = t
      /\ n.flows[f] \in Flow /\ n.flows[f].pc \in Places[n.flows[f].kind]
    BY <1>1, Parts DEF HelloAnswered, Answer, IsNow, Good, Placed
<1>3. UnderWay(n.flows[f]) /\ n.flows[f].kind = "hello"
    BY <1>2, KindsOfPlaces DEF UnderWay
<1>4. \A g \in Slots : ~Observes(n.flows[g])
    BY <1>1, <1>2, <1>3, NoneObserves
<1> DEFINE waiting == {g \in Slots : n.flows[g].pc = "readiness" /\ n.s.flight = f}
<1>5. PICK x : x = Settled(n, waiting, "kept")
    OBVIOUS
<1>6. \A g \in waiting : n.flows[g].pc = "readiness"
    OBVIOUS
<1>7. Good(x, None, t) /\ x.s = n.s
    <2> HIDE DEF waiting
    <2> QED
        BY <1>1, <1>4, <1>5, <1>6, SettledGood
<1>8. x.flows[f].pc = "hello"
    <2>1. "kept" \in Promises /\ n \in World
        BY <1>1 DEF Promises, Good
    <2> HIDE DEF waiting
    <2> QED
        BY <1>2, <1>5, <2>1, SettledFacts
<1>9. Good(x, f, t)
    BY <1>7, TakeUp
<1>10. PICK y : y = Released(x, f)
    OBVIOUS
<1>11. Good(y, None, t)
    BY <1>8, <1>9, <1>10, ReleasedGood
<1>12. Set(y)
    BY <1>1, <1>5, <1>10 DEF HelloAnswered, IsNow
<1> QED
    BY <1>1, <1>2, <1>11, <1>12, SetGood

LEMMA ListAnsweredGood ==
    ASSUME IInv, NEW f \in Slots, ListAnswered(f) PROVE IInv'
<1>1. PICK n, t : IsNow(n, t) /\ Good(n, None, t) /\ t \in 1..MaxTurns + 1
    BY NowIs
<1>2. /\ n.flows[f].pc = "list" /\ n.flows[f].req = "sent" /\ turn' = t /\ n \in World
      /\ n.flows[f] \in Flow /\ n.flows[f].pc \in Places[n.flows[f].kind]
      /\ n.flows \in [Slots -> Flow]
    BY <1>1, Parts DEF ListAnswered, Answer, IsNow, Good, Placed
<1>3. Good(n, f, t) /\ Allowed(n, f, t)
    BY <1>1, TakeUp
<1>4. CASE ~Stands(n.flows[f])
    <2>1. PICK y : y = Throw(n, f, "cancelled")
        OBVIOUS
    <2>2. Good(y, None, t)
        BY <1>3, <2>1, ThrowGood
    <2>3. Set(y)
        BY <1>1, <1>4, <2>1 DEF ListAnswered, IsNow
    <2> QED
        BY <1>1, <1>2, <2>2, <2>3, SetGood
<1>5. CASE Stands(n.flows[f])
    <2>1. PICK y : y = Moved(n, f, "thumbs", "none")
        OBVIOUS
    <2>2. "thumbs" \in Awaits /\ "none" \in Promises
        BY DEF Awaits, Promises
    <2>3. /\ Good(y, f, t) /\ y.s = n.s /\ y.link = n.link
          /\ \A g \in Slots : g # f => y.flows[g] = n.flows[g]
          /\ y.flows[f].pc = "thumbs" /\ y.flows[f].req = "none"
          /\ y.flows[f].kind = n.flows[f].kind
        BY <1>2, <1>3, <2>1, <2>2, MovedGood
    <2>4. y.flows[f].kind = "list"
        BY <1>2, <2>3, KindsOfPlaces
    <2>5. Waits(y.flows[f]) /\ y.flows[f].pc \in Places[y.flows[f].kind]
        BY <2>3, <2>4 DEF Waits, Methods, Places
    <2>6. Allowed(y, f, t)
        BY <2>4 DEF Allowed, Observes
    <2>7. y.s.early # "none" => \E g \in Slots : y.flows[g].pc = "start"
        BY <2>3 DEF Good, Owned
    <2>8. Fits(y, f, t)
        BY <2>3, <2>5, <2>6, <2>7 DEF Fits, UnderWay, Asks
    <2>9. Good(y, None, t)
        BY <2>3, <2>8, HandBack
    <2>10. y = [Now EXCEPT !.flows[f].pc = "thumbs", !.flows[f].req = "none"]
        BY <1>1, <1>2, <2>1 DEF IsNow, Moved, Called, At, World, Flow
    <2>11. Set(y)
        BY <1>1, <1>5, <2>10 DEF ListAnswered, IsNow
    <2> QED
        BY <1>1, <1>2, <2>9, <2>11, SetGood
<1> QED
    BY <1>4, <1>5

LEMMA ThumbsLoadedGood ==
    ASSUME IInv, NEW f \in Slots, ThumbsLoaded(f) PROVE IInv'
<1>1. PICK n, t : IsNow(n, t) /\ Good(n, None, t) /\ t \in 1..MaxTurns + 1
    BY NowIs
<1>2. n.flows[f].pc = "thumbs" /\ turn' = t /\ n \in World /\ n.s \in Fields
    BY <1>1, Parts DEF ThumbsLoaded, IsNow, Good
<1>3. Good(n, f, t)
    BY <1>1, TakeUp
<1>4. PICK d : d = [n.s EXCEPT !.listed = TRUE]
    OBVIOUS
<1>5. /\ d \in Fields /\ SameLocks(n.s, d) /\ d.access = n.s.access
      /\ d.control = n.s.control /\ d.frame = n.s.frame
    BY <1>2, <1>4 DEF Fields, SameLocks
<1>6. PICK x : x = Fielded(n, d)
    OBVIOUS
<1>7. Good(x, f, t) /\ x.flows = n.flows
    BY <1>3, <1>5, <1>6, OtherFieldsGood
<1>8. PICK y : y = IF Stands(n.flows[f]) THEN Released(x, f) ELSE Throw(n, f, "cancelled")
    OBVIOUS
<1>9. Good(y, None, t)
    BY <1>2, <1>3, <1>7, <1>8, ReleasedGood, ThrowGood
<1>10. Set(y)
    <2>1. x = [Now EXCEPT !.s.listed = TRUE]
        BY <1>1, <1>2, <1>4, <1>6 DEF IsNow, Fielded, World
    <2> QED
        BY <1>1, <1>8, <2>1 DEF ThumbsLoaded, IsNow
<1> QED
    BY <1>1, <1>2, <1>9, <1>10, SetGood

\* What an answer of the helper finds.
LEMMA AnswerFacts ==
    ASSUME NEW n, NEW t, NEW f \in Slots, NEW method, IsNow(n, t), Good(n, None, t),
           Answer(f, method)
    PROVE  /\ Quiet /\ n.flows[f].pc = method /\ n.flows[f].req = "sent" /\ turn' = t
           /\ n \in World /\ n.s \in Fields /\ n.flows[f] \in Flow /\ n.flows \in [Slots -> Flow]
           /\ n.flows[f].pc \in Places[n.flows[f].kind] /\ UnderWay(n.flows[f])
           /\ Good(n, f, t) /\ Allowed(n, f, t)
<1>1. Good(n, f, t) /\ Allowed(n, f, t)
    BY TakeUp
<1> QED
    BY <1>1, Parts DEF Answer, IsNow, Good, Placed, UnderWay

\* The access is given to the turn of the call in hand.
NobodyObserves(w) == \A g \in Slots : ~Observes(w.flows[g])

Gives(w, d, y) == y.s = d /\ y.flows = w.flows

LEMMA AccessGood ==
    ASSUME NEW w, NEW f \in Slots, NEW t, Good(w, f, t), NEW d \in Fields, NEW y,
           y = Fielded(w, d), SameLocks(w.s, d), d.control = w.s.control, d.access # None,
           NobodyObserves(w)
    PROVE  Good(y, f, t) /\ Gives(w, d, y)
<1>1. /\ y \in World /\ y.s = d /\ y.flows = w.flows /\ y.link = w.link
      /\ Owned(y, f) /\ Accessed(y, f, t) /\ Resumes(y, f) => Good(y, f, t)
    BY FieldedFacts
<1>2. Owned(y, f) /\ Resumes(y, f)
    BY <1>1 DEF Good, Owned, Resumes, SameLocks
<1>3. Accessed(y, f, t)
    BY <1>1 DEF Accessed, NobodyObserves
<1> QED
    BY <1>1, <1>2, <1>3 DEF Gives

LEMMA SelectedGood ==
    ASSUME IInv, NEW f \in Slots, Selected(f) PROVE IInv'
<1>1. PICK n, t : IsNow(n, t) /\ Good(n, None, t) /\ t \in 1..MaxTurns + 1
    BY NowIs
<1>2. /\ Quiet /\ n.flows[f].pc = "select" /\ n.flows[f].req = "sent" /\ turn' = t
      /\ n \in World /\ n.s \in Fields /\ n.flows[f] \in Flow
      /\ n.flows[f].pc \in Places[n.flows[f].kind] /\ UnderWay(n.flows[f])
      /\ Good(n, f, t) /\ Allowed(n, f, t)
    BY <1>1, AnswerFacts DEF Selected
<1>3. n.flows[f].kind = "decide"
    BY <1>2, KindsOfPlaces
<1>4. \A g \in Slots : ~Observes(n.flows[g])
    BY <1>1, <1>2, <1>3, NoneObserves
<1>5. PICK x : x = [n EXCEPT !.native = "idle"]
    OBVIOUS
<1>6. x \in World /\ x.s = n.s /\ x.flows = n.flows /\ x.link = n.link
    BY <1>2, <1>5 DEF World, Natives
<1>7. Good(x, f, t)
    BY <1>2, <1>6, RestGood
<1>8. PICK d : d = [x.s EXCEPT !.access = [turn |-> n.flows[f].turn, mode |-> n.flows[f].mode],
                              !.target = TRUE]
    OBVIOUS
<1>9. [turn |-> n.flows[f].turn, mode |-> n.flows[f].mode] \in Grant
    BY <1>2 DEF Flow, Grant
<1>10. /\ d \in Fields /\ SameLocks(x.s, d) /\ d.control = x.s.control /\ d.access # None
    BY <1>2, <1>6, <1>8, <1>9 DEF Fields, SameLocks
<1>11. PICK y : y = Fielded(x, d)
    OBVIOUS
<1>12. Good(y, f, t) /\ y.s = d /\ y.flows = x.flows
    <2>1. NobodyObserves(x)
        BY <1>4, <1>6 DEF NobodyObserves
    <2>2. Good(y, f, t) /\ Gives(x, d, y)
        BY <1>7, <1>10, <1>11, <2>1, AccessGood
    <2> QED
        BY <2>2 DEF Gives
<1>13. PICK z : z = IF ~n.flows[f].fresh THEN Throw(x, f, "cancelled")
                    ELSE IF n.flows[f].mode = "control" THEN StartControl(y, f)
                    ELSE Granted(y, f)
    OBVIOUS
<1>14. Good(z, None, t)
    <2>1. Good(Throw(x, f, "cancelled"), None, t)
        BY <1>7, ThrowGood
    <2>2. Good(StartControl(y, f), None, t)
        BY <1>2, <1>3, <1>6, <1>12, StartControlGood
    <2>3. Good(Granted(y, f), None, t)
        BY <1>2, <1>6, <1>12, GrantedGood
    <2> QED
        BY <1>13, <2>1, <2>2, <2>3
<1>15. Set(z)
    <2>1. x = [Now EXCEPT !.native = "idle"]
        BY <1>1, <1>5 DEF IsNow
    <2>2. y = [x EXCEPT !.s.access = [turn |-> flows[f].turn, mode |-> flows[f].mode],
                        !.s.target = TRUE]
        BY <1>1, <1>6, <1>8, <1>11 DEF IsNow, Fielded, World
    <2> QED
        BY <1>1, <1>13, <2>1, <2>2, Zenon DEF Selected, IsNow
<1> QED
    BY <1>1, <1>2, <1>14, <1>15, SetGood

LEMMA ValidatedGood ==
    ASSUME IInv, NEW f \in Slots, NEW valid \in BOOLEAN, Validated(f, valid) PROVE IInv'
<1>1. PICK n, t : IsNow(n, t) /\ Good(n, None, t) /\ t \in 1..MaxTurns + 1
    BY NowIs
<1>2. /\ Quiet /\ n.flows[f].pc = "validate" /\ n.flows[f].req = "sent" /\ turn' = t
      /\ n \in World /\ n.s \in Fields /\ n.flows[f] \in Flow /\ n.flows \in [Slots -> Flow]
      /\ n.flows[f].pc \in Places[n.flows[f].kind] /\ UnderWay(n.flows[f])
      /\ Good(n, f, t) /\ Allowed(n, f, t)
    BY <1>1, AnswerFacts DEF Validated
<1>3. n.flows[f].kind \in {"trust", "observe", "act", "probe"}
    BY <1>2, KindsOfPlaces
<1>4. PICK r : r = Revoked(n)
    OBVIOUS
<1>5. Good(r, f, t) /\ r.s.early = "none"
    BY <1>2, <1>4, RevokedGood, RevokedFacts
<1>6. PICK m : m = IF ~valid /\ n.flows[f].fresh THEN r ELSE n
    OBVIOUS
<1>7. PICK a : a = Released(m, f)
    OBVIOUS
<1>8. Good(a, None, t)
    BY <1>2, <1>5, <1>6, <1>7, ReleasedGood
<1>9. PICK gone, late, bad : /\ gone = Throw(r, f, "refused")
                             /\ late = Throw(n, f, "cancelled")
                             /\ bad = Throw(n, f, "refused")
    OBVIOUS
<1>10. Good(gone, None, t) /\ Good(late, None, t) /\ Good(bad, None, t)
    BY <1>2, <1>5, <1>9, ThrowGood
<1>11. PICK d : d = [n.s EXCEPT !.access = [turn |-> n.flows[f].turn, mode |-> "control"]]
    OBVIOUS
<1>12. PICK k : k = Fielded(n, d)
    OBVIOUS
<1>13. PICK b : b = StartControl(k, f)
    OBVIOUS
<1>14. ASSUME n.flows[f].kind = "trust" PROVE Good(b, None, t)
    <2>1. \A g \in Slots : ~Observes(n.flows[g])
        BY <1>1, <1>2, <1>14, NoneObserves
    <2>2. [turn |-> n.flows[f].turn, mode |-> "control"] \in Grant
        BY <1>2 DEF Flow, Grant, Modes
    <2>3. /\ d \in Fields /\ SameLocks(n.s, d) /\ d.control = n.s.control /\ d.access # None
        BY <1>2, <1>11, <2>2 DEF Fields, SameLocks
    <2>4. NobodyObserves(n)
        BY <2>1 DEF NobodyObserves
    <2>5. Good(k, f, t) /\ Gives(n, d, k)
        BY <1>2, <1>12, <2>3, <2>4, AccessGood
    <2> QED
        BY <1>2, <1>13, <1>14, <2>5, StartControlGood DEF Gives
<1>15. PICK q : q = Moved(n, f, "validate", "none")
    OBVIOUS
<1>16. /\ Good(q, f, t) /\ Allowed(q, f, t) /\ q.flows[f].pc = "validate"
       /\ q.flows[f].kind = n.flows[f].kind
    <2>1. "validate" \in Awaits /\ "none" \in Promises
        BY DEF Awaits, Promises
    <2>2. /\ Good(q, f, t) /\ q.s = n.s /\ q.link = n.link
          /\ \A g \in Slots : g # f => q.flows[g] = n.flows[g]
          /\ q.flows[f].pc = "validate"
          /\ q.flows[f].kind = n.flows[f].kind /\ q.flows[f].turn = n.flows[f].turn
          /\ q.flows[f].fresh <=> n.flows[f].fresh
          /\ q.flows[f].same <=> n.flows[f].same
        BY <1>2, <1>15, <2>1, MovedGood
    <2> QED
        BY <1>2, <2>2, AllowedStill
<1>17. PICK o, c : o = Ask(q, f, "observe") /\ c = Ask(q, f, "act")
    OBVIOUS
<1>18. ASSUME n.flows[f].kind = "observe" PROVE Good(o, None, t)
    <2>1. "observe" \in Methods /\ "observe" \in Places[q.flows[f].kind]
        BY <1>16, <1>18 DEF Methods, Places
    <2> QED
        BY <1>16, <1>17, <2>1, AskGood
<1>19. ASSUME n.flows[f].kind = "act" PROVE Good(c, None, t)
    <2>1. "act" \in Methods /\ "act" \in Places[q.flows[f].kind]
        BY <1>16, <1>19 DEF Methods, Places
    <2> QED
        BY <1>16, <1>17, <2>1, AskGood
<1> DEFINE acts == /\ s.access # None /\ s.access.mode = "control"
                   /\ s.control # None /\ s.control.state = "running"
                   /\ s.frame /\ n.flows[f].latest
<1>20. PICK y : y = IF n.flows[f].kind = "probe" THEN a
                    ELSE IF n.flows[f].kind = "trust"
                    THEN IF ~n.flows[f].fresh THEN late ELSE IF ~valid THEN gone ELSE b
                    ELSE IF ~valid THEN gone
                    ELSE IF ~n.flows[f].fresh THEN late
                    ELSE IF n.flows[f].kind = "observe" THEN o
                    ELSE IF acts THEN c ELSE bad
    OBVIOUS
<1>21. Good(y, None, t)
    BY <1>3, <1>8, <1>10, <1>14, <1>18, <1>19, <1>20
<1>22. Set(y)
    <2>1. k = [Now EXCEPT !.s.access = [turn |-> n.flows[f].turn, mode |-> "control"]]
        BY <1>1, <1>2, <1>11, <1>12 DEF IsNow, Fielded, World
    <2>2. q = [Now EXCEPT !.flows[f].req = "none"]
        BY ZenonT(60), <1>1, <1>2, <1>15 DEF IsNow, World, Flow, Moved, At, Called
    <2>3. b = StartControl([Now EXCEPT !.s.access = [turn |-> n.flows[f].turn,
                                                    mode |-> "control"]], f)
        BY <1>13, <2>1
    <2>4. /\ o = Ask([Now EXCEPT !.flows[f].req = "none"], f, "observe")
          /\ c = Ask([Now EXCEPT !.flows[f].req = "none"], f, "act")
        BY <1>17, <2>2
    <2>5. a = Released(IF ~valid /\ n.flows[f].fresh THEN Revoked(Now) ELSE Now, f)
        BY <1>1, <1>4, <1>6, <1>7 DEF IsNow
    <2>6. /\ gone = Throw(Revoked(Now), f, "refused") /\ late = Throw(Now, f, "cancelled")
          /\ bad = Throw(Now, f, "refused")
        BY <1>1, <1>4, <1>9 DEF IsNow
    <2>7. n.flows[f] = flows[f]
        BY <1>1 DEF IsNow
    <2> QED
        BY <1>20, <2>3, <2>4, <2>5, <2>6, <2>7, Zenon DEF Validated
<1> QED
    BY <1>1, <1>2, <1>21, <1>22, SetGood

LEMMA TargetAnsweredGood ==
    ASSUME IInv, NEW f \in Slots, TargetAnswered(f) PROVE IInv'
<1>1. PICK n, t : IsNow(n, t) /\ Good(n, None, t) /\ t \in 1..MaxTurns + 1
    BY NowIs
<1>2. /\ n.flows[f].pc = "target" /\ n.flows[f].req = "sent" /\ turn' = t
      /\ n \in World /\ n.flows[f] \in Flow /\ n.flows \in [Slots -> Flow]
      /\ n.flows[f].pc \in Places[n.flows[f].kind]
      /\ Good(n, f, t) /\ Allowed(n, f, t)
    BY <1>1, AnswerFacts DEF TargetAnswered
<1>3. PICK r : r = IF n.overlay = "open" THEN "kept" ELSE "none"
    OBVIOUS
<1>4. PICK x : x = Moved(n, f, "overlay", r)
    OBVIOUS
<1>5. "overlay" \in Awaits /\ r \in Promises /\ r \in {"kept", "none"}
    BY <1>3 DEF Awaits, Promises
<1>6. /\ Good(x, f, t) /\ x.s = n.s /\ x.link = n.link /\ SameFrame(n, x)
      /\ \A g \in Slots : g # f => x.flows[g] = n.flows[g]
      /\ x.flows[f].pc = "overlay" /\ x.flows[f].req = r
      /\ x.flows[f].kind = n.flows[f].kind /\ x.flows[f].turn = n.flows[f].turn
      /\ x.flows[f].fresh <=> n.flows[f].fresh
      /\ x.flows[f].same <=> n.flows[f].same
    BY <1>2, <1>4, <1>5, MovedGood
<1>7. Allowed(x, f, t)
    BY <1>2, <1>6, AllowedStill
<1>8. n.flows[f].kind \in {"decide", "trust", "resume"}
    BY <1>2, KindsOfPlaces DEF Starting
<1>9. Waits(x.flows[f]) /\ x.flows[f].pc \in Places[x.flows[f].kind]
    BY <1>5, <1>6, <1>8 DEF Waits, Methods, Places, Starting
<1>10. x.s.early # "none" => \E g \in Slots : x.flows[g].pc = "start"
    BY <1>6 DEF Good, Owned
<1>11. Fits(x, f, t)
    BY <1>5, <1>6, <1>7, <1>9, <1>10 DEF Fits, UnderWay, Asks
<1>12. Good(x, None, t)
    BY <1>6, <1>11, HandBack
<1>13. PICK y : y = [x EXCEPT !.overlay = IF @ = "closed" THEN "opening" ELSE @]
    OBVIOUS
<1>14. y \in World /\ y.s = x.s /\ y.flows = x.flows /\ y.link = x.link
    BY <1>12, <1>13 DEF Good, World, Overlays
<1>15. Good(y, None, t)
    BY <1>12, <1>14, RestGood
<1>16. y = [Now EXCEPT !.flows[f].pc = "overlay",
                       !.flows[f].req = IF overlay = "open" THEN "kept" ELSE "none",
                       !.overlay = IF @ = "closed" THEN "opening" ELSE @]
    <2>1. x = [n EXCEPT !.flows[f].pc = "overlay", !.flows[f].req = r]
        BY <1>2, <1>4 DEF World, Flow, Moved, At, Called
    <2> QED
        BY <1>1, <1>2, <1>3, <1>6, <1>13, <2>1 DEF IsNow, World, SameFrame
<1>17. Set(y)
    BY <1>16 DEF TargetAnswered
<1> QED
    BY <1>1, <1>2, <1>15, <1>17, SetGood

\* An observation is shown to the turn that has the access.
LEMMA ShownGood ==
    ASSUME NEW w, NEW h, NEW t, Good(w, h, t), w.s.access # None, NEW y, y = Framed(w, TRUE)
    PROVE  Good(y, h, t) /\ Dimmed(w, y) /\ SameLocks(w.s, y.s) /\ SameAccess(w.s, y.s)
<1>1. w \in World /\ w.s \in Fields
    BY Parts DEF Good
<1>2. /\ y \in World /\ y.link = w.link /\ Dimmed(w, y)
      /\ SameLocks(w.s, y.s) /\ SameAccess(w.s, y.s)
      /\ \A g \in Slots : y.flows[g].fresh <=> w.flows[g].fresh
    BY <1>1, FramedFacts
<1>3. PICK d : d = [w.s EXCEPT !.frame = TRUE]
    OBVIOUS
<1>4. /\ d \in Fields /\ SameLocks(w.s, d) /\ d.access = w.s.access
      /\ d.control = w.s.control /\ d.frame
    BY <1>1, <1>3 DEF Fields, SameLocks
<1>5. PICK x : x = Fielded(w, d)
    OBVIOUS
<1>6. /\ x \in World /\ x.s = d /\ x.flows = w.flows /\ x.link = w.link
      /\ Owned(x, h) /\ Accessed(x, h, t) /\ Resumes(x, h) => Good(x, h, t)
    BY <1>4, <1>5, FieldedFacts
<1>7. Owned(x, h) /\ Accessed(x, h, t) /\ Resumes(x, h)
    BY <1>4, <1>6 DEF Good, Owned, Accessed, Resumes, SameLocks
<1>8. Good(x, h, t)
    BY <1>6, <1>7
<1>9. Dimmed(x, y) /\ SameLocks(x.s, y.s)
    BY <1>2, <1>4, <1>6 DEF Dimmed, SameLocks
<1>10. y.s.access = x.s.access /\ (y.s.frame => x.s.frame)
    BY <1>2, <1>4, <1>6 DEF SameAccess
<1>11. Resumes(y, h)
    <2>1. Resumes(x, h) /\ y.s.control = x.s.control
        BY <1>2, <1>4, <1>6, <1>7 DEF SameAccess
    <2> QED
        BY <1>9, <2>1 DEF Resumes, Dimmed, Dimmer
<1>12. x.link.proc # "none" => y.link.proc = x.link.proc
    BY <1>2, <1>6
<1>13. Good(y, h, t)
    BY <1>2, <1>8, <1>9, <1>10, <1>11, <1>12, DimmedGood
<1> QED
    BY <1>2, <1>13

LEMMA ObserveAnsweredGood ==
    ASSUME IInv, NEW f \in Slots, ObserveAnswered(f) PROVE IInv'
<1>1. PICK n, t : IsNow(n, t) /\ Good(n, None, t) /\ t \in 1..MaxTurns + 1
    BY NowIs
<1>2. /\ n.flows[f].pc = "observe" /\ n.flows[f].req = "sent" /\ turn' = t
      /\ n.flows[f] \in Flow /\ n.flows[f].pc \in Places[n.flows[f].kind]
      /\ Good(n, f, t) /\ Allowed(n, f, t)
    BY <1>1, AnswerFacts DEF ObserveAnswered
<1>3. n.flows[f].kind \in {"observe", "resume"}
    BY <1>2, KindsOfPlaces
<1>4. CASE ~Stands(n.flows[f])
    <2>1. PICK y : y = Throw(n, f, "cancelled")
        OBVIOUS
    <2>2. Good(y, None, t)
        BY <1>2, <2>1, ThrowGood
    <2>3. Set(y)
        BY <1>1, <1>4, <2>1 DEF ObserveAnswered, IsNow
    <2> QED
        BY <1>1, <1>2, <2>2, <2>3, SetGood
<1>5. CASE Stands(n.flows[f])
    <2>1. n.s.access # None
        BY <1>2, <1>3, <1>5 DEF Stands, Allowed, Observes
    <2>2. PICK x : x = Framed(n, TRUE)
        OBVIOUS
    <2>3. /\ Good(x, f, t) /\ Dimmed(n, x) /\ SameLocks(n.s, x.s) /\ SameAccess(n.s, x.s)
        BY <1>2, <2>1, <2>2, ShownGood
    <2>4. x.flows[f].pc = "observe"
        BY <1>2, <2>3 DEF Dimmed, Dimmer
    <2>5. CASE n.flows[f].kind # "resume"
        <3>1. PICK y : y = Released(x, f)
            OBVIOUS
        <3>2. Good(y, None, t)
            BY <2>3, <2>4, <3>1, ReleasedGood
        <3>3. Set(y)
            BY <1>1, <1>5, <2>2, <2>5, <3>1 DEF ObserveAnswered, IsNow
        <3> QED
            BY <1>1, <1>2, <3>2, <3>3, SetGood
    <2>6. CASE n.flows[f].kind = "resume"
        <3>1. x \in World /\ x.s \in Fields /\ x.s.control \in Control
            BY <1>2, <1>5, <2>3, <2>6, Parts DEF Good, Stands, Allowed, SameAccess, Fields
        <3>2. PICK c : c = [x.s.control EXCEPT !.state = "running"]
            OBVIOUS
        <3>3. c \in Control /\ c.state = "running" /\ c # None
            BY <3>1, <3>2 DEF Control
        <3>4. PICK d : d = [x.s EXCEPT !.control = c]
            OBVIOUS
        <3>5. /\ d \in Fields /\ SameLocks(x.s, d) /\ d.access = x.s.access
              /\ d.frame = x.s.frame /\ d.control = c
            BY <3>1, <3>3, <3>4 DEF Fields, SameLocks
        <3>6. PICK u : u = Fielded(x, d)
            OBVIOUS
        <3>7. /\ u \in World /\ u.s = d /\ u.flows = x.flows /\ u.link = x.link
              /\ Owned(u, f) /\ Accessed(u, f, t) /\ Resumes(u, f) => Good(u, f, t)
            BY <2>3, <3>5, <3>6, FieldedFacts
        <3>8. Owned(u, f) /\ Accessed(u, f, t)
            BY <2>3, <3>5, <3>7 DEF Good, Owned, Accessed, SameLocks
        <3>9. Resumes(u, f)
            BY <3>3, <3>5, <3>7 DEF Resumes
        <3>10. PICK y : y = Released(u, f)
            OBVIOUS
        <3>11. Good(y, None, t)
            BY <2>4, <3>7, <3>8, <3>9, <3>10, ReleasedGood
        <3>12. u = [x EXCEPT !.s.control.state = "running"]
            BY <3>1, <3>2, <3>4, <3>6 DEF Fielded, World, Fields
        <3>13. Set(y)
            BY <1>1, <1>5, <2>2, <2>6, <3>10, <3>12 DEF ObserveAnswered, IsNow
        <3> QED
            BY <1>1, <1>2, <3>11, <3>13, SetGood
    <2> QED
        BY <2>5, <2>6
<1> QED
    BY <1>4, <1>5

\* A request under way is answered; the answer is on its way back.
LEMMA AnsweredGood ==
    ASSUME NEW n, NEW t, NEW f \in Slots, Good(n, None, t), NEW m \in Methods,
           n.flows[f].pc = m, n.flows[f].req = "sent",
           NEW y, y = Moved(n, f, m, "answered")
    PROVE  Good(y, None, t)
<1>1. /\ Good(n, f, t) /\ Allowed(n, f, t)
      /\ m \in Awaits /\ m # "readiness" /\ "answered" \in Promises
    BY TakeUp, MethodsAwait DEF Promises
<1>2. /\ Good(y, f, t) /\ y.s = n.s /\ y.link = n.link
      /\ \A g \in Slots : g # f => y.flows[g] = n.flows[g]
      /\ y.flows[f].pc = m /\ y.flows[f].req = "answered"
      /\ y.flows[f].kind = n.flows[f].kind /\ y.flows[f].turn = n.flows[f].turn
      /\ y.flows[f].fresh <=> n.flows[f].fresh
      /\ y.flows[f].same <=> n.flows[f].same
    BY <1>1, MovedGood
<1>3. Allowed(y, f, t)
    BY <1>1, <1>2, AllowedStill
<1>4. n.flows[f].pc \in Places[n.flows[f].kind] /\ UnderWay(n.flows[f])
    BY DEF Good, Placed, UnderWay
<1>5. n.link.proc = "up" /\ \A g \in Slots \ {f} : ~UnderWay(n.flows[g])
    BY <1>4 DEF Good, OneRequest
<1>6. Waits(y.flows[f])
    BY <1>2 DEF Waits, Methods
<1>7. y.s.early # "none" => \E g \in Slots : y.flows[g].pc = "start"
    BY <1>2 DEF Good, Owned
<1>8. Fits(y, f, t)
    BY <1>1, <1>2, <1>3, <1>4, <1>5, <1>6, <1>7 DEF Fits, UnderWay, Asks
<1> QED
    BY <1>2, <1>8, HandBack

LEMMA InjectsGood ==
    ASSUME IInv, NEW f \in Slots, Injects(f) PROVE IInv'
<1>1. PICK n, t : IsNow(n, t) /\ Good(n, None, t) /\ t \in 1..MaxTurns + 1
    BY NowIs
<1>2. /\ n.flows[f].pc = "act" /\ n.flows[f].req = "sent" /\ turn' = t /\ n \in World
      /\ n.flows[f] \in Flow /\ n.flows \in [Slots -> Flow]
    BY <1>1, AnswerFacts DEF Injects
<1>3. PICK y : y = Moved(n, f, "act", "answered")
    OBVIOUS
<1>4. Good(y, None, t)
    BY <1>1, <1>2, <1>3, AnsweredGood DEF Methods
<1>5. /\ y.s = n.s /\ y.link = n.link /\ SameFrame(n, y)
      /\ y.flows = [n.flows EXCEPT ![f].req = "answered"]
    BY <1>2, <1>3 DEF World, Flow, Moved, At, Called, SameFrame
<1>6. Set(y)
    BY <1>1, <1>5 DEF Injects, IsNow, Set, SameFrame
<1> QED
    BY <1>1, <1>2, <1>4, <1>6, SetGood

LEMMA ActAnsweredGood ==
    ASSUME IInv, NEW f \in Slots, ActAnswered(f) PROVE IInv'
<1>1. PICK n, t : IsNow(n, t) /\ Good(n, None, t) /\ t \in 1..MaxTurns + 1
    BY NowIs
<1>2. n.flows[f].pc = "act" /\ turn' = t /\ Good(n, f, t) /\ n \in World
    BY <1>1, TakeUp DEF ActAnswered, IsNow, Good
<1>3. PICK x : x = Framed(n, FALSE)
    OBVIOUS
<1>4. Good(x, f, t) /\ x.flows[f].pc = "act"
    <2>1. Good(x, f, t)
        BY <1>2, <1>3, FramedGood
    <2>2. Dimmed(n, x)
        BY <1>2, <1>3, FramedFacts
    <2> QED
        BY <1>2, <2>1, <2>2 DEF Dimmed, Dimmer
<1>5. PICK y : y = IF ~n.flows[f].fresh THEN Throw(n, f, "refused") ELSE Released(x, f)
    OBVIOUS
<1>6. Good(y, None, t)
    BY <1>2, <1>4, <1>5, ThrowGood, ReleasedGood
<1>7. Set(y)
    BY <1>1, <1>3, <1>5 DEF ActAnswered, IsNow
<1> QED
    BY <1>1, <1>2, <1>6, <1>7, SetGood

---------------------------------------------------------------------------
(* The overlay and the input controller                                    *)

LEMMA OverlaySettlesGood ==
    ASSUME IInv, NEW ok \in BOOLEAN, OverlaySettles(ok) PROVE IInv'
<1>1. PICK n, t : IsNow(n, t) /\ Good(n, None, t) /\ t \in 1..MaxTurns + 1
    BY NowIs
<1> DEFINE waiting == {f \in Slots : n.flows[f].pc = "overlay"}
<1>2. PICK how : how = IF ok THEN "kept" ELSE "broken"
    OBVIOUS
<1>3. PICK x : x = Settled(n, waiting, how)
    OBVIOUS
<1>4. \A g \in waiting : n.flows[g].pc = "overlay"
    OBVIOUS
<1>5. Good(x, None, t)
    <2> HIDE DEF waiting
    <2> QED
        BY <1>1, <1>2, <1>3, <1>4, SettledGood
<1>6. PICK y : y = [x EXCEPT !.overlay = IF ok THEN "open" ELSE "closed"]
    OBVIOUS
<1>7. y \in World /\ y.s = x.s /\ y.flows = x.flows /\ y.link = x.link
    BY <1>5, <1>6 DEF Good, World, Overlays
<1>8. Good(y, None, t)
    BY <1>5, <1>7, RestGood
<1>9. Set(y) /\ turn' = t
    BY <1>1, <1>2, <1>3, <1>6 DEF OverlaySettles, IsNow
<1> QED
    BY <1>1, <1>8, <1>9, SetGood

\* The input controller goes on while the service waits.
LEMMA NativeGood ==
    ASSUME IInv, NEW value \in Natives, Native(value), UNCHANGED <<s, flows>> PROVE IInv'
<1>1. PICK n, t : IsNow(n, t) /\ Good(n, None, t) /\ t \in 1..MaxTurns + 1
    BY NowIs
<1>2. PICK y : y = [n EXCEPT !.native = value]
    OBVIOUS
<1>3. /\ y \in World /\ y.s = n.s /\ y.flows = n.flows /\ y.link = n.link
      /\ y.native = value /\ y.overlay = n.overlay /\ y.consent = n.consent
    BY <1>1, <1>2 DEF Good, World
<1>4. Good(y, None, t)
    BY <1>1, <1>3, RestGood
<1>5. Set(y) /\ turn' = t
    BY <1>1, <1>3 DEF Native, IsNow, Set
<1> QED
    BY <1>1, <1>4, <1>5, SetGood

LEMMA NativeActivatesGood ==
    ASSUME IInv, NEW f \in Slots, NativeActivates(f) PROVE IInv'
<1>1. PICK n, t : IsNow(n, t) /\ Good(n, None, t) /\ t \in 1..MaxTurns + 1
    BY NowIs
<1>2. /\ n.flows[f].pc = "start" /\ n.flows[f].req = "sent" /\ turn' = t /\ n \in World
      /\ n.flows[f] \in Flow /\ n.flows \in [Slots -> Flow]
    BY <1>1, AnswerFacts DEF NativeActivates
<1>3. PICK x : x = Moved(n, f, "start", "answered")
    OBVIOUS
<1>4. Good(x, None, t) /\ x \in World
    BY <1>1, <1>2, <1>3, AnsweredGood DEF Methods, Good
<1>5. /\ x.s = n.s /\ x.link = n.link /\ SameFrame(n, x)
      /\ x.flows = [n.flows EXCEPT ![f].req = "answered"]
    BY <1>2, <1>3 DEF World, Flow, Moved, At, Called, SameFrame
<1>6. PICK y : y = [x EXCEPT !.native = "active"]
    OBVIOUS
<1>7. /\ y \in World /\ y.s = x.s /\ y.flows = x.flows /\ y.link = x.link
      /\ y.native = "active" /\ y.overlay = x.overlay /\ y.consent = x.consent
    BY <1>4, <1>6 DEF World, Natives
<1>8. Good(y, None, t)
    BY <1>4, <1>7, RestGood
<1>9. Set(y)
    BY <1>1, <1>5, <1>7 DEF NativeActivates, Native, IsNow, Set, SameFrame
<1> QED
    BY <1>1, <1>2, <1>8, <1>9, SetGood

LEMMA NativePausesGood ==
    ASSUME NEW w, NEW t, Good(w, None, t), NEW y, y = NativePauses(w)
    PROVE  Good(y, None, t)
<1>1. PICK x : x = [w EXCEPT !.native = IF @ = "active" THEN "idle" ELSE "paused"]
    OBVIOUS
<1>2. /\ x \in World /\ x.s = w.s /\ x.flows = w.flows /\ x.link = w.link /\ w.s \in Fields
    BY <1>1, Parts DEF Good, World, Natives
<1>3. Good(x, None, t)
    BY <1>2, RestGood
<1>4. CASE w.native \notin {"arming", "active"}
    BY <1>4 DEF NativePauses
<1>5. CASE w.native \in {"arming", "active"} /\ w.s.early = "open"
    <2>1. PICK d : d = [x.s EXCEPT !.early = "paused"]
        OBVIOUS
    <2>2. /\ d \in Fields /\ d.busy = x.s.busy /\ d.resuming = x.s.resuming
          /\ d.trusted = x.s.trusted /\ d.flight = x.s.flight /\ d.health = x.s.health
          /\ d.access = x.s.access /\ d.control = x.s.control /\ d.frame = x.s.frame
        BY <1>2, <2>1 DEF Fields
    <2>3. PICK z : z = Fielded(x, d)
        OBVIOUS
    <2>4. /\ z \in World /\ z.s = d /\ z.flows = x.flows /\ z.link = x.link
          /\ Owned(z, None) /\ Accessed(z, None, t) /\ Resumes(z, None) => Good(z, None, t)
        BY <1>3, <2>2, <2>3, FieldedFacts
    <2>5. \E f \in Slots : x.flows[f].pc = "start"
        BY <1>2, <1>3, <1>5 DEF Good, Owned
    <2>6. Owned(z, None) /\ Accessed(z, None, t) /\ Resumes(z, None)
        BY <1>3, <2>2, <2>4, <2>5 DEF Good, Owned, Accessed, Resumes
    <2>7. z = [x EXCEPT !.s.early = "paused"]
        BY <1>2, <2>1, <2>3 DEF Fielded, World
    <2>8. y = z
        BY <1>1, <1>5, <2>7 DEF NativePauses
    <2> QED
        BY <2>4, <2>6, <2>8
<1>6. CASE w.native \in {"arming", "active"} /\ w.s.early # "open"
    <2>1. y = IF Heard THEN Paused(x) ELSE x
        BY <1>1, <1>6 DEF NativePauses
    <2>2. Good(Paused(x), None, t)
        BY <1>3, PausedGood
    <2> QED
        BY <1>3, <2>1, <2>2
<1> QED
    BY <1>4, <1>5, <1>6

LEMMA UserTakesOverGood ==
    ASSUME IInv, UserTakesOver PROVE IInv'
<1>1. PICK n, t : IsNow(n, t) /\ Good(n, None, t) /\ t \in 1..MaxTurns + 1
    BY NowIs
<1>2. PICK y : y = NativePauses(n)
    OBVIOUS
<1>3. Good(y, None, t)
    BY <1>1, <1>2, NativePausesGood
<1>4. Set(y) /\ turn' = t
    BY <1>1, <1>2 DEF UserTakesOver, IsNow
<1> QED
    BY <1>1, <1>3, <1>4, SetGood

LEMMA SignalArrivesGood ==
    ASSUME IInv, NEW g \in Signals, SignalArrives(g) PROVE IInv'
<1>1. PICK n, t : IsNow(n, t) /\ Good(n, None, t) /\ t \in 1..MaxTurns + 1
    BY NowIs
<1>2. PICK l : l = [n.link EXCEPT ![g] = "none"]
    OBVIOUS
<1>3. PICK x : x = [n EXCEPT !.link = l]
    OBVIOUS
<1>4. n \in World /\ n.link \in Links
    BY <1>1, Parts DEF Good
<1>5. l \in Links /\ l.proc = n.link.proc
    BY <1>2, <1>4 DEF Links, Way, Signals
<1>6. x \in World /\ x.s = n.s /\ x.flows = n.flows /\ x.link = l
    BY <1>3, <1>4, <1>5, WithLink
<1>7. Good(x, None, t)
    BY <1>1, <1>5, <1>6, RestGood
<1>8. PICK y : y = NativePauses(x)
    OBVIOUS
<1>9. Good(y, None, t)
    BY <1>7, <1>8, NativePausesGood
<1> DEFINE stopped == [idle |-> "idle", begun |-> "cancelled", arming |-> "paused",
                       active |-> "idle", cancelled |-> "cancelled", paused |-> "paused"]
<1>10. PICK z : z = [x EXCEPT !.native = stopped[@]]
    OBVIOUS
<1>11. z \in World /\ z.s = x.s /\ z.flows = x.flows /\ z.link = x.link
    <2>1. stopped[x.native] \in Natives
        BY <1>6 DEF World, Natives
    <2> HIDE DEF stopped
    <2> QED
        BY <1>6, <1>10, <2>1 DEF World
<1>12. Good(z, None, t)
    BY <1>7, <1>11, RestGood
<1>13. x = [Now EXCEPT !.link[g] = "none"]
    BY <1>1, <1>2, <1>3 DEF IsNow
<1>14. turn' = t
    BY <1>1 DEF SignalArrives, IsNow
<1>15. CASE g = "pause"
    <2>1. Set(y)
        BY <1>8, <1>13, <1>15 DEF SignalArrives
    <2> QED
        BY <1>1, <1>9, <1>14, <2>1, SetGood
<1>16. CASE g = "stop"
    <2>1. Set(z)
        BY <1>10, <1>13, <1>16 DEF SignalArrives
    <2> QED
        BY <1>1, <1>12, <1>14, <2>1, SetGood
<1>17. CASE g = "beat"
    <2>1. Set(x)
        BY <1>13, <1>17 DEF SignalArrives
    <2> QED
        BY <1>1, <1>7, <1>14, <2>1, SetGood
<1> QED
    BY <1>15, <1>16, <1>17 DEF Signals

LEMMA ControlledGood ==
    ASSUME NEW w, NEW f \in Slots, NEW t, Good(w, f, t), Allowed(w, f, t),
           w.flows[f].pc = "start", w.flows[f].kind \in {"decide", "trust", "resume"},
           w.s.access # None, NEW running \in BOOLEAN, running => w.s.early # "paused"
    PROVE  Good(Controlled(w, f, running), None, t)
<1> DEFINE goes == w.flows[f].kind = "resume" /\ running
<1>1. /\ w \in World /\ w.s \in Fields /\ w.flows[f] \in Flow /\ w.s.access.turn \in Turns
    BY Parts DEF Good, Fields, Grant
<1>2. PICK control : control = [turn |-> w.s.access.turn,
                                state |-> IF running THEN "running" ELSE "paused",
                                resuming |-> FALSE]
    OBVIOUS
<1>3. control \in Control /\ control # None /\ control.state # "cancelled"
    <2>1. PICK state : state = IF running THEN "running" ELSE "paused"
        OBVIOUS
    <2>2. control = [turn |-> w.s.access.turn, state |-> state, resuming |-> FALSE]
          /\ state \in {"running", "paused"}
        BY <1>2, <2>1
    <2>3. w.s.access.turn \in Turns /\ FALSE \in BOOLEAN
        BY <1>1
    <2>4. control \in Control
        BY <2>2, <2>3 DEF Control
    <2>5. control # None
        BY <2>4
    <2> QED
        BY <2>2, <2>4, <2>5
<1>4. PICK c : c = IF goes THEN w.s.control ELSE control
    OBVIOUS
<1>5. PICK d : d = [w.s EXCEPT !.early = "none", !.beat = TRUE, !.control = c]
    OBVIOUS
<1>6. /\ d \in Fields /\ d.busy = w.s.busy /\ d.resuming = w.s.resuming
      /\ d.trusted = w.s.trusted /\ d.flight = w.s.flight /\ d.health = w.s.health
      /\ d.early = "none" /\ d.access = w.s.access /\ d.control = c /\ d.frame = w.s.frame
    <2>1. c \in Control \cup {None}
        BY <1>1, <1>3, <1>4 DEF Fields
    <2> QED
        BY <1>1, <1>5, <2>1 DEF Fields
<1>7. PICK x : x = Fielded(w, d)
    OBVIOUS
<1>8. /\ x \in World /\ x.s = d /\ x.flows = w.flows /\ x.link = w.link
      /\ Owned(x, f) /\ Accessed(x, f, t) /\ Resumes(x, f) => Good(x, f, t)
    BY <1>6, <1>7, FieldedFacts
<1>9. Owned(x, f) /\ Accessed(x, f, t)
    BY <1>6, <1>8 DEF Good, Owned, Accessed
<1>10. Resumes(x, f)
    BY <1>3, <1>4, <1>6, <1>8 DEF Good, Resumes
<1>11. Good(x, f, t)
    BY <1>8, <1>9, <1>10
<1>12. PICK u : u = Refreshed(x, f)
    OBVIOUS
<1>13. /\ Good(u, f, t) /\ u.s = x.s /\ u.flows[f].pc = x.flows[f].pc
    BY <1>11, <1>12, RefreshedGood
<1>14. PICK y : y = IF w.s.early = "paused" THEN u ELSE x
    OBVIOUS
<1>15. /\ Good(y, f, t) /\ y.s = d /\ y.flows[f].pc = "start"
    BY <1>8, <1>11, <1>13, <1>14
<1>16. x = [w EXCEPT !.s.early = "none", !.s.beat = TRUE,
                     !.s.control = IF w.flows[f].kind = "resume" /\ running THEN @ ELSE control]
    BY <1>1, <1>4, <1>5, <1>7 DEF Fielded, World, Fields
<1>17. Controlled(w, f, running) =
           IF w.flows[f].kind = "decide" THEN Granted(y, f)
           ELSE IF w.flows[f].kind = "resume" /\ running
           THEN Ask([y EXCEPT !.flows[f].req = "none"], f, "observe")
           ELSE Released(y, f)
    <2> DEFINE fl == w.flows[f]
               control0 == [turn |-> w.s.access.turn,
                            state |-> IF running THEN "running" ELSE "paused",
                            resuming |-> FALSE]
               x0 == [w EXCEPT !.s.early = "none", !.s.beat = TRUE,
                               !.s.control = IF fl.kind = "resume" /\ running THEN @
                                             ELSE control0]
               y0 == IF w.s.early = "paused"
                     THEN [Bumped(x0, f) EXCEPT !.flows[f].fresh = TRUE] ELSE x0
    <2>1. Controlled(w, f, running) =
              IF fl.kind = "decide" THEN Granted(y0, f)
              ELSE IF fl.kind = "resume" /\ running
              THEN Ask([y0 EXCEPT !.flows[f].req = "none"], f, "observe")
              ELSE Released(y0, f)
        BY Zenon DEF Controlled
    <2>2. x0 = x
        BY <1>2, <1>16
    <2> HIDE DEF x0
    <2>3. y0 = y
        BY <1>12, <1>14, <2>2 DEF Refreshed
    <2> HIDE DEF y0
    <2> QED
        BY <2>1, <2>3
<1>18. Good(Granted(y, f), None, t) /\ Good(Released(y, f), None, t)
    BY <1>6, <1>15, GrantedGood, ReleasedGood
<1>19. ASSUME goes PROVE Good(Ask([y EXCEPT !.flows[f].req = "none"], f, "observe"), None, t)
    <2>1. y = x
        BY <1>14, <1>19
    <2>2. PICK q : q = Moved(x, f, "start", "none")
        OBVIOUS
    <2>3. "start" \in Awaits /\ "none" \in Promises
        BY DEF Awaits, Promises
    <2>4. /\ Good(q, f, t) /\ q.s = x.s /\ q.link = x.link
          /\ \A g \in Slots : g # f => q.flows[g] = x.flows[g]
          /\ q.flows[f].kind = x.flows[f].kind /\ q.flows[f].turn = x.flows[f].turn
          /\ q.flows[f].fresh <=> x.flows[f].fresh
          /\ q.flows[f].same <=> x.flows[f].same
        BY <1>8, <1>11, <2>2, <2>3, MovedGood
    <2>5. q = [x EXCEPT !.flows[f].req = "none"]
        BY ZenonT(60), <1>1, <1>8, <2>2 DEF World, Flow, Moved, At, Called
    <2>6. Allowed(q, f, t)
        <3>1. c = w.s.control
            BY <1>4, <1>19
        <3> QED
            BY <1>6, <1>8, <2>4, <3>1, AllowedStill
    <2>7. "observe" \in Methods /\ "observe" \in Places[q.flows[f].kind]
        BY <1>8, <1>19, <2>4 DEF Methods, Places
    <2>8. q.s.early = "none"
        BY <1>6, <1>8, <2>4
    <2>9. Good(Ask(q, f, "observe"), None, t)
        BY <2>4, <2>6, <2>7, <2>8, AskGood
    <2> QED
        BY <2>1, <2>5, <2>9
<1> QED
    BY <1>17, <1>18, <1>19

LEMMA StartAnsweredGood ==
    ASSUME IInv, NEW f \in Slots, NEW active \in BOOLEAN, StartAnswered(f, active) PROVE IInv'
<1>1. PICK n, t : IsNow(n, t) /\ Good(n, None, t) /\ t \in 1..MaxTurns + 1
    BY NowIs
<1>2. /\ n.flows[f].pc = "start" /\ turn' = t /\ n \in World
      /\ n.flows[f] \in Flow /\ n.flows[f].pc \in Places[n.flows[f].kind]
      /\ Good(n, f, t) /\ Allowed(n, f, t)
    BY <1>1, TakeUp, Parts DEF StartAnswered, IsNow, Good, Placed
<1>3. n.flows[f].kind \in {"decide", "trust", "resume"}
    BY <1>2, KindsOfPlaces DEF Starting
<1>4. PICK x : x = IF active THEN n ELSE [n EXCEPT !.native = "idle"]
    OBVIOUS
<1>5. x \in World /\ x.s = n.s /\ x.flows = n.flows /\ x.link = n.link
    BY <1>2, <1>4 DEF World, Natives
<1>6. Good(x, f, t)
    BY <1>2, <1>5, RestGood
<1>7. Allowed(x, f, t)
    BY <1>2, <1>5, AllowedStill
<1>8. PICK running : running = (active /\ n.s.early # "paused")
    OBVIOUS
<1>9. PICK y : y = IF ~n.flows[f].fresh \/ n.s.access = None THEN Throw(x, f, "cancelled")
                   ELSE Controlled(x, f, running)
    OBVIOUS
<1>10. Good(y, None, t)
    <2>1. Good(Throw(x, f, "cancelled"), None, t)
        BY <1>6, ThrowGood
    <2>2. running \in BOOLEAN /\ (running => x.s.early # "paused")
        BY <1>5, <1>8
    <2>3. n.s.access # None => Good(Controlled(x, f, running), None, t)
        BY <1>2, <1>3, <1>5, <1>6, <1>7, <2>2, ControlledGood
    <2> QED
        BY <1>9, <2>1, <2>3
<1>11. Set(y)
    <2>1. x = IF active THEN Now ELSE [Now EXCEPT !.native = "idle"]
        BY <1>1, <1>4 DEF IsNow
    <2>2. y = IF ~flows[f].fresh \/ s.access = None THEN Throw(x, f, "cancelled")
              ELSE Controlled(x, f, active /\ s.early # "paused")
        BY <1>1, <1>8, <1>9, Zenon DEF IsNow
    <2> QED
        BY <2>1, <2>2, Zenon DEF StartAnswered
<1> QED
    BY <1>1, <1>2, <1>10, <1>11, SetGood

---------------------------------------------------------------------------
(* The invariant holds                                                     *)

LEMMA InitGood == Init => IInv
<1> SUFFICES ASSUME Init PROVE IInv
    OBVIOUS
<1>1. PICK n : n = Now
    OBVIOUS
<1>2. /\ n.s = s /\ n.flows = flows /\ n.link = link /\ n.native = native
      /\ n.overlay = overlay /\ n.consent = consent
    BY <1>1 DEF Now
<1>3. \A f \in Slots : n.flows[f] = Idle
    BY <1>2 DEF Init
<1>4. n \in World
    <2>1. s \in Fields
        BY DEF Init, Fields
    <2>2. flows \in [Slots -> Flow]
        BY IdleIsFlow DEF Init
    <2>3. /\ link \in Links /\ native \in Natives /\ overlay \in Overlays
          /\ consent \in [Turns -> SUBSET Modes]
        BY DEF Init, Links, Way, Natives, Overlays
    <2> QED
        BY <1>1, <2>1, <2>2, <2>3 DEF Now, World
<1>5. /\ n.s.busy = None /\ n.s.resuming = None /\ n.s.health = None /\ n.s.trusted = None
      /\ n.s.flight = None /\ n.s.early = "none" /\ ~n.s.frame
    BY <1>2 DEF Init
<1>6. Placed(n, None) /\ Owned(n, None)
    BY <1>3, <1>5, IdleFacts DEF Placed, Owned
<1>7. OneRequest(n, None)
    BY <1>3, IdleFacts DEF OneRequest, UnderWay
<1>8. Barren(n)
    BY <1>3, <1>5, IdleFacts DEF Barren
<1>9. turn \in 1..MaxTurns + 1
    BY DEF Init
<1> QED
    BY <1>1, <1>4, <1>6, <1>7, <1>8, <1>9, BarrenIsFine DEF IInv, Good

LEMMA StepGood == IInv /\ [Next]_vars => IInv'
<1> SUFFICES ASSUME IInv, [Next]_vars PROVE IInv'
    OBVIOUS
<1>1. CASE UNCHANGED vars
    <2>1. Now' = Now /\ turn' = turn
        BY <1>1 DEF vars, Now
    <2> QED
        BY <2>1 DEF IInv
<1>2. CASE Tool
    BY <1>2, ExecuteGood, ObserveGood DEF Tool
<1>3. CASE User
    BY <1>3, ListGood, DecideGood, ResumeGood, RevokeGood, AllowGood, UserTakesOverGood,
       DisplayChangedGood DEF User, Revoke
<1>4. CASE TurnEnds \/ Acknowledge \/ ConsentExpires \/ HeartbeatLost \/ Heartbeat \/ HelperDies
    BY <1>4, TurnEndsGood, AcknowledgeGood, RevokeGood, HeartbeatGood, HelperDiesGood
       DEF ConsentExpires, HeartbeatLost
<1>5. CASE \E ok \in BOOLEAN : HelperStarts(ok) \/ OverlaySettles(ok)
    BY <1>5, HelperStartsGood, OverlaySettlesGood
<1>6. CASE \E g \in Signals : SignalArrives(g)
    BY <1>6, SignalArrivesGood
<1>7. ASSUME NEW f \in Slots, Reaction(f) PROVE IInv'
    BY <1>7, AdmittedGood, HealthOverGood, LinkedGood, PreparedGood DEF Reaction
<1>8. ASSUME NEW f \in Slots, HelperStep(f) PROVE IInv'
    <2>1. CASE \E code \in {"refused", "native"} : HelperFails(f, code)
        BY <2>1, HelperFailsGood
    <2>2. CASE HelloAnswered(f) \/ ListAnswered(f) \/ Selected(f)
        BY <2>2, HelloAnsweredGood, ListAnsweredGood, SelectedGood
    <2>3. CASE \E valid \in BOOLEAN : Validated(f, valid)
        BY <2>3, ValidatedGood
    <2>4. CASE TargetAnswered(f) \/ ObserveAnswered(f) \/ Injects(f) \/ ActAnswered(f)
        BY <2>4, TargetAnsweredGood, ObserveAnsweredGood, InjectsGood, ActAnsweredGood
    <2>5. CASE NativeBegins(f)
        BY <2>5, NativeGood DEF NativeBegins, Natives
    <2>6. CASE NativeArms(f)
        BY <2>6, NativeGood DEF NativeArms, Natives
    <2>7. CASE NativeActivates(f)
        BY <2>7, NativeActivatesGood
    <2>8. CASE \E active \in BOOLEAN : StartAnswered(f, active)
        BY <2>8, StartAnsweredGood
    <2> QED
        BY <1>8, <2>1, <2>2, <2>3, <2>4, <2>5, <2>6, <2>7, <2>8 DEF HelperStep
<1>9. ASSUME NEW f \in Slots, ThumbsLoaded(f) \/ Deadline(f) \/ Probe(f) PROVE IInv'
    BY <1>9, ThumbsLoadedGood, RevokeGood, ProbeGood DEF Deadline
<1> QED
    BY <1>1, <1>2, <1>3, <1>4, <1>5, <1>6, <1>7, <1>8, <1>9 DEF Next

LEMMA Always == Spec => []IInv
BY InitGood, StepGood, PTL DEF Spec

---------------------------------------------------------------------------
(* What follows from it                                                    *)

\* The fields of the service, its calls, the helper and the overlay are in a state
\* the code knows, for any number of calls and of turns.
THEOREM TypeCorrect == Spec => []TypeOK
<1>1. IInv => TypeOK
    BY DEF IInv, Good, World, Now, TypeOK, Fields, Links, Way, Natives, Overlays
<1> QED
    BY <1>1, Always, PTL

\* Each of the service's marks for a call in progress (activeCommand, resuming,
\* healthCheck, trusted grant, the check for input, the early pause) stands for a
\* call of its kind: no way a call ends, and no revocation, pause, end of a turn or
\* death of the helper between two of its awaits, leaves one behind.
THEOREM NoLockIsLeftBehind == Spec => []LocksHaveOwners
<1>1. IInv => LocksHaveOwners
    BY DEF IInv, Good, Owned, Now, LocksHaveOwners
<1> QED
    BY <1>1, Always, PTL

\* Whatever answers late, and after however many turns, an observation is shown
\* only while there is an access: the generation alone does not see to it (a new
\* question takes the access and leaves the generation), what each call compares
\* besides does.
THEOREM NoFrameWithoutAccess == Spec => []FrameHasAccess
<1>1. IInv => FrameHasAccess
    BY DEF IInv, Good, Accessed, Now, FrameHasAccess
<1> QED
    BY <1>1, Always, PTL

---------------------------------------------------------------------------
(* What the user has granted, and what he sees                              *)

---------------------------------------------------------------------------
(* The inductive invariant, of any state w that the service passes through  *)

\* A call that may take access when its request is answered.
Bound(fl) ==
    /\ fl.fresh
    /\ \/ fl.kind = "decide" /\ fl.pc \notin Starting
       \/ fl.kind = "trust" /\ fl.pc \notin Starting \cup {"readiness"}

Deciding(fl) == fl.kind = "decide" /\ fl.fresh

\* The user has granted to the turn of the call what it may take.
Entitled(w, f, fl) ==
    /\ fl.mode \in w.consent[fl.turn]
    /\ fl.kind = "decide" => w.s.decision = [turn |-> fl.turn, mode |-> fl.mode]
    /\ fl.kind = "trust" => w.s.trusted = f /\ fl.mode = "control"

\* What is held, or may be taken, has the user's consent.
Consented(w) ==
    /\ w.s.access # None => w.s.access.mode \in w.consent[w.s.access.turn]
    /\ w.s.access # None /\ w.s.decision # None => w.s.access = w.s.decision
    /\ w.s.trusted # None => w.s.decision = None
    /\ \A f \in Slots : Bound(w.flows[f]) => Entitled(w, f, w.flows[f])
    /\ \A f, g \in Slots : Deciding(w.flows[f]) /\ Deciding(w.flows[g]) => f = g

\* A call that may have control run with no other look at the overlay.
Nears(fl) ==
    /\ fl.fresh
    /\ \/ fl.pc = "start" \/ (fl.pc = "overlay" /\ fl.req = "kept")
       \/ fl.kind = "resume" /\ fl.pc = "observe"

Running(w) == w.s.control # None /\ w.s.control.state = "running"

\* The overlay is on the screen while control runs, and before it does.
Shown(w) ==
    /\ Running(w) => w.overlay = "open"
    /\ \A f \in Slots : Nears(w.flows[f]) => w.overlay = "open"

\* A call whose end leaves a control, or no overlay.
Puts(fl) == fl.kind \in {"decide", "trust"} /\ fl.pc \in Starting

\* A resumption that has yet to prepare the overlay.
Returns(fl) == fl.kind = "resume" /\ fl.pc \in {"waiting", "target"}

Lit(w) == w.overlay \in {"opening", "open"}

\* The overlay is on the screen for a control, or for one that is to start.
Wanted(w) ==
    /\ Lit(w) => w.s.control # None \/ \E f \in Slots : Puts(w.flows[f])
    /\ \A f \in Slots : Returns(w.flows[f]) => w.s.control # None

Sound(w) == w \in World /\ Consented(w) /\ Shown(w) /\ Wanted(w)

---------------------------------------------------------------------------
(* Steps that grant and show nothing                                       *)

\* The call claims no more than before.
Tamer(fl, gl) ==
    /\ Bound(gl) => Bound(fl) /\ gl.kind = fl.kind /\ gl.turn = fl.turn /\ gl.mode = fl.mode
    /\ Deciding(gl) => Deciding(fl)
    /\ Nears(gl) => Nears(fl)
    /\ Returns(gl) => Returns(fl)

Less(w, y) ==
    /\ y.s.access \in {None, w.s.access} /\ y.s.decision = w.s.decision
    /\ \/ y.s.trusted = w.s.trusted
       \/ y.s.trusted = None /\ \A g \in Slots : Bound(y.flows[g]) => g # w.s.trusted
    /\ y.s.control = None <=> w.s.control = None
    /\ Running(y) => Running(w)
    /\ y.overlay = w.overlay /\ y.consent = w.consent
    /\ \A g \in Slots : Tamer(w.flows[g], y.flows[g])
    /\ \A g \in Slots : Puts(w.flows[g]) => Puts(y.flows[g]) \/ y.s.control # None \/ ~Lit(y)

LEMMA LessSound ==
    ASSUME NEW w, NEW y \in World, Sound(w), Less(w, y) PROVE Sound(y)
<1>1. Consented(y)
    <2>1. /\ y.s.access # None => y.s.access.mode \in y.consent[y.s.access.turn]
          /\ y.s.access # None /\ y.s.decision # None => y.s.access = y.s.decision
          /\ y.s.trusted # None => y.s.decision = None
        BY DEF Less, Sound, Consented
    <2>2. ASSUME NEW f \in Slots, Bound(y.flows[f]) PROVE Entitled(y, f, y.flows[f])
        <3>1. /\ Bound(w.flows[f]) /\ y.flows[f].kind = w.flows[f].kind
              /\ y.flows[f].turn = w.flows[f].turn /\ y.flows[f].mode = w.flows[f].mode
            BY <2>2 DEF Less, Tamer
        <3>2. Entitled(w, f, w.flows[f])
            BY <3>1 DEF Sound, Consented
        <3>3. y.flows[f].kind = "trust" => y.s.trusted = f
            BY <2>2, <3>1, <3>2 DEF Less, Entitled
        <3> QED
            BY <3>1, <3>2, <3>3 DEF Less, Entitled
    <2>3. \A f, g \in Slots : Deciding(y.flows[f]) /\ Deciding(y.flows[g]) => f = g
        BY DEF Less, Tamer, Sound, Consented
    <2> QED
        BY <2>1, <2>2, <2>3 DEF Consented
<1>2. Shown(y)
    BY DEF Less, Tamer, Sound, Shown
<1>3. Wanted(y)
    BY DEF Less, Tamer, Sound, Wanted, Lit
<1> QED
    BY <1>1, <1>2, <1>3 DEF Sound

LEMMA DimmerTamer ==
    ASSUME NEW fl, NEW gl, Dimmer(fl, gl)
    PROVE  Tamer(fl, gl) /\ (Puts(gl) <=> Puts(fl))
BY DEF Dimmer, Tamer, Bound, Deciding, Nears, Returns, Puts

LEMMA IdleTamer ==
    ASSUME NEW fl PROVE Tamer(fl, Idle) /\ ~Puts(Idle) /\ ~Bound(Idle)
BY IdleFacts DEF Tamer, Bound, Deciding, Nears, Returns, Puts

\* No call moves; the fields that consent and overlay are about are the same.
LEMMA DimmedSound ==
    ASSUME NEW w, NEW y \in World, Sound(w), Dimmed(w, y), SameAccess(w.s, y.s),
           y.s.trusted = w.s.trusted, y.overlay = w.overlay, y.consent = w.consent
    PROVE  Sound(y)
<1>1. \A g \in Slots : Tamer(w.flows[g], y.flows[g]) /\ (Puts(y.flows[g]) <=> Puts(w.flows[g]))
    BY DimmerTamer DEF Dimmed
<1>2. Less(w, y)
    BY <1>1 DEF Less, SameAccess, Running
<1> QED
    BY <1>2, LessSound

\* The other fields change, the helper or its client.
LEMMA SameSound ==
    ASSUME NEW w, NEW y \in World, Sound(w), y.flows = w.flows, SameAccess(w.s, y.s),
           y.s.trusted = w.s.trusted, y.overlay = w.overlay, y.consent = w.consent
    PROVE  Sound(y)
<1>1. Dimmed(w, y)
    BY DEF Dimmed, Dimmer
<1> QED
    BY <1>1, DimmedSound

\* Nothing is held, and nobody may take anything.
LEMMA BareSound ==
    ASSUME NEW y \in World, y.s.access = None, y.s.decision = None, ~Running(y),
           \A g \in Slots : ~y.flows[g].fresh,
           Wanted(y)
    PROVE  Sound(y)
<1>1. Consented(y)
    BY DEF Consented, Bound, Deciding
<1>2. Shown(y)
    BY DEF Shown, Nears
<1> QED
    BY <1>1, <1>2 DEF Sound

\* The call changes, or one begins.
LEMMA CalledSound ==
    ASSUME NEW w, NEW f \in Slots, Sound(w), NEW e \in Flow, NEW y, y = Called(w, f, e),
           Bound(e) => Entitled(w, f, e),
           Deciding(e) => \A g \in Slots \ {f} : ~Deciding(w.flows[g]),
           Nears(e) => w.overlay = "open",
           Returns(e) => w.s.control # None,
           Puts(w.flows[f]) => Puts(e) \/ w.s.control # None \/ ~Lit(w)
    PROVE  /\ Sound(y) /\ y.flows[f] = e /\ \A g \in Slots : g # f => y.flows[g] = w.flows[g]
           /\ y.s = w.s /\ y.link = w.link /\ SameFrame(w, y)
<1>1. w \in World /\ w.flows \in [Slots -> Flow]
    BY Parts DEF Sound
<1>2. PICK k : k = [w.flows EXCEPT ![f] = e]
    OBVIOUS
<1>3. k \in [Slots -> Flow] /\ k[f] = e /\ \A g \in Slots : g # f => k[g] = w.flows[g]
    BY <1>1, <1>2
<1>4. y \in World /\ y.flows = k /\ y.s = w.s /\ y.link = w.link /\ SameFrame(w, y)
    BY <1>1, <1>2, <1>3, WithFlows DEF Called
<1>5. Consented(y)
    <2>1. /\ y.s.access # None => y.s.access.mode \in y.consent[y.s.access.turn]
          /\ y.s.access # None /\ y.s.decision # None => y.s.access = y.s.decision
          /\ y.s.trusted # None => y.s.decision = None
        BY <1>4 DEF Sound, Consented, SameFrame
    <2>2. ASSUME NEW g \in Slots, Bound(y.flows[g]) PROVE Entitled(y, g, y.flows[g])
        <3>1. Entitled(w, g, y.flows[g])
            BY <1>3, <1>4, <2>2 DEF Sound, Consented
        <3> QED
            BY <1>4, <3>1 DEF Entitled, SameFrame
    <2>3. ASSUME NEW g \in Slots, NEW h \in Slots, Deciding(y.flows[g]), Deciding(y.flows[h])
          PROVE  g = h
        BY <1>3, <1>4, <2>3 DEF Sound, Consented
    <2> QED
        BY <2>1, <2>2, <2>3 DEF Consented
<1>6. Shown(y)
    BY <1>3, <1>4 DEF Sound, Shown, Running, SameFrame
<1>7. Wanted(y)
    BY <1>3, <1>4 DEF Sound, Wanted, Lit, SameFrame
<1> QED
    BY <1>3, <1>4, <1>5, <1>6, <1>7 DEF Sound

---------------------------------------------------------------------------
(* Revocations, pauses and the end of a call                               *)

LEMMA RevokedSound ==
    ASSUME NEW w, Sound(w), NEW y, y = Revoked(w)
    PROVE  /\ Sound(y) /\ y.s.access = None /\ (y.s.control = None => ~Lit(y))
           /\ \A g \in Slots : ~y.flows[g].fresh
<1>1. w \in World
    BY DEF Sound
<1>2. /\ y \in World
      /\ \A g \in Slots : Rejected(w.flows[g]) => y.flows[g] = Idle
      /\ \A g \in Slots : ~Rejected(w.flows[g]) =>
             Dimmer(w.flows[g], y.flows[g]) /\ ~y.flows[g].fresh
      /\ y.s.access = None /\ y.s.decision = None
      /\ y.s.control = Cancelled(w.s.control)
      /\ w.s.control = None => y.overlay \in {"doomed", "closed"}
    BY <1>1, RevokedFacts
<1>3. /\ y.s.control = None <=> w.s.control = None
      /\ ~Running(y)
    <2>1. w.s.control \in Control \cup {None}
        BY <1>1, Parts DEF Fields
    <2>2. CASE w.s.control = None
        BY <1>2, <2>2 DEF Cancelled, Running
    <2>3. CASE w.s.control # None
        <3>1. y.s.control = [w.s.control EXCEPT !.state = "cancelled"] /\ w.s.control \in Control
            BY <1>2, <2>1, <2>3 DEF Cancelled
        <3>2. y.s.control \in Control /\ y.s.control.state = "cancelled"
            BY <3>1 DEF Control
        <3> QED
            BY <2>3, <3>2 DEF Running
    <2> QED
        BY <2>2, <2>3
<1>4. \A g \in Slots : ~y.flows[g].fresh /\ Tamer(w.flows[g], y.flows[g])
    BY <1>2, IdleFacts, IdleTamer, DimmerTamer
<1>5. y.s.control = None => ~Lit(y)
    BY <1>2, <1>3 DEF Lit
<1>6. Wanted(y)
    BY <1>3, <1>4, <1>5 DEF Sound, Wanted, Tamer
<1> QED
    BY <1>2, <1>3, <1>4, <1>5, <1>6, BareSound

LEMMA PausedSound ==
    ASSUME NEW w, Sound(w), NEW y, y = Paused(w)
    PROVE  Sound(y) /\ Dimmed(w, y)
<1>1. w \in World
    BY DEF Sound
<1>2. /\ y \in World /\ Dimmed(w, y)
      /\ SameLocks(w.s, y.s) /\ y.s.access = w.s.access
      /\ y.overlay = w.overlay /\ y.consent = w.consent /\ y.s.decision = w.s.decision
      /\ y.s.control = None <=> w.s.control = None
      /\ y.s.control # None => y.s.control.state # "running"
    BY <1>1, PausedFacts
<1>3. \A g \in Slots : Tamer(w.flows[g], y.flows[g]) /\ (Puts(y.flows[g]) <=> Puts(w.flows[g]))
    BY <1>2, DimmerTamer DEF Dimmed
<1>4. Less(w, y)
    BY <1>2, <1>3 DEF Less, SameLocks, Running
<1> QED
    BY <1>2, <1>4, LessSound

LEMMA FramedSound ==
    ASSUME NEW w, Sound(w), NEW shown \in BOOLEAN, NEW y, y = Framed(w, shown)
    PROVE  Sound(y) /\ Dimmed(w, y) /\ SameAccess(w.s, y.s) /\ SameFrame(w, y)
           /\ y.s.trusted = w.s.trusted
           /\ \A g \in Slots : y.flows[g].fresh <=> w.flows[g].fresh
<1>1. w \in World
    BY DEF Sound
<1>2. /\ y \in World /\ SameFrame(w, y) /\ Dimmed(w, y)
      /\ \A g \in Slots : y.flows[g].fresh <=> w.flows[g].fresh
      /\ SameLocks(w.s, y.s) /\ SameAccess(w.s, y.s)
    BY <1>1, FramedFacts
<1> QED
    BY <1>2, DimmedSound DEF SameLocks, SameFrame

LEMMA ReplacedSound ==
    ASSUME NEW w, Sound(w), NEW kinds, NEW y, y = Replaced(w, kinds)
    PROVE  Sound(y) /\ Dimmed(w, y) /\ y.s = w.s /\ SameFrame(w, y)
           /\ \A g \in Slots : y.flows[g].fresh <=> w.flows[g].fresh
<1>1. w \in World
    BY DEF Sound
<1>2. /\ y \in World /\ y.s = w.s /\ SameFrame(w, y) /\ Dimmed(w, y)
      /\ \A g \in Slots : y.flows[g].fresh <=> w.flows[g].fresh
    BY <1>1, ReplacedFacts
<1> QED
    BY <1>2, DimmedSound DEF SameAccess, SameFrame

\* What starts a control does not just end: it leaves a control, or no overlay.
LEMMA ReleasedSound ==
    ASSUME NEW w, NEW f \in Slots, Sound(w),
           Puts(w.flows[f]) => w.s.control # None \/ ~Lit(w)
    PROVE  Sound(Released(w, f))
<1>0. PICK y : y = Released(w, f)
    OBVIOUS
<1>1. w \in World
    BY DEF Sound
<1>2. /\ y \in World /\ SameFrame(w, y) /\ y.flows[f] = Idle
      /\ \A g \in Slots : y.flows[g] # w.flows[g] =>
             y.flows[g] = Idle /\ (g = f \/ w.flows[g].pc = "readiness")
      /\ y.s.access = w.s.access /\ y.s.decision = w.s.decision
      /\ SameControl(w.s, y.s) /\ y.s.trusted = Without(w.s.trusted, {f})
    <2>1. /\ y \in World /\ SameFrame(w, y) /\ y.flows[f] = Idle /\ EndsWith(w, f, y)
          /\ y.s.access = w.s.access /\ y.s.decision = w.s.decision
          /\ SameControl(w.s, y.s) /\ y.s.trusted = Without(w.s.trusted, {f})
        BY <1>0, <1>1, ReleasedFacts
    <2> QED
        BY <2>1 DEF EndsWith
<1>3. ASSUME NEW g \in Slots
      PROVE  /\ Tamer(w.flows[g], y.flows[g])
             /\ Puts(w.flows[g]) => Puts(y.flows[g]) \/ g = f
    <2>1. CASE y.flows[g] = w.flows[g]
        BY <2>1 DEF Tamer
    <2>2. CASE y.flows[g] # w.flows[g]
        BY <1>2, <2>2, IdleTamer DEF Puts, Starting
    <2> QED
        BY <2>1, <2>2
<1>4. \/ y.s.trusted = w.s.trusted
      \/ y.s.trusted = None /\ \A g \in Slots : Bound(y.flows[g]) => g # w.s.trusted
    BY <1>2, IdleTamer DEF Without
<1>5. Less(w, y)
    BY <1>2, <1>3, <1>4 DEF Less, SameControl, SameFrame, Running, Lit
<1>6. Sound(y)
    BY <1>2, <1>5, LessSound
<1> QED
    BY <1>0, <1>6

LEMMA ThrowSound ==
    ASSUME NEW w, NEW f \in Slots, NEW code, Sound(w)
    PROVE  Sound(Throw(w, f, code))
<1> DEFINE fl == w.flows[f]
           y == IF fl.pc = "start" THEN [w EXCEPT !.s.early = "none"] ELSE w
           x == IF fl.kind = "act" THEN Framed(y, FALSE) ELSE y
<1>1. w \in World /\ w.s \in Fields
    BY Parts DEF Sound
<1>2. Sound(y) /\ y.flows = w.flows
    <2>1. CASE fl.pc # "start"
        BY <2>1
    <2>2. CASE fl.pc = "start"
        <3>1. /\ y \in World /\ y.flows = w.flows /\ y.s = [w.s EXCEPT !.early = "none"]
              /\ SameFrame(w, y)
            BY <1>1, <2>2, EarlyFacts
        <3> HIDE DEF y
        <3>2. SameAccess(w.s, y.s) /\ y.s.trusted = w.s.trusted
            BY <1>1, <3>1 DEF Fields, SameAccess
        <3> QED
            BY <3>1, <3>2, SameSound DEF SameFrame
    <2> QED
        BY <2>1, <2>2
<1>3. Throw(w, f, code) =
          IF Revokes(fl, code) THEN Released(Revoked(x), f)
          ELSE IF Pauses(fl, code) THEN Released(Paused(x), f)
          ELSE Released(x, f)
    BY Zenon DEF Throw
<1> HIDE DEF y
<1>4. Sound(x) /\ x.flows[f].kind = fl.kind /\ x.flows[f].pc = fl.pc
    <2>1. CASE fl.kind # "act"
        BY <1>2, <2>1
    <2>2. CASE fl.kind = "act"
        <3>1. Sound(Framed(y, FALSE)) /\ Dimmed(y, Framed(y, FALSE))
            BY <1>2, FramedSound
        <3> QED
            BY <1>2, <2>2, <3>1 DEF Dimmed, Dimmer
    <2> QED
        BY <2>1, <2>2
<1> HIDE DEF x
<1>5. CASE Revokes(fl, code)
    <2>1. PICK r : r = Revoked(x)
        OBVIOUS
    <2>2. Sound(r) /\ (r.s.control = None => ~Lit(r))
        BY <1>4, <2>1, RevokedSound
    <2>3. Sound(Released(r, f))
        BY <2>2, ReleasedSound
    <2> QED
        BY <1>3, <1>5, <2>1, <2>3
<1>6. CASE ~Revokes(fl, code)
    <2>1. ~Puts(fl)
        BY <1>6 DEF Revokes, Puts
    <2>2. ~Puts(x.flows[f])
        BY <1>4, <2>1 DEF Puts
    <2>3. Sound(Released(x, f))
        BY <1>4, <2>2, ReleasedSound
    <2>4. PICK r : r = Paused(x)
        OBVIOUS
    <2>5. Sound(r) /\ Dimmed(x, r)
        BY <1>4, <2>4, PausedSound
    <2>6. ~Puts(r.flows[f])
        BY <2>2, <2>5, DimmerTamer DEF Dimmed
    <2>7. Sound(Released(r, f))
        BY <2>5, <2>6, ReleasedSound
    <2> QED
        BY <1>3, <1>6, <2>3, <2>4, <2>7
<1> QED
    BY <1>5, <1>6

---------------------------------------------------------------------------
(* Requests of the helper and the start of a control                       *)

\* The call may be at p, whatever it waits for there.
May(w, f, p) ==
    LET fl == w.flows[f] IN
    /\ p # "overlay"
    /\ fl.fresh /\ fl.kind = "decide" /\ p \notin Starting => Entitled(w, f, fl)
    /\ fl.fresh /\ fl.kind = "trust" /\ p \notin Starting \cup {"readiness"} => Entitled(w, f, fl)
    /\ fl.fresh /\ (p = "start" \/ (fl.kind = "resume" /\ p = "observe")) => w.overlay = "open"
    /\ fl.kind = "resume" /\ p \in {"waiting", "target"} => w.s.control # None
    /\ Puts(fl) => p \in Starting \/ w.s.control # None

LEMMA MovedSound ==
    ASSUME NEW w, NEW f \in Slots, Sound(w), NEW p \in Awaits, NEW r \in Promises,
           May(w, f, p), NEW y, y = Moved(w, f, p, r)
    PROVE  /\ Sound(y) /\ y.s = w.s /\ y.link = w.link /\ SameFrame(w, y)
           /\ \A g \in Slots : g # f => y.flows[g] = w.flows[g]
           /\ y.flows[f].pc = p /\ y.flows[f].req = r
           /\ y.flows[f].kind = w.flows[f].kind /\ y.flows[f].turn = w.flows[f].turn
           /\ y.flows[f].mode = w.flows[f].mode
           /\ y.flows[f].fresh <=> w.flows[f].fresh
<1>0. PICK e : e = At(w.flows[f], p, r)
    OBVIOUS
<1>1. w \in World
    BY DEF Sound
<1>2. /\ e \in Flow /\ e.pc = p /\ e.req = r /\ e.kind = w.flows[f].kind
      /\ e.turn = w.flows[f].turn /\ e.mode = w.flows[f].mode
      /\ (e.fresh <=> w.flows[f].fresh)
    BY <1>0, <1>1, Parts, MovedFacts
<1>3. y = Called(w, f, e)
    BY <1>0 DEF Moved
<1>4. Bound(e) => Entitled(w, f, e)
    BY <1>2 DEF May, Bound, Entitled
<1>5. Deciding(e) => \A g \in Slots \ {f} : ~Deciding(w.flows[g])
    BY <1>2 DEF Sound, Consented, Deciding
<1>6. /\ Nears(e) => w.overlay = "open"
      /\ Returns(e) => w.s.control # None
    BY <1>2 DEF May, Nears, Returns
<1>7. Puts(w.flows[f]) => Puts(e) \/ w.s.control # None \/ ~Lit(w)
    BY <1>2 DEF May, Puts
<1> QED
    BY <1>2, <1>3, <1>4, <1>5, <1>6, <1>7, CalledSound

LEMMA AskSound ==
    ASSUME NEW w, NEW f \in Slots, NEW method \in Methods, Sound(w), May(w, f, method)
    PROVE  Sound(Ask(w, f, method))
<1>0. PICK x, y, v : /\ x = Moved(w, f, method, w.flows[f].req)
                     /\ y = Moved(w, f, method, "starting")
                     /\ v = Moved(w, f, method, "sent")
    OBVIOUS
<1>1. /\ w \in World /\ w.flows[f] \in Flow /\ w.flows \in [Slots -> Flow]
      /\ w.link \in Links /\ method \in Awaits /\ w.flows[f].req \in Promises
      /\ "starting" \in Promises /\ "sent" \in Promises
    BY Parts, MethodsAwait DEF Sound, Flow, Promises
<1>2. Sound(x) /\ Sound(v) /\ Sound(y) /\ y.link = w.link
    BY <1>0, <1>1, MovedSound
<1>3. CASE w.link.proc # "up"
    <2> DEFINE started == [w.link EXCEPT !.proc = IF @ = "none" THEN "starting" ELSE @]
               z == [y EXCEPT !.link = started]
    <2>1. Ask(w, f, method) = z
        BY ZenonT(60), <1>0, <1>1, <1>3 DEF Ask, World, Links, Flow, Moved, At, Called
    <2>2. started \in Links
        BY <1>1 DEF Links
    <2> HIDE DEF started
    <2>3. z \in World /\ z.s = y.s /\ z.flows = y.flows /\ SameFrame(y, z)
        BY <1>2, <2>2, WithLink DEF Sound
    <2>4. Sound(z)
        BY <1>2, <2>3, SameSound DEF SameAccess, SameFrame
    <2> QED
        BY <2>1, <2>4
<1>4. CASE w.link.proc = "up" /\ \E g \in Slots \ {f} : UnderWay(w.flows[g])
    <2>1. x = [w EXCEPT !.flows[f].pc = method]
        BY <1>0, <1>1 DEF World, Flow, Moved, At, Called
    <2>2. Ask(w, f, method) = Throw(x, f, "busy")
        BY <1>4, <2>1 DEF Ask
    <2> QED
        BY <1>2, <2>2, ThrowSound
<1>5. CASE w.link.proc = "up" /\ ~\E g \in Slots \ {f} : UnderWay(w.flows[g])
    <2>1. v = [w EXCEPT !.flows[f].pc = method, !.flows[f].req = "sent"]
        BY <1>0, <1>1 DEF World, Flow, Moved, At, Called
    <2>2. Ask(w, f, method) = v
        BY <1>1, <1>5, <2>1 DEF Ask, World, Flow
    <2> QED
        BY <1>2, <2>2
<1> QED
    BY <1>3, <1>4, <1>5

LEMMA AfterHealthSound ==
    ASSUME NEW w, NEW f \in Slots, NEW method \in Methods, NEW place \in {"queued", "waiting"},
           Sound(w), May(w, f, place), May(w, f, method)
    PROVE  Sound(AfterHealth(w, f, place, method))
<1>1. CASE w.s.health = None
    BY <1>1, AskSound DEF AfterHealth
<1>2. CASE w.s.health # None
    <2>0. PICK y : y = Moved(w, f, place, "none")
        OBVIOUS
    <2>1. w \in World /\ w.flows[f] \in Flow /\ w.flows \in [Slots -> Flow]
        BY Parts DEF Sound
    <2>2. AfterHealth(w, f, place, method) = y
        BY ZenonT(60), <1>2, <2>0, <2>1 DEF AfterHealth, World, Flow, Moved, At, Called
    <2>3. place \in Awaits /\ "none" \in Promises
        BY DEF Awaits, Promises
    <2> QED
        BY <2>0, <2>2, <2>3, MovedSound
<1> QED
    BY <1>1, <1>2

\* The call takes the present generation for its own: at its start, or when it has
\* had it.
LEMMA RefreshedSound ==
    ASSUME NEW w, NEW f \in Slots, Sound(w), NEW y, y = Refreshed(w, f),
           w.flows[f].fresh \/ w.flows[f].pc = "waiting"
    PROVE  /\ Sound(y) /\ y.s = w.s /\ SameFrame(w, y)
           /\ y.flows[f].kind = w.flows[f].kind /\ y.flows[f].turn = w.flows[f].turn
           /\ y.flows[f].mode = w.flows[f].mode
           /\ y.flows[f].pc = w.flows[f].pc /\ y.flows[f].req = w.flows[f].req
           /\ y.flows[f].fresh
<1>0. PICK b : b = Bumped(w, f)
    OBVIOUS
<1>1. w \in World
    BY DEF Sound
<1>2. /\ b \in World /\ b.s = w.s /\ SameFrame(w, b) /\ Dimmed(w, b)
      /\ \A g \in Slots : g # f => ~b.flows[g].fresh
    BY <1>0, <1>1, BumpedFacts
<1>3. Sound(b)
    BY <1>2, DimmedSound DEF SameAccess, SameFrame
<1>4. PICK e : e = Renewed(b.flows[f])
    OBVIOUS
<1>5. /\ e \in Flow /\ e.pc = b.flows[f].pc /\ e.req = b.flows[f].req
      /\ e.kind = b.flows[f].kind /\ e.turn = b.flows[f].turn /\ e.mode = b.flows[f].mode
      /\ e.fresh
    BY <1>2, <1>4, Parts, RenewedFacts
<1>6. y = Called(b, f, e)
    BY <1>0, <1>2, <1>4 DEF Refreshed, Renewed, Called, World
<1>7. /\ e.pc = w.flows[f].pc /\ e.req = w.flows[f].req /\ e.kind = w.flows[f].kind
      /\ e.turn = w.flows[f].turn /\ e.mode = w.flows[f].mode
    BY <1>2, <1>5 DEF Dimmed, Dimmer
<1>8. Bound(e) => Entitled(b, f, e)
    <2> SUFFICES ASSUME Bound(e) PROVE Entitled(b, f, e)
        OBVIOUS
    <2>1. w.flows[f].fresh
        BY <1>7 DEF Bound, Starting
    <2>2. Entitled(w, f, w.flows[f])
        BY <1>7, <2>1 DEF Bound, Sound, Consented
    <2> QED
        BY <1>2, <1>7, <2>2 DEF Entitled, SameFrame
<1>9. Deciding(e) => \A g \in Slots \ {f} : ~Deciding(b.flows[g])
    BY <1>2 DEF Deciding
<1>10. Nears(e) => b.overlay = "open"
    <2> SUFFICES ASSUME Nears(e) PROVE b.overlay = "open"
        OBVIOUS
    <2>1. Nears(w.flows[f])
        BY <1>7 DEF Nears
    <2> QED
        BY <1>2, <2>1 DEF Sound, Shown, SameFrame
<1>11. Returns(e) => b.s.control # None
    BY <1>2, <1>7 DEF Returns, Sound, Wanted
<1>12. Puts(b.flows[f]) => Puts(e)
    BY <1>5 DEF Puts
<1>13. Sound(y) /\ y.flows[f] = e /\ y.s = b.s /\ SameFrame(b, y)
    BY <1>3, <1>5, <1>6, <1>8, <1>9, <1>10, <1>11, <1>12, CalledSound
<1> QED
    BY <1>2, <1>5, <1>7, <1>13 DEF SameFrame

LEMMA StartControlSound ==
    ASSUME NEW w, NEW f \in Slots, Sound(w),
           w.flows[f].kind \in {"decide", "trust", "resume"},
           w.flows[f].kind = "resume" => w.s.control # None
    PROVE  Sound(StartControl(w, f))
<1> DEFINE z == [w EXCEPT !.flows[f].pc = "waiting"]
<1>0. PICK x : x = z
    OBVIOUS
<1>1. w \in World /\ w.flows[f] \in Flow /\ w.flows \in [Slots -> Flow]
    BY Parts DEF Sound
<1>2. x = Moved(w, f, "waiting", w.flows[f].req)
    BY <1>0, <1>1 DEF World, Flow, Moved, At, Called
<1>3. w.flows[f].req \in Promises /\ "waiting" \in Awaits
    BY <1>1 DEF Flow, Awaits
<1>4. May(w, f, "waiting")
    BY DEF May, Starting
<1>5. /\ Sound(x) /\ x.s = w.s
      /\ x.flows[f].kind = w.flows[f].kind /\ x.flows[f].pc = "waiting"
    BY <1>2, <1>3, <1>4, MovedSound
<1>6. PICK y : y = Refreshed(x, f)
    OBVIOUS
<1>7. /\ Sound(y) /\ y.s = x.s
      /\ y.flows[f].kind = x.flows[f].kind /\ y.flows[f].pc = "waiting"
    BY <1>5, <1>6, RefreshedSound
<1>8. CASE w.s.access = None \/ w.s.setting # "control"
    <2>1. StartControl(w, f) = Throw(x, f, "refused")
        BY <1>0, <1>8 DEF StartControl
    <2> QED
        BY <1>5, <2>1, ThrowSound
<1>9. CASE ~(w.s.access = None \/ w.s.setting # "control")
    <2>1. StartControl(w, f) = AfterHealth(y, f, "waiting", "target")
        BY <1>0, <1>6, <1>9 DEF StartControl, Refreshed
    <2>2. May(y, f, "waiting") /\ May(y, f, "target") /\ "target" \in Methods
        BY <1>5, <1>7 DEF May, Starting, Methods
    <2> QED
        BY <1>7, <2>1, <2>2, AfterHealthSound
<1> QED
    BY <1>8, <1>9

---------------------------------------------------------------------------
(* The tools and the grant                                                 *)

LEMMA FieldedParts ==
    ASSUME NEW w, Sound(w), NEW d \in Fields, NEW y, y = Fielded(w, d)
    PROVE  /\ y \in World /\ y.s = d /\ y.flows = w.flows /\ y.link = w.link /\ SameFrame(w, y)
           /\ Consented(y) /\ Shown(y) /\ Wanted(y) => Sound(y)
<1>1. w \in World
    BY DEF Sound
<1>2. y \in World /\ y.s = d /\ y.flows = w.flows /\ y.link = w.link /\ SameFrame(w, y)
    BY <1>1, WithFields DEF Fielded
<1> QED
    BY <1>2 DEF Sound

\* The fields that change are none that consent and overlay are about.
LEMMA OtherFieldsSound ==
    ASSUME NEW w, Sound(w), NEW d \in Fields, NEW y, y = Fielded(w, d),
           SameAccess(w.s, d), d.trusted = w.s.trusted
    PROVE  Sound(y) /\ y.s = d /\ y.flows = w.flows /\ y.link = w.link /\ SameFrame(w, y)
<1>1. y \in World /\ y.s = d /\ y.flows = w.flows /\ y.link = w.link /\ SameFrame(w, y)
    BY FieldedParts
<1> QED
    BY <1>1, SameSound DEF SameFrame

\* The access or the question changes: nobody's consent, and not the control.
LEMMA AccessSound ==
    ASSUME NEW w, Sound(w), NEW d \in Fields, NEW y, y = Fielded(w, d),
           d.control = w.s.control, Consented(y)
    PROVE  Sound(y) /\ y.s = d /\ y.flows = w.flows /\ y.link = w.link /\ SameFrame(w, y)
<1>1. /\ y \in World /\ y.s = d /\ y.flows = w.flows /\ y.link = w.link /\ SameFrame(w, y)
      /\ Consented(y) /\ Shown(y) /\ Wanted(y) => Sound(y)
    BY FieldedParts
<1>2. Shown(y) /\ Wanted(y)
    BY <1>1 DEF Sound, Shown, Wanted, Running, Lit, SameFrame
<1> QED
    BY <1>1, <1>2

LEMMA GrantedSound ==
    ASSUME NEW w, NEW f \in Slots, Sound(w), Deciding(w.flows[f]),
           Puts(w.flows[f]) => w.s.control # None \/ ~Lit(w)
    PROVE  Sound(Granted(w, f))
<1>0. PICK x : x = Replaced(w, {"list"})
    OBVIOUS
<1>1. /\ Sound(x) /\ Dimmed(w, x) /\ x.s = w.s /\ SameFrame(w, x)
      /\ x.flows[f].fresh <=> w.flows[f].fresh
    BY <1>0, ReplacedSound
<1>2. x \in World /\ x.s \in Fields
    BY <1>1, Parts DEF Sound
<1>3. PICK d : d = [x.s EXCEPT !.decision = None, !.listed = FALSE, !.monitor = TRUE]
    OBVIOUS
<1>4. /\ d \in Fields /\ d.access = x.s.access /\ d.control = x.s.control
      /\ d.decision = None /\ d.trusted = x.s.trusted
    BY <1>2, <1>3 DEF Fields
<1>5. PICK y : y = Fielded(x, d)
    OBVIOUS
<1>6. y \in World /\ y.s = d /\ y.flows = x.flows /\ SameFrame(x, y)
    BY <1>1, <1>4, <1>5, FieldedParts
<1>7. Granted(w, f) = Released(y, f)
    BY <1>0, <1>2, <1>3, <1>5 DEF Granted, Fielded, World
<1>8. PICK z : z = Released(y, f)
    OBVIOUS
<1>9. /\ z \in World /\ SameFrame(y, z) /\ z.flows[f] = Idle /\ EndsWith(y, f, z)
      /\ z.s.access = y.s.access /\ z.s.decision = y.s.decision
      /\ SameControl(y.s, z.s) /\ z.s.trusted = Without(y.s.trusted, {f})
    BY <1>6, <1>8, ReleasedFacts
<1>10. \A g \in Slots : z.flows[g] # x.flows[g] =>
           z.flows[g] = Idle /\ (g = f \/ x.flows[g].pc = "readiness")
    BY <1>6, <1>9 DEF EndsWith
<1>11. Deciding(x.flows[f]) /\ (Puts(x.flows[f]) => Puts(w.flows[f]))
    BY <1>1 DEF Deciding, Puts, Dimmed, Dimmer
<1>12. Consented(z)
    <2>1. z.s.access # None => z.s.access.mode \in z.consent[z.s.access.turn]
        BY <1>1, <1>4, <1>6, <1>9 DEF Sound, Consented, SameFrame
    <2>2. ASSUME NEW g \in Slots, Bound(z.flows[g]) PROVE Entitled(z, g, z.flows[g])
        <3>1. z.flows[g] = x.flows[g] /\ g # f
            BY <1>9, <1>10, <2>2, IdleTamer
        <3>2. Entitled(x, g, x.flows[g]) /\ ~Deciding(x.flows[g])
            BY <1>1, <1>11, <2>2, <3>1 DEF Sound, Consented
        <3>3. x.flows[g].kind = "trust"
            BY <2>2, <3>1, <3>2 DEF Bound, Deciding
        <3>4. z.s.trusted = g
            BY <1>4, <1>6, <1>9, <3>1, <3>2, <3>3 DEF Entitled, Without
        <3> QED
            BY <1>6, <1>9, <3>1, <3>2, <3>3, <3>4 DEF Entitled, SameFrame
    <2>3. \A g, h \in Slots : Deciding(z.flows[g]) /\ Deciding(z.flows[h]) => g = h
        <3>1. \A g \in Slots : Deciding(z.flows[g]) => Deciding(x.flows[g])
            BY <1>10, IdleFacts DEF Deciding
        <3> QED
            BY <1>1, <3>1 DEF Sound, Consented
    <2> QED
        BY <1>4, <1>6, <1>9, <2>1, <2>2, <2>3 DEF Consented
<1>13. Shown(z)
    <2>1. \A g \in Slots : Nears(z.flows[g]) => Nears(x.flows[g])
        BY <1>10, IdleFacts DEF Nears
    <2> QED
        BY <1>1, <1>4, <1>6, <1>9, <2>1 DEF Sound, Shown, Running, SameControl, SameFrame
<1>14. Wanted(z)
    <2>1. \A g \in Slots : Returns(z.flows[g]) => Returns(x.flows[g])
        BY <1>10, IdleFacts DEF Returns
    <2>2. \A g \in Slots : Puts(x.flows[g]) => Puts(z.flows[g]) \/ g = f
        BY <1>10 DEF Puts, Starting
    <2>3. /\ z.s.control = None <=> x.s.control = None
          /\ z.overlay = x.overlay
        BY <1>4, <1>6, <1>9 DEF SameControl, SameFrame
    <2>4. Puts(x.flows[f]) => x.s.control # None \/ ~Lit(x)
        BY <1>1, <1>11 DEF SameFrame, Lit
    <2> QED
        BY <1>1, <2>1, <2>2, <2>3, <2>4 DEF Sound, Wanted, Lit
<1> QED
    BY <1>7, <1>8, <1>9, <1>12, <1>13, <1>14 DEF Sound

LEMMA UseAccessSound ==
    ASSUME NEW w, NEW f \in Slots, Sound(w), w.flows[f].kind \in {"observe", "act"}
    PROVE  Sound(UseAccess(w, f))
<1> DEFINE Refuses == \/ w.s.access = None \/ w.flows[f].turn # w.s.access.turn
                      \/ w.s.control # None /\ w.s.control.state = "paused"
                      \/ w.s.busy # None \/ w.flows[f].turn \in w.s.denied
<1>1. CASE Refuses
    <2>1. UseAccess(w, f) = Released(w, f)
        BY <1>1 DEF UseAccess
    <2>2. ~Puts(w.flows[f])
        BY DEF Puts
    <2> QED
        BY <2>1, <2>2, ReleasedSound
<1>2. CASE ~Refuses
    <2>1. w \in World /\ w.s \in Fields
        BY Parts DEF Sound
    <2>2. PICK d : d = [w.s EXCEPT !.busy = f]
        OBVIOUS
    <2>3. d \in Fields /\ SameAccess(w.s, d) /\ d.trusted = w.s.trusted
        BY <2>1, <2>2 DEF Fields, SameAccess
    <2>4. PICK y : y = Fielded(w, d)
        OBVIOUS
    <2>5. Sound(y) /\ y.flows = w.flows
        BY <2>3, <2>4, OtherFieldsSound
    <2>6. UseAccess(w, f) = AfterHealth(y, f, "queued", "validate")
        BY <1>2, <2>1, <2>2, <2>4 DEF UseAccess, Fielded, World
    <2>7. May(y, f, "queued") /\ May(y, f, "validate") /\ "validate" \in Methods
        BY <2>5 DEF May, Puts, Methods
    <2> QED
        BY <2>5, <2>6, <2>7, AfterHealthSound
<1> QED
    BY <1>1, <1>2

\* Where there is neither a question nor a renewal, nobody may take access.
LEMMA NobodyBound ==
    ASSUME NEW w, Sound(w), w.s.decision = None, w.s.trusted = None
    PROVE  \A g \in Slots : ~Bound(w.flows[g])
<1> SUFFICES ASSUME NEW g \in Slots, Bound(w.flows[g]) PROVE FALSE
    OBVIOUS
<1>1. Entitled(w, g, w.flows[g]) /\ w.flows[g] \in Flow
    BY Parts DEF Sound, Consented
<1>2. [turn |-> w.flows[g].turn, mode |-> w.flows[g].mode] \in Grant
    BY <1>1 DEF Flow, Grant
<1>3. [turn |-> w.flows[g].turn, mode |-> w.flows[g].mode] # None
    BY <1>2
<1> QED
    BY <1>1, <1>3 DEF Bound, Entitled

LEMMA RequestAccessSound ==
    ASSUME NEW w, NEW f \in Slots, Sound(w), w.flows[f].kind \in {"request", "trust"},
           w.flows[f].pc \in {"idle", "readiness"}
    PROVE  Sound(RequestAccess(w, f))
<1> DEFINE fl == w.flows[f]
           has == w.s.access # None /\ w.s.access.turn = fl.turn
                  /\ (fl.mode = "observe" \/ w.s.access.mode = "control")
           renews == /\ w.s.access = None /\ fl.kind = "trust" /\ fl.mode = "control"
                     /\ w.s.target
           Refuses == fl.turn \in w.s.denied \/ w.s.trusted # None \/ w.s.decision # None \/ has
<1>1. /\ w \in World /\ w.s \in Fields /\ w.flows[f] \in Flow
      /\ w.consent \in [Turns -> SUBSET Modes]
    BY Parts DEF Sound, World
<1>2. ~Puts(fl)
    BY DEF Puts, Starting
<1>3. CASE Refuses
    <2>1. RequestAccess(w, f) = Released(w, f)
        BY <1>3 DEF RequestAccess
    <2> QED
        BY <1>2, <2>1, ReleasedSound
<1>4. ASSUME ~Refuses PROVE \A g \in Slots : ~Bound(w.flows[g])
    BY <1>4, NobodyBound
<1>5. CASE ~Refuses /\ renews
    <2>1. PICK d : d = [w.s EXCEPT !.trusted = f]
        OBVIOUS
    <2>2. d \in Fields /\ SameAccess(w.s, d) /\ d.trusted = f
        BY <1>1, <2>1 DEF Fields, SameAccess
    <2>3. PICK y : y = Fielded(w, d)
        OBVIOUS
    <2>4. y \in World /\ y.s = d /\ y.flows = w.flows /\ SameFrame(w, y)
        BY <2>2, <2>3, FieldedParts
    <2>5. PICK k : k = [y.consent EXCEPT ![fl.turn] = {"control"}]
        OBVIOUS
    <2>6. PICK z : z = [y EXCEPT !.consent = k]
        OBVIOUS
    <2>7. k \in [Turns -> SUBSET Modes] /\ k[fl.turn] = {"control"}
        BY <1>1, <2>4, <2>5 DEF Modes, Flow, SameFrame
    <2>8. z \in World /\ z.s = d /\ z.flows = w.flows /\ z.overlay = w.overlay /\ z.consent = k
        BY <2>4, <2>6, <2>7 DEF World, SameFrame
    <2>9. Consented(z)
        BY <1>4, <1>5, <2>2, <2>8 DEF Sound, Consented, SameAccess
    <2>10. Shown(z) /\ Wanted(z)
        BY <2>2, <2>8 DEF Sound, Shown, Wanted, Running, Lit, SameAccess
    <2>11. Sound(z)
        BY <2>8, <2>9, <2>10 DEF Sound
    <2>12. RequestAccess(w, f) = AfterHealth(z, f, "queued", "validate")
        BY <1>1, <1>5, <2>1, <2>3, <2>5, <2>6 DEF RequestAccess, Fielded, World
    <2>13. Entitled(z, f, z.flows[f])
        BY <1>5, <2>2, <2>7, <2>8 DEF Entitled
    <2>14. May(z, f, "queued") /\ May(z, f, "validate") /\ "validate" \in Methods
        BY <1>2, <1>5, <2>8, <2>13 DEF May, Methods
    <2> QED
        BY <2>11, <2>12, <2>14, AfterHealthSound
<1>6. CASE ~Refuses /\ ~renews
    <2>1. PICK r : r = Replaced(w, {"resume"})
        OBVIOUS
    <2>2. Sound(r) /\ Dimmed(w, r) /\ r.s = w.s /\ SameFrame(w, r)
        BY <2>1, ReplacedSound
    <2>3. PICK p : p = Framed(r, FALSE)
        OBVIOUS
    <2>4. /\ Sound(p) /\ Dimmed(r, p) /\ SameAccess(r.s, p.s) /\ SameFrame(r, p)
          /\ p.s.trusted = r.s.trusted
        BY <2>2, <2>3, FramedSound
    <2>5. PICK x : x = IF w.s.access = None THEN w ELSE p
        OBVIOUS
    <2>6. Sound(x) /\ Dimmed(w, x) /\ x.s.trusted = w.s.trusted /\ x.s.decision = w.s.decision
        <3>1. CASE w.s.access = None
            BY <2>5, <3>1 DEF Dimmed, Dimmer
        <3>2. CASE w.s.access # None
            BY <2>2, <2>4, <2>5, <3>2 DEF Dimmed, Dimmer, SameAccess
        <3> QED
            BY <3>1, <3>2
    <2>7. PICK d : d = [x.s EXCEPT !.access = None,
                                   !.decision = [turn |-> fl.turn, mode |-> fl.mode]]
        OBVIOUS
    <2>8. x \in World /\ x.s \in Fields
        BY <2>6, Parts DEF Sound
    <2>9. [turn |-> fl.turn, mode |-> fl.mode] \in Grant
        BY <1>1 DEF Flow, Grant
    <2>10. d \in Fields /\ d.access = None /\ d.control = x.s.control /\ d.trusted = x.s.trusted
        BY <2>7, <2>8, <2>9 DEF Fields
    <2>11. PICK y : y = Fielded(x, d)
        OBVIOUS
    <2>12. y.s = d /\ y.flows = x.flows
        BY <2>6, <2>10, <2>11, FieldedParts
    <2>13. \A g \in Slots : ~Bound(x.flows[g])
        BY <1>6, <2>6, NobodyBound
    <2>14. Consented(y)
        BY <1>6, <2>6, <2>10, <2>12, <2>13 DEF Sound, Consented
    <2>15. Sound(y)
        BY <2>6, <2>10, <2>11, <2>14, AccessSound
    <2>16. RequestAccess(w, f) = Released(y, f)
        BY <1>6, <2>1, <2>3, <2>5, <2>7, <2>8, <2>11 DEF RequestAccess, Fielded, World
    <2>17. ~Puts(y.flows[f])
        BY <1>2, <2>6, <2>12, DimmerTamer DEF Dimmed
    <2> QED
        BY <2>15, <2>16, <2>17, ReleasedSound
<1> QED
    BY <1>3, <1>5, <1>6

\* A control is published only with the overlay on the screen.
LEMMA ControlledSound ==
    ASSUME NEW w, NEW f \in Slots, Sound(w), w.flows[f].pc = "start", w.flows[f].fresh,
           w.flows[f].kind \in {"decide", "trust", "resume"}, w.s.access # None,
           w.flows[f].kind = "resume" => w.s.control # None, NEW running \in BOOLEAN,
           running => w.s.early # "paused"
    PROVE  Sound(Controlled(w, f, running))
<1> DEFINE goes == w.flows[f].kind = "resume" /\ running
<1>1. /\ w \in World /\ w.s \in Fields /\ w.flows[f] \in Flow /\ w.s.access.turn \in Turns
    BY Parts DEF Sound, Fields, Grant
<1>2. PICK control : control = [turn |-> w.s.access.turn,
                                state |-> IF running THEN "running" ELSE "paused",
                                resuming |-> FALSE]
    OBVIOUS
<1>3. control \in Control /\ control # None
    <2>1. PICK state : state = IF running THEN "running" ELSE "paused"
        OBVIOUS
    <2>2. control = [turn |-> w.s.access.turn, state |-> state, resuming |-> FALSE]
          /\ state \in {"running", "paused"}
        BY <1>2, <2>1
    <2>3. control \in Control
        BY <1>1, <2>2 DEF Control
    <2> QED
        BY <2>3
<1>4. PICK c : c = IF goes THEN w.s.control ELSE control
    OBVIOUS
<1>5. PICK d : d = [w.s EXCEPT !.early = "none", !.beat = TRUE, !.control = c]
    OBVIOUS
<1>6. c \in Control \cup {None} /\ c # None
    BY <1>1, <1>3, <1>4 DEF Fields
<1>7. /\ d \in Fields /\ d.access = w.s.access /\ d.decision = w.s.decision /\ d.control = c
      /\ d.trusted = w.s.trusted
    BY <1>1, <1>5, <1>6 DEF Fields
<1>8. PICK x : x = Fielded(w, d)
    OBVIOUS
<1>9. /\ x \in World /\ x.s = d /\ x.flows = w.flows /\ SameFrame(w, x)
      /\ Consented(x) /\ Shown(x) /\ Wanted(x) => Sound(x)
    BY <1>7, <1>8, FieldedParts
<1>10. w.overlay = "open"
    BY DEF Sound, Shown, Nears
<1>11. Consented(x)
    BY <1>7, <1>9 DEF Sound, Consented, Entitled, SameFrame
<1>12. Sound(x) /\ x.overlay = "open"
    BY <1>6, <1>7, <1>9, <1>10, <1>11 DEF Shown, Wanted, SameFrame
<1>13. PICK u : u = Refreshed(x, f)
    OBVIOUS
<1>14. /\ Sound(u) /\ u.s = x.s /\ u.flows[f].kind = x.flows[f].kind /\ u.flows[f].fresh
    BY <1>9, <1>12, <1>13, RefreshedSound
<1>15. PICK y : y = IF w.s.early = "paused" THEN u ELSE x
    OBVIOUS
<1>16. /\ Sound(y) /\ y.s = d /\ y.flows[f].kind = w.flows[f].kind /\ y.flows[f].fresh
    BY <1>9, <1>12, <1>14, <1>15
<1>17. x = [w EXCEPT !.s.early = "none", !.s.beat = TRUE,
                     !.s.control = IF w.flows[f].kind = "resume" /\ running THEN @ ELSE control]
    BY <1>1, <1>4, <1>5, <1>8 DEF Fielded, World, Fields
<1>18. Controlled(w, f, running) =
           IF w.flows[f].kind = "decide" THEN Granted(y, f)
           ELSE IF w.flows[f].kind = "resume" /\ running
           THEN Ask([y EXCEPT !.flows[f].req = "none"], f, "observe")
           ELSE Released(y, f)
    <2> DEFINE fl == w.flows[f]
               control0 == [turn |-> w.s.access.turn,
                            state |-> IF running THEN "running" ELSE "paused",
                            resuming |-> FALSE]
               x0 == [w EXCEPT !.s.early = "none", !.s.beat = TRUE,
                               !.s.control = IF fl.kind = "resume" /\ running THEN @
                                             ELSE control0]
               y0 == IF w.s.early = "paused"
                     THEN [Bumped(x0, f) EXCEPT !.flows[f].fresh = TRUE] ELSE x0
    <2>1. Controlled(w, f, running) =
              IF fl.kind = "decide" THEN Granted(y0, f)
              ELSE IF fl.kind = "resume" /\ running
              THEN Ask([y0 EXCEPT !.flows[f].req = "none"], f, "observe")
              ELSE Released(y0, f)
        BY Zenon DEF Controlled
    <2>2. x0 = x
        BY <1>2, <1>17
    <2> HIDE DEF x0
    <2>3. y0 = y
        BY <1>13, <1>15, <2>2 DEF Refreshed
    <2> HIDE DEF y0
    <2> QED
        BY <2>1, <2>3
<1>19. Sound(Released(y, f))
    BY <1>6, <1>7, <1>16, ReleasedSound
<1>20. w.flows[f].kind = "decide" => Sound(Granted(y, f))
    BY <1>6, <1>7, <1>16, GrantedSound DEF Deciding
<1>21. ASSUME goes PROVE Sound(Ask([y EXCEPT !.flows[f].req = "none"], f, "observe"))
    <2>1. y = x
        BY <1>15, <1>21
    <2>2. PICK q : q = Moved(x, f, "start", "none")
        OBVIOUS
    <2>3. "start" \in Awaits /\ "none" \in Promises /\ "observe" \in Methods
        BY DEF Awaits, Promises, Methods
    <2>4. May(x, f, "start")
        BY <1>9, <1>12, <1>21 DEF May, Puts
    <2>5. /\ Sound(q) /\ q.s = x.s /\ SameFrame(x, q) /\ q.flows[f].kind = "resume"
        BY <1>9, <1>12, <1>21, <2>2, <2>3, <2>4, MovedSound
    <2>6. q = [x EXCEPT !.flows[f].req = "none"]
        <3>1. /\ x \in World /\ x.flows \in [Slots -> Flow] /\ x.flows[f] \in Flow
              /\ x.flows[f].pc = "start"
            BY <1>9, Parts
        <3> QED
            BY <2>2, <3>1 DEF World, Flow, Moved, At, Called
    <2>7. May(q, f, "observe")
        BY <1>12, <2>5 DEF May, Puts, SameFrame
    <2>8. Sound(Ask(q, f, "observe"))
        BY <2>3, <2>5, <2>7, AskSound
    <2> QED
        BY <2>1, <2>6, <2>8
<1> QED
    BY <1>18, <1>19, <1>20, <1>21

---------------------------------------------------------------------------
(* The reactions                                                           *)

SInv == Sound(Now)

LEMMA NowIsSound ==
    ASSUME IInv, SInv
    PROVE  \E n, t : IsNow(n, t) /\ Good(n, None, t) /\ t \in 1..MaxTurns + 1 /\ Sound(n)
<1>1. PICK n, t : IsNow(n, t) /\ Good(n, None, t) /\ t \in 1..MaxTurns + 1
    BY NowIs
<1>2. Sound(n)
    BY <1>1 DEF SInv, IsNow
<1> QED
    BY <1>1, <1>2

LEMMA SetSound ==
    ASSUME NEW w, Set(w), Sound(w) PROVE SInv'
<1>1. w \in World
    BY DEF Sound
<1>2. Now' = w
    BY <1>1 DEF Set, Now, World
<1> QED
    BY <1>2 DEF SInv

\* A call may ask where it is, but for the overlay.
LEMMA MayStay ==
    ASSUME NEW w, NEW f \in Slots, Sound(w), w.flows[f].pc # "overlay"
    PROVE  May(w, f, w.flows[f].pc)
BY DEF Sound, Consented, Shown, Wanted, May, Bound, Nears, Returns, Puts

LEMMA AdmittedSound ==
    ASSUME IInv, SInv, NEW f \in Slots, Admitted(f) PROVE SInv'
<1>1. PICK n, t : IsNow(n, t) /\ Good(n, None, t) /\ t \in 1..MaxTurns + 1 /\ Sound(n)
    BY NowIsSound
<1>2. /\ n \in World /\ n.flows[f] \in Flow /\ n.flows \in [Slots -> Flow]
      /\ n.flows[f].pc \in Places[n.flows[f].kind] /\ n.flows[f].pc = "readiness"
    BY <1>1, Parts DEF Good, Placed, Admitted, IsNow
<1>3. n.flows[f].kind \in {"request", "trust", "act"}
    BY <1>2, KindsOfPlaces
<1>4. PICK x : x = Moved(n, f, "readiness", "none")
    OBVIOUS
<1>5. x = [Now EXCEPT !.flows[f].req = "none"]
    BY ZenonT(60), <1>1, <1>2, <1>4 DEF World, Flow, Moved, At, Called, IsNow
<1>6. "readiness" \in Awaits /\ "none" \in Promises
    BY DEF Awaits, Promises
<1>7. Sound(x) /\ x.flows[f].pc = "readiness" /\ x.flows[f].kind = n.flows[f].kind
    BY <1>1, <1>2, <1>4, <1>6, MayStay, MovedSound
<1>8. PICK y : y = IF ~n.flows[f].fresh THEN Released(x, f)
                   ELSE IF n.flows[f].kind = "act" THEN UseAccess(x, f)
                   ELSE RequestAccess(x, f)
    OBVIOUS
<1>9. Set(y)
    BY <1>1, <1>5, <1>8 DEF Admitted, IsNow
<1>10. ~Puts(x.flows[f])
    BY <1>7 DEF Puts, Starting
<1>11. Sound(Released(x, f))
    BY <1>7, <1>10, ReleasedSound
<1>12. n.flows[f].kind = "act" => Sound(UseAccess(x, f))
    BY <1>7, UseAccessSound
<1>13. n.flows[f].kind # "act" => Sound(RequestAccess(x, f))
    BY <1>3, <1>7, RequestAccessSound
<1> QED
    BY <1>8, <1>9, <1>11, <1>12, <1>13, SetSound

LEMMA HealthOverSound ==
    ASSUME IInv, SInv, NEW f \in Slots, HealthOver(f) PROVE SInv'
<1>1. PICK n, t : IsNow(n, t) /\ Good(n, None, t) /\ t \in 1..MaxTurns + 1 /\ Sound(n)
    BY NowIsSound
<1>2. /\ n \in World /\ n.flows[f] \in Flow
      /\ n.flows[f].pc \in Places[n.flows[f].kind]
      /\ n.flows[f].pc \in {"queued", "waiting"}
    BY <1>1, Parts DEF Good, Placed, HealthOver, IsNow
<1>3. PICK m : m = Request(n.flows[f])
    OBVIOUS
<1>4. PICK y : y = IF n.flows[f].pc = "queued" /\ n.flows[f].kind # "trust"
                      /\ ~Stands(n.flows[f])
                   THEN Throw(n, f, "cancelled") ELSE Ask(n, f, m)
    OBVIOUS
<1>5. Set(y)
    BY <1>1, <1>3, <1>4 DEF HealthOver, IsNow
<1>6. m \in Methods /\ May(n, f, m)
    <2>1. May(n, f, n.flows[f].pc)
        BY <1>1, <1>2, MayStay
    <2>2. CASE n.flows[f].pc = "waiting"
        <3>1. m = "target"
            BY <1>3, <2>2 DEF Request
        <3> QED
            BY <2>1, <2>2, <3>1 DEF May, Methods, Starting
    <2>3. CASE n.flows[f].pc = "queued"
        <3>1. n.flows[f].kind \in {"hello", "list", "decide", "trust", "observe", "act"}
            BY <1>2, <2>3, KindsOfPlaces
        <3>2. m = IF n.flows[f].kind \in {"hello", "list"} THEN n.flows[f].kind
                  ELSE IF n.flows[f].kind = "decide" THEN "select" ELSE "validate"
            BY <1>3, <2>3 DEF Request
        <3>3. m \in Methods /\ m \notin {"overlay", "start"}
            BY <3>1, <3>2 DEF Methods
        <3> QED
            BY <2>1, <2>3, <3>1, <3>3 DEF May, Puts, Starting
    <2> QED
        BY <1>2, <2>2, <2>3
<1>7. Sound(Throw(n, f, "cancelled")) /\ Sound(Ask(n, f, m))
    BY <1>1, <1>6, ThrowSound, AskSound
<1> QED
    BY <1>4, <1>5, <1>7, SetSound

LEMMA LinkedSound ==
    ASSUME IInv, SInv, NEW f \in Slots, Linked(f) PROVE SInv'
<1>1. PICK n, t : IsNow(n, t) /\ Good(n, None, t) /\ t \in 1..MaxTurns + 1 /\ Sound(n)
    BY NowIsSound
<1>2. /\ n \in World /\ n.flows[f] \in Flow /\ Waits(n.flows[f])
      /\ n.flows[f].pc \notin {"readiness", "overlay"} /\ n.flows[f].req \in {"kept", "broken"}
    BY <1>1, Parts DEF Good, Placed, Linked, IsNow
<1>3. n.flows[f].pc \in Methods
    BY <1>2 DEF Waits, Flow, Awaits, Methods
<1>4. PICK y : y = IF n.flows[f].req = "kept" THEN Ask(n, f, n.flows[f].pc)
                   ELSE Throw(n, f, "cancelled")
    OBVIOUS
<1>5. Set(y)
    BY <1>1, <1>4 DEF Linked, IsNow
<1>6. Sound(Throw(n, f, "cancelled")) /\ Sound(Ask(n, f, n.flows[f].pc))
    BY <1>1, <1>2, <1>3, MayStay, ThrowSound, AskSound
<1> QED
    BY <1>4, <1>5, <1>6, SetSound

LEMMA PreparedSound ==
    ASSUME IInv, SInv, NEW f \in Slots, Prepared(f) PROVE SInv'
<1>1. PICK n, t : IsNow(n, t) /\ Good(n, None, t) /\ t \in 1..MaxTurns + 1 /\ Sound(n)
    BY NowIsSound
<1>2. /\ n \in World /\ n.s \in Fields /\ n.flows[f].pc = "overlay"
      /\ n.flows[f].req \in {"kept", "broken"}
    BY <1>1, Parts DEF Good, Prepared, IsNow
<1>3. PICK d : d = [n.s EXCEPT !.early = "open"]
    OBVIOUS
<1>4. d \in Fields /\ SameAccess(n.s, d) /\ d.trusted = n.s.trusted
    BY <1>2, <1>3 DEF Fields, SameAccess
<1>5. PICK w : w = Fielded(n, d)
    OBVIOUS
<1>6. Sound(w) /\ w.flows = n.flows /\ SameFrame(n, w)
    BY <1>1, <1>4, <1>5, OtherFieldsSound
<1>7. w = [Now EXCEPT !.s.early = "open"]
    BY <1>1, <1>2, <1>3, <1>5 DEF IsNow, Fielded, World, Fields
<1>8. PICK y : y = IF n.flows[f].req = "broken" THEN Throw(n, f, "refused")
                   ELSE IF ~n.flows[f].fresh \/ n.s.access = None THEN Throw(n, f, "cancelled")
                   ELSE Ask(w, f, "start")
    OBVIOUS
<1>9. Set(y)
    BY <1>1, <1>7, <1>8, Zenon DEF Prepared, IsNow
<1>10. Sound(Throw(n, f, "refused")) /\ Sound(Throw(n, f, "cancelled"))
    BY <1>1, ThrowSound
<1>11. ASSUME n.flows[f].req # "broken", n.flows[f].fresh PROVE Sound(Ask(w, f, "start"))
    <2>1. w.overlay = "open"
        BY <1>1, <1>2, <1>6, <1>11 DEF Sound, Shown, Nears, SameFrame
    <2>2. May(w, f, "start") /\ "start" \in Methods
        BY <2>1 DEF May, Starting, Methods
    <2> QED
        BY <1>6, <2>2, AskSound
<1> QED
    BY <1>8, <1>9, <1>10, <1>11, SetSound

---------------------------------------------------------------------------
(* Calls that begin                                                        *)

\* A call begins that may take no access.
LEMMA BeginSound ==
    ASSUME NEW w, NEW f \in Slots, Sound(w), w.flows[f].kind = "none",
           NEW e \in Flow, ~Bound(e), ~Deciding(e), ~Nears(e), ~Returns(e),
           NEW y, y = Called(w, f, e)
    PROVE  /\ Sound(y) /\ y.flows[f] = e /\ \A g \in Slots : g # f => y.flows[g] = w.flows[g]
           /\ y.s = w.s /\ y.link = w.link /\ SameFrame(w, y)
<1>1. ~Puts(w.flows[f])
    BY DEF Puts
<1> QED
    BY <1>1, CalledSound

LEMMA CheckSound ==
    ASSUME NEW w, NEW f \in Slots, NEW g \in Slots, Sound(w), f # g,
           w.flows[f].kind = "none", w.flows[g].kind = "none",
           NEW call \in Flow, call.kind \in {"request", "trust", "act"}
    PROVE  Sound(Check(w, f, g, call))
<1>1. w \in World /\ w.flows \in [Slots -> Flow]
    BY Parts DEF Sound
<1>2. PICK e : e = At(call, "readiness", call.req)
    OBVIOUS
<1>3. "readiness" \in Awaits /\ call.req \in Promises
    BY DEF Awaits, Flow
<1>4. e \in Flow /\ e.pc = "readiness" /\ e.kind = call.kind
    BY <1>2, <1>3, MovedFacts
<1>5. ~Bound(e) /\ ~Deciding(e) /\ ~Nears(e) /\ ~Returns(e)
    BY <1>4 DEF Bound, Deciding, Nears, Returns
<1>6. PICK x : x = Called(w, f, e)
    OBVIOUS
<1>7. Sound(x) /\ x.s = w.s /\ \A h \in Slots : h # f => x.flows[h] = w.flows[h]
    BY <1>4, <1>5, <1>6, BeginSound
<1>8. x = [w EXCEPT !.flows[f] = [call EXCEPT !.pc = "readiness"]]
    BY <1>1, <1>2, <1>6 DEF World, Flow, Called, At
<1>9. CASE w.s.flight # None
    BY <1>7, <1>8, <1>9 DEF Check
<1>10. CASE w.s.flight = None
    <2>1. PICK a : a = Call("hello", call.turn, call.mode)
        OBVIOUS
    <2>2. call.turn \in Turns /\ call.mode \in Modes /\ "hello" \in Kinds
        BY DEF Flow, Kinds
    <2>3. a \in Flow /\ a.kind = "hello" /\ a.pc = "idle"
        BY <2>1, <2>2, CallFacts
    <2>4. ~Bound(a) /\ ~Deciding(a) /\ ~Nears(a) /\ ~Returns(a)
        BY <2>3 DEF Bound, Deciding, Nears, Returns
    <2>5. PICK u : u = Called(x, g, a)
        OBVIOUS
    <2>6. Sound(u) /\ u.flows[g] = a /\ u.s = x.s
        BY <1>7, <2>3, <2>4, <2>5, BeginSound
    <2>7. PICK d : d = [u.s EXCEPT !.flight = g]
        OBVIOUS
    <2>8. u.s \in Fields /\ x \in World /\ u \in World
        BY <1>7, <2>6, Parts DEF Sound
    <2>9. d \in Fields /\ SameAccess(u.s, d) /\ d.trusted = u.s.trusted
        BY <2>7, <2>8 DEF Fields, SameAccess
    <2>10. PICK y : y = Fielded(u, d)
        OBVIOUS
    <2>11. Sound(y) /\ y.flows = u.flows
        BY <2>6, <2>9, <2>10, OtherFieldsSound
    <2>12. y = [x EXCEPT !.flows[g] = Call("hello", call.turn, call.mode), !.s.flight = g]
        BY <2>1, <2>5, <2>6, <2>7, <2>8, <2>10 DEF Called, Fielded, World
    <2>13. Check(w, f, g, call) = AfterHealth(y, g, "queued", "hello")
        BY <1>8, <1>10, <2>12, Zenon DEF Check
    <2>14. May(y, g, "queued") /\ May(y, g, "hello") /\ "hello" \in Methods
        BY <2>3, <2>6, <2>11 DEF May, Puts, Methods
    <2> QED
        BY <2>11, <2>13, <2>14, AfterHealthSound
<1> QED
    BY <1>9, <1>10

LEMMA ExecuteSound ==
    ASSUME IInv, SInv, NEW f \in Slots, NEW g \in Slots,
           NEW kind \in {"request", "trust", "act"}, NEW latest \in BOOLEAN,
           Execute(f, g, kind, latest)
    PROVE  SInv'
<1>1. PICK n, t : IsNow(n, t) /\ Good(n, None, t) /\ t \in 1..MaxTurns + 1 /\ Sound(n)
    BY NowIsSound
<1>2. n.flows[f].kind = "none" /\ n.flows[g].kind = "none" /\ f # g /\ t \in Turns
    BY <1>1 DEF Execute, Free, IsNow
<1>3. PICK e : e = Call(kind, t, "control")
    OBVIOUS
<1>4. kind \in Kinds /\ "control" \in Modes
    BY DEF Kinds, Modes
<1>5. e \in Flow /\ e.kind = kind
    BY <1>2, <1>3, <1>4, CallFacts
<1>6. PICK c : c = [e EXCEPT !.latest = latest]
    OBVIOUS
<1>7. c \in Flow /\ c.kind = kind
    BY <1>5, <1>6 DEF Flow
<1>8. PICK y : y = Check(n, f, g, c)
    OBVIOUS
<1>9. Set(y)
    BY <1>1, <1>3, <1>6, <1>8 DEF Execute, IsNow
<1>10. Sound(y)
    BY <1>1, <1>2, <1>7, <1>8, CheckSound
<1> QED
    BY <1>9, <1>10, SetSound

LEMMA ObserveSound ==
    ASSUME IInv, SInv, NEW f \in Slots, NEW kind \in {"request", "observe"}, Observe(f, kind)
    PROVE  SInv'
<1>1. PICK n, t : IsNow(n, t) /\ Good(n, None, t) /\ t \in 1..MaxTurns + 1 /\ Sound(n)
    BY NowIsSound
<1>2. n.flows[f].kind = "none" /\ t \in Turns
    BY <1>1 DEF Observe, Free, IsNow
<1>3. PICK e : e = Call(kind, t, "observe")
    OBVIOUS
<1>4. kind \in Kinds /\ "observe" \in Modes
    BY DEF Kinds, Modes
<1>5. e \in Flow /\ e.kind = kind /\ e.pc = "idle"
    BY <1>2, <1>3, <1>4, CallFacts
<1>6. ~Bound(e) /\ ~Deciding(e) /\ ~Nears(e) /\ ~Returns(e)
    BY <1>5 DEF Bound, Deciding, Nears, Returns
<1>7. PICK x : x = Called(n, f, e)
    OBVIOUS
<1>8. Sound(x) /\ x.flows[f] = e
    BY <1>1, <1>2, <1>5, <1>6, <1>7, BeginSound
<1>9. x = [Now EXCEPT !.flows[f] = Call(kind, turn, "observe")]
    BY <1>1, <1>3, <1>7 DEF IsNow, Called, Good, World
<1>10. PICK y : y = IF kind = "request" THEN RequestAccess(x, f) ELSE UseAccess(x, f)
    OBVIOUS
<1>11. Set(y)
    BY <1>9, <1>10 DEF Observe
<1>12. Sound(y)
    BY <1>5, <1>8, <1>10, RequestAccessSound, UseAccessSound
<1> QED
    BY <1>11, <1>12, SetSound

LEMMA ListSound ==
    ASSUME IInv, SInv, NEW f \in Slots, List(f) PROVE SInv'
<1>1. PICK n, t : IsNow(n, t) /\ Good(n, None, t) /\ t \in 1..MaxTurns + 1 /\ Sound(n)
    BY NowIsSound
<1>2. n.flows[f].kind = "none" /\ n.s.decision # None /\ n.s \in Fields
    BY <1>1, Parts DEF List, Free, IsNow, Good
<1>3. n.s.decision.turn \in Turns /\ n.s.decision.mode \in Modes
    BY <1>2 DEF Fields, Grant
<1>4. PICK e : e = Call("list", n.s.decision.turn, n.s.decision.mode)
    OBVIOUS
<1>5. e \in Flow /\ e.kind = "list" /\ e.pc = "idle"
    BY <1>3, <1>4, CallFacts DEF Kinds
<1>6. ~Bound(e) /\ ~Deciding(e) /\ ~Nears(e) /\ ~Returns(e)
    BY <1>5 DEF Bound, Deciding, Nears, Returns
<1>7. PICK x : x = Called(n, f, e)
    OBVIOUS
<1>8. Sound(x) /\ x.flows[f] = e
    BY <1>1, <1>2, <1>5, <1>6, <1>7, BeginSound
<1>9. PICK y : y = AfterHealth(x, f, "queued", "list")
    OBVIOUS
<1>10. Set(y)
    <2>1. x = [Now EXCEPT !.flows[f] = Call("list", s.decision.turn, s.decision.mode)]
        BY <1>1, <1>4, <1>7 DEF IsNow, Called, Good, World
    <2> QED
        BY <1>9, <2>1 DEF List
<1>11. May(x, f, "queued") /\ May(x, f, "list") /\ "list" \in Methods
    BY <1>5, <1>8 DEF May, Puts, Methods
<1>12. Sound(y)
    BY <1>8, <1>9, <1>11, AfterHealthSound
<1> QED
    BY <1>10, <1>12, SetSound

\* The consent is that of the question; nobody else may take anything.
LEMMA DecideSound ==
    ASSUME IInv, SInv, NEW f \in Slots, Decide(f) PROVE SInv'
<1>1. PICK n, t : IsNow(n, t) /\ Good(n, None, t) /\ t \in 1..MaxTurns + 1 /\ Sound(n)
    BY NowIsSound
<1>2. /\ n \in World /\ n.flows[f].kind = "none" /\ n.s.decision # None /\ n.s \in Fields
      /\ n.consent \in [Turns -> SUBSET Modes]
      /\ \A g \in Slots : ~Deciding(n.flows[g])
    BY <1>1, Parts DEF Decide, Free, IsNow, Good, World, Deciding
<1>3. PICK u, m : u = n.s.decision.turn /\ m = n.s.decision.mode
    OBVIOUS
<1>4. u \in Turns /\ m \in Modes /\ n.s.decision = [turn |-> u, mode |-> m]
    BY <1>2, <1>3 DEF Fields, Grant
<1>5. PICK e : e = Call("decide", u, m)
    OBVIOUS
<1>6. e \in Flow /\ e.kind = "decide" /\ e.pc = "idle" /\ e.turn = u /\ e.mode = m
    BY <1>4, <1>5, CallFacts DEF Kinds
<1>7. PICK k : k = [n.consent EXCEPT ![u] = {m}]
    OBVIOUS
<1>8. k \in [Turns -> SUBSET Modes] /\ k[u] = {m}
    BY <1>2, <1>4, <1>7
<1>9. PICK w : w = [n EXCEPT !.consent = k]
    OBVIOUS
<1>10. w \in World /\ w.s = n.s /\ w.flows = n.flows /\ w.overlay = n.overlay /\ w.consent = k
    BY <1>2, <1>8, <1>9 DEF World
<1>11. ASSUME NEW g \in Slots PROVE ~Bound(n.flows[g])
    <2>1. SUFFICES ASSUME Bound(n.flows[g]) PROVE FALSE
        OBVIOUS
    <2>2. Entitled(n, g, n.flows[g]) /\ n.flows[g].kind = "trust"
        BY <1>1, <1>2, <2>1 DEF Sound, Consented, Bound, Deciding
    <2>3. n.s.trusted # None
        BY <2>2 DEF Entitled
    <2> QED
        BY <1>1, <1>2, <2>3 DEF Sound, Consented
<1>12. Sound(w)
    <2>1. n.s.access # None => n.s.access.turn = u /\ n.s.access.mode = m
        BY <1>1, <1>2, <1>3 DEF Sound, Consented
    <2>2. Consented(w)
        BY <1>1, <1>8, <1>10, <1>11, <2>1 DEF Sound, Consented
    <2>3. Shown(w) /\ Wanted(w)
        BY <1>1, <1>10 DEF Sound, Shown, Wanted, Running, Lit
    <2> QED
        BY <1>10, <2>2, <2>3 DEF Sound
<1>13. Entitled(w, f, e)
    BY <1>4, <1>6, <1>8, <1>10 DEF Entitled
<1>14. ~Nears(e) /\ ~Returns(e) /\ ~Puts(w.flows[f])
    BY <1>2, <1>6, <1>10 DEF Nears, Returns, Puts
<1>15. PICK z : z = Called(w, f, e)
    OBVIOUS
<1>16. Sound(z) /\ z.flows[f] = e /\ z.s = w.s /\ SameFrame(w, z)
    BY <1>2, <1>6, <1>10, <1>12, <1>13, <1>14, <1>15, CalledSound
<1>17. PICK y : y = AfterHealth(z, f, "queued", "select")
    OBVIOUS
<1>18. Set(y)
    <2>1. z = [Now EXCEPT !.flows[f] = Call("decide", s.decision.turn, s.decision.mode),
                          !.consent[s.decision.turn] = {s.decision.mode}]
        BY <1>1, <1>2, <1>3, <1>5, <1>7, <1>9, <1>15 DEF IsNow, Called, World
    <2> QED
        BY <1>17, <2>1 DEF Decide
<1>19. May(z, f, "queued") /\ May(z, f, "select") /\ "select" \in Methods
    <2>1. Entitled(z, f, e)
        BY <1>13, <1>16 DEF Entitled, SameFrame
    <2>2. ~Puts(e)
        BY <1>6 DEF Puts, Starting
    <2> QED
        BY <1>6, <1>16, <2>1, <2>2 DEF May, Methods
<1>20. Sound(y)
    BY <1>16, <1>17, <1>19, AfterHealthSound
<1> QED
    BY <1>18, <1>20, SetSound

LEMMA ResumeSound ==
    ASSUME IInv, SInv, NEW f \in Slots, Resume(f) PROVE SInv'
<1>1. PICK n, t : IsNow(n, t) /\ Good(n, None, t) /\ t \in 1..MaxTurns + 1 /\ Sound(n)
    BY NowIsSound
<1>2. /\ n.flows[f].kind = "none" /\ n.s.control # None /\ n.s.control.state = "paused"
      /\ n.s.access # None /\ n.s \in Fields
    BY <1>1, Parts DEF Resume, Free, IsNow, Good
<1>3. PICK p : p = Framed(n, FALSE)
    OBVIOUS
<1>4. Sound(p) /\ Dimmed(n, p) /\ SameAccess(n.s, p.s)
    BY <1>1, <1>3, FramedSound
<1>5. /\ n.s.access.turn \in Turns /\ p.flows[f].kind = "none" /\ p \in World /\ p.s \in Fields
    BY <1>2, <1>4, Parts DEF Fields, Grant, Dimmed, Dimmer, Sound
<1>6. PICK a : a = Call("resume", n.s.access.turn, "control")
    OBVIOUS
<1>7. a \in Flow /\ a.kind = "resume" /\ a.pc = "idle"
    BY <1>5, <1>6, CallFacts DEF Kinds, Modes
<1>8. PICK e : e = [a EXCEPT !.fresh = FALSE]
    OBVIOUS
<1>9. e \in Flow /\ e.kind = "resume" /\ e.pc = "idle" /\ ~e.fresh
    BY <1>7, <1>8 DEF Flow
<1>10. ~Bound(e) /\ ~Deciding(e) /\ ~Nears(e) /\ ~Returns(e)
    BY <1>9 DEF Bound, Deciding, Nears, Returns
<1>11. PICK u : u = Called(p, f, e)
    OBVIOUS
<1>12. Sound(u) /\ u.flows[f] = e /\ u.s = p.s
    BY <1>4, <1>5, <1>9, <1>10, <1>11, BeginSound
<1>13. PICK c : c = [p.s.control EXCEPT !.resuming = TRUE]
    OBVIOUS
<1>14. c \in Control /\ c.state = "paused" /\ c # None
    BY <1>2, <1>4, <1>5, <1>13 DEF Control, Fields, SameAccess
<1>15. PICK d : d = [p.s EXCEPT !.busy = f, !.resuming = f, !.control = c]
    OBVIOUS
<1>16. /\ d \in Fields /\ d.access = p.s.access /\ d.decision = p.s.decision
       /\ d.trusted = p.s.trusted /\ d.control = c
    BY <1>5, <1>14, <1>15 DEF Fields
<1>17. PICK x : x = Fielded(u, d)
    OBVIOUS
<1>18. /\ x \in World /\ x.s = d /\ x.flows = u.flows /\ SameFrame(u, x)
       /\ Consented(x) /\ Shown(x) /\ Wanted(x) => Sound(x)
    BY <1>12, <1>16, <1>17, FieldedParts
<1>19. Consented(x)
    BY <1>12, <1>16, <1>18 DEF Sound, Consented, Entitled, SameFrame
<1>20. Shown(x) /\ Wanted(x)
    BY <1>12, <1>14, <1>16, <1>18 DEF Sound, Shown, Wanted, Running, SameFrame
<1>21. PICK y : y = StartControl(x, f)
    OBVIOUS
<1>22. Set(y)
    <2>1. u \in World
        BY <1>12 DEF Sound
    <2>2. x = [p EXCEPT !.s = d, !.flows = u.flows]
        BY <1>5, <1>11, <1>17, <2>1 DEF Called, Fielded, World
    <2>3. u.flows = [p.flows EXCEPT ![f] = e]
        BY <1>5, <1>11 DEF Called, World
    <2>4. x = [p EXCEPT !.s.busy = f, !.s.resuming = f, !.s.control.resuming = TRUE,
                        !.flows[f] = e]
        BY <1>5, <1>13, <1>15, <2>2, <2>3 DEF World, Fields
    <2> QED
        BY <1>1, <1>3, <1>6, <1>8, <1>21, <2>4 DEF Resume, IsNow
<1>23. Sound(y)
    BY <1>9, <1>12, <1>14, <1>16, <1>18, <1>19, <1>20, <1>21, StartControlSound
<1> QED
    BY <1>22, <1>23, SetSound

LEMMA ProbeSound ==
    ASSUME IInv, SInv, NEW f \in Slots, Probe(f) PROVE SInv'
<1>1. PICK n, t : IsNow(n, t) /\ Good(n, None, t) /\ t \in 1..MaxTurns + 1 /\ Sound(n)
    BY NowIsSound
<1>2. n.flows[f].kind = "none"
    BY <1>1 DEF Probe, Free, IsNow
<1>3. PICK e : e = Call("probe", 1, "observe")
    OBVIOUS
<1>4. 1 \in Turns
    BY DEF Turns
<1>5. e \in Flow /\ e.kind = "probe" /\ e.pc = "idle"
    BY <1>3, <1>4, CallFacts DEF Kinds, Modes
<1>6. ~Bound(e) /\ ~Deciding(e) /\ ~Nears(e) /\ ~Returns(e)
    BY <1>5 DEF Bound, Deciding, Nears, Returns
<1>7. PICK u : u = Called(n, f, e)
    OBVIOUS
<1>8. Sound(u) /\ u.flows[f] = e /\ u.s = n.s
    BY <1>1, <1>2, <1>5, <1>6, <1>7, BeginSound
<1>9. u \in World /\ u.s \in Fields /\ n \in World
    BY <1>1, <1>8, Parts DEF Sound
<1>10. PICK d : d = [u.s EXCEPT !.health = f]
    OBVIOUS
<1>11. d \in Fields /\ SameAccess(u.s, d) /\ d.trusted = u.s.trusted
    BY <1>9, <1>10 DEF Fields, SameAccess
<1>12. PICK x : x = Fielded(u, d)
    OBVIOUS
<1>13. Sound(x) /\ x.flows = u.flows
    BY <1>8, <1>11, <1>12, OtherFieldsSound
<1>14. PICK y : y = Ask(x, f, "validate")
    OBVIOUS
<1>15. Set(y)
    <2>1. x = [Now EXCEPT !.flows[f] = Call("probe", 1, "observe"), !.s.health = f]
        BY <1>1, <1>3, <1>7, <1>8, <1>9, <1>10, <1>12 DEF IsNow, Called, Fielded, World
    <2> QED
        BY <1>14, <2>1 DEF Probe
<1>16. May(x, f, "validate") /\ "validate" \in Methods
    BY <1>5, <1>8, <1>13 DEF May, Puts, Methods
<1>17. Sound(y)
    BY <1>13, <1>14, <1>16, AskSound
<1> QED
    BY <1>15, <1>17, SetSound

---------------------------------------------------------------------------
(* Revocations, pauses and the end of a turn                               *)

\* What the end of a turn takes back, nobody holds; and it takes place while no
\* renewal or resumption counts on what it takes.
LEMMA TurnEndsSound ==
    ASSUME IInv, SInv, TurnEnds, Orderly PROVE SInv'
<1>1. PICK n, t : IsNow(n, t) /\ Good(n, None, t) /\ t \in 1..MaxTurns + 1 /\ Sound(n)
    BY NowIsSound
<1>2. t \in Turns /\ turn' = t + 1 /\ t + 1 # t
    BY <1>1 DEF TurnEnds, IsNow, Turns
<1>3. n \in World /\ n.consent \in [Turns -> SUBSET Modes]
    BY <1>1 DEF Good, World
<1>4. PICK x : x = Finished(n, t)
    OBVIOUS
<1>5. PICK k : k = [x.consent EXCEPT ![t] = {}]
    OBVIOUS
<1>6. PICK y : y = [x EXCEPT !.consent = k]
    OBVIOUS
<1>7. ASSUME NEW f \in Slots
      PROVE  /\ ~(n.flows[f].kind = "trust" /\ n.flows[f].pc \in {"queued", "validate"})
             /\ ~Returns(n.flows[f])
    BY <1>1, <1>2 DEF Orderly, Returns, IsNow
<1>8. x \in World
    BY <1>1, <1>2, <1>4, FinishedGood DEF Good
<1>9. k \in [Turns -> SUBSET Modes]
    BY <1>2, <1>5, <1>8 DEF World
<1>10. y \in World /\ y.s = x.s /\ y.flows = x.flows /\ y.overlay = x.overlay /\ y.consent = k
    BY <1>6, <1>8, <1>9 DEF World
<1>11. Set(y)
    BY <1>1, <1>4, <1>5, <1>6, <1>8 DEF TurnEnds, IsNow, World
<1> DEFINE mine == {t} \cap (TurnOf(n.s.access) \cup TurnOf(n.s.decision) \cup Checking(n))
<1>12. CASE mine = {}
    <2>1. x = n
        BY <1>4, <1>12 DEF Finished
    <2>2. \A u \in Turns : u # t => k[u] = n.consent[u]
        BY <1>3, <1>5, <2>1
    <2>3. /\ n.s.access # None => n.s.access.turn # t /\ n.s.access.turn \in Turns
          /\ n.s.decision # None => n.s.decision.turn # t /\ n.s.decision.turn \in Turns
        <3>1. n.s \in Fields
            BY <1>3, Parts
        <3> QED
            BY <1>12, <3>1 DEF TurnOf, Fields, Grant
    <2>4. ASSUME NEW f \in Slots, Bound(n.flows[f]) PROVE Entitled(y, f, n.flows[f])
        <3>1. n.flows[f] \in Flow /\ n.flows[f].pc \in Places[n.flows[f].kind]
            BY <1>1, <1>3, Parts DEF Good, Placed
        <3>2. n.flows[f].kind = "decide"
            BY <1>7, <2>4, <3>1 DEF Bound, Places, Starting
        <3>3. Entitled(n, f, n.flows[f])
            BY <1>1, <2>4 DEF Sound, Consented
        <3>4. PICK u, m : u = n.flows[f].turn /\ m = n.flows[f].mode
            OBVIOUS
        <3>5. n.s.decision = [turn |-> u, mode |-> m] /\ u \in Turns /\ m \in Modes
            BY <3>1, <3>2, <3>3, <3>4 DEF Entitled, Flow
        <3>6. [turn |-> u, mode |-> m] \in Grant
            BY <3>5 DEF Grant
        <3>7. u # t
            BY <2>3, <3>5, <3>6
        <3>8. k[u] = n.consent[u]
            BY <2>2, <3>5, <3>7
        <3> QED
            BY <1>10, <2>1, <3>2, <3>3, <3>4, <3>8 DEF Entitled
    <2>5. Consented(y)
        BY <1>1, <1>10, <2>1, <2>2, <2>3, <2>4 DEF Sound, Consented
    <2>6. Shown(y) /\ Wanted(y)
        BY <1>1, <1>10, <2>1 DEF Sound, Shown, Wanted, Running, Lit
    <2>7. Sound(y)
        BY <1>10, <2>5, <2>6 DEF Sound
    <2> QED
        BY <1>11, <2>7, SetSound
<1>13. CASE mine # {}
    <2>1. t \in TurnOf(n.s.access) \cup TurnOf(n.s.decision) \cup Checking(n)
        BY <1>13
    <2>2. /\ Dimmed(n, x) /\ Barren(x) /\ x.s.access = None /\ x.s.decision = None
          /\ x.s.control = None /\ x.overlay \in {"doomed", "closed"}
        <3>1. Bereft(n, x)
            BY <1>2, <1>3, <1>4, <2>1, FinishedFacts
        <3> QED
            BY <3>1 DEF Bereft
    <2>3. \A g \in Slots : ~y.flows[g].fresh /\ ~Returns(y.flows[g])
        BY <1>7, <1>10, <2>2 DEF Barren, Dimmed, Dimmer, Returns
    <2>4. ~Running(y) /\ Wanted(y)
        BY <1>10, <2>2, <2>3 DEF Running, Wanted, Lit
    <2>5. Sound(y)
        BY <1>10, <2>2, <2>3, <2>4, BareSound
    <2> QED
        BY <1>11, <2>5, SetSound
<1> QED
    BY <1>12, <1>13

LEMMA RevokeSound ==
    ASSUME IInv, SInv, Set(Revoked(Now)) PROVE SInv'
<1>1. PICK y : y = Revoked(Now)
    OBVIOUS
<1>2. Sound(y)
    BY <1>1, RevokedSound DEF SInv
<1> QED
    BY <1>1, <1>2, SetSound

LEMMA DisplayChangedSound ==
    ASSUME IInv, SInv, DisplayChanged PROVE SInv'
<1>1. PICK n, t : IsNow(n, t) /\ Good(n, None, t) /\ t \in 1..MaxTurns + 1 /\ Sound(n)
    BY NowIsSound
<1>2. PICK y : y = Paused(n)
    OBVIOUS
<1>3. Set(y)
    BY <1>1, <1>2 DEF IsNow, DisplayChanged
<1> QED
    BY <1>1, <1>2, <1>3, PausedSound, SetSound

LEMMA HeartbeatSound ==
    ASSUME IInv, SInv, Heartbeat PROVE SInv'
<1>1. PICK n, t : IsNow(n, t) /\ Good(n, None, t) /\ t \in 1..MaxTurns + 1 /\ Sound(n)
    BY NowIsSound
<1>2. PICK y : y = Signal(n, "beat")
    OBVIOUS
<1>3. Set(y)
    BY <1>1, <1>2 DEF IsNow, Heartbeat
<1>4. y \in World /\ y.s = n.s /\ y.flows = n.flows /\ SameFrame(n, y)
    BY <1>1, <1>2, SignalFacts DEF Good, Signals
<1>5. Sound(y)
    BY <1>1, <1>4, SameSound DEF SameAccess, SameFrame
<1> QED
    BY <1>3, <1>5, SetSound

\* The overlay goes with the control, and no other control is starting.
LEMMA AcknowledgeSound ==
    ASSUME IInv, SInv, Acknowledge, Orderly PROVE SInv'
<1>1. PICK n, t : IsNow(n, t) /\ Good(n, None, t) /\ t \in 1..MaxTurns + 1 /\ Sound(n)
    BY NowIsSound
<1>2. n.s.control # None /\ n.s.control.state = "cancelled" /\ turn' = t
    BY <1>1 DEF Acknowledge, IsNow
<1>3. PICK x : x = CloseOverlay(n)
    OBVIOUS
<1>4. /\ x \in World /\ x.s = n.s /\ x.flows = n.flows /\ x.consent = n.consent
      /\ x.overlay \in {"doomed", "closed"} /\ x.s \in Fields
    BY <1>1, <1>3, CloseOverlayFacts, Parts DEF Good
<1>5. PICK d : d = [x.s EXCEPT !.control = None]
    OBVIOUS
<1>6. /\ d \in Fields /\ d.access = x.s.access /\ d.decision = x.s.decision
      /\ d.trusted = x.s.trusted /\ d.control = None
    BY <1>4, <1>5 DEF Fields
<1>7. PICK y : y = Fielded(x, d)
    OBVIOUS
<1>8. /\ y \in World /\ y.s = d /\ y.flows = n.flows
      /\ y.overlay = x.overlay /\ y.consent = n.consent
    BY <1>4, <1>6, <1>7, WithFields DEF Fielded, SameFrame
<1>9. Set(y)
    BY <1>1, <1>3, <1>4, <1>5, <1>7 DEF Acknowledge, IsNow, Fielded, World
<1>10. \A f \in Slots : n.flows[f].pc \notin Starting
    <2>1. s'.control = None
        BY <1>6, <1>8, <1>9 DEF Set
    <2> QED
        BY <1>1, <1>2, <2>1 DEF Orderly, IsNow
<1>11. Consented(y)
    BY <1>1, <1>4, <1>6, <1>8 DEF Sound, Consented, Entitled
<1>12. Shown(y)
    <2>1. ASSUME NEW f \in Slots, Nears(n.flows[f]) PROVE FALSE
        <3>1. n.flows[f].kind = "resume" /\ n.flows[f].fresh
            BY <1>10, <2>1 DEF Nears, Starting
        <3> QED
            BY <1>1, <1>2, <3>1 DEF Good, Resumes
    <2> QED
        BY <1>6, <1>8, <2>1 DEF Shown, Running
<1>13. Wanted(y)
    BY <1>4, <1>8, <1>10 DEF Wanted, Lit, Returns, Starting
<1>14. Sound(y)
    BY <1>8, <1>11, <1>12, <1>13 DEF Sound
<1> QED
    BY <1>9, <1>14, SetSound

LEMMA AllowSound ==
    ASSUME IInv, SInv, NEW setting \in {"off", "observe", "control"}, Allow(setting) PROVE SInv'
<1>1. PICK n, t : IsNow(n, t) /\ Good(n, None, t) /\ t \in 1..MaxTurns + 1 /\ Sound(n)
    BY NowIsSound
<1> DEFINE Ends == \/ setting = "off"
                   \/ /\ setting = "observe"
                      /\ n.s.control # None
                         \/ (n.s.decision # None /\ n.s.decision.mode = "control")
<1>2. PICK x : x = IF Ends THEN Revoked(n) ELSE n
    OBVIOUS
<1>3. Sound(x)
    BY <1>1, <1>2, RevokedSound
<1>4. x \in World /\ x.s \in Fields
    BY <1>3, Parts DEF Sound
<1>5. PICK d : d = [x.s EXCEPT !.setting = setting]
    OBVIOUS
<1>6. d \in Fields /\ SameAccess(x.s, d) /\ d.trusted = x.s.trusted
    BY <1>4, <1>5 DEF Fields, SameAccess
<1>7. PICK y : y = Fielded(x, d)
    OBVIOUS
<1>8. Sound(y)
    BY <1>3, <1>6, <1>7, OtherFieldsSound
<1>9. Set(y)
    <2>1. y = [x EXCEPT !.s.setting = setting]
        BY <1>4, <1>5, <1>7 DEF Fielded, World
    <2> QED
        BY <1>1, <1>2, <2>1 DEF Allow, IsNow
<1> QED
    BY <1>8, <1>9, SetSound

---------------------------------------------------------------------------
(* The helper                                                              *)

\* Promises settle that are not the overlay's.
LEMMA SettledSound ==
    ASSUME NEW w, Sound(w), NEW waiting, NEW how \in Promises,
           \A g \in Slots : g \in waiting => w.flows[g].pc # "overlay",
           NEW y, y = Settled(w, waiting, how)
    PROVE  Sound(y) /\ y.s = w.s /\ y.link = w.link /\ SameFrame(w, y)
           /\ \A g \in Slots : y.flows[g].pc = w.flows[g].pc
<1>1. w \in World
    BY DEF Sound
<1>2. /\ y \in World /\ y.s = w.s /\ y.link = w.link /\ SameFrame(w, y)
      /\ \A g \in Slots : g \notin waiting => y.flows[g] = w.flows[g]
      /\ \A g \in Slots :
             /\ y.flows[g].kind = w.flows[g].kind /\ y.flows[g].pc = w.flows[g].pc
             /\ y.flows[g].turn = w.flows[g].turn /\ y.flows[g].mode = w.flows[g].mode
             /\ y.flows[g].fresh <=> w.flows[g].fresh
    BY <1>1, SettledFacts
<1>3. \A g \in Slots : Tamer(w.flows[g], y.flows[g]) /\ (Puts(y.flows[g]) <=> Puts(w.flows[g]))
    BY <1>2 DEF Tamer, Bound, Deciding, Nears, Returns, Puts
<1>4. Less(w, y)
    BY <1>2, <1>3 DEF Less, Running, SameFrame
<1> QED
    BY <1>2, <1>4, LessSound

LEMMA HelperStartsSound ==
    ASSUME IInv, SInv, NEW ok \in BOOLEAN, HelperStarts(ok) PROVE SInv'
<1>1. PICK n, t : IsNow(n, t) /\ Good(n, None, t) /\ t \in 1..MaxTurns + 1 /\ Sound(n)
    BY NowIsSound
<1> DEFINE waiting == {f \in Slots : n.flows[f].req = "starting"}
           Told(g) == IF n.link[g] # "starting" THEN n.link[g] ELSE IF ok THEN "sent" ELSE "none"
<1>2. PICK how : how = IF ok THEN "kept" ELSE "broken"
    OBVIOUS
<1>3. PICK x : x = Settled(n, waiting, how)
    OBVIOUS
<1>4. n \in World /\ n.link \in Links /\ how \in Promises
    BY <1>1, <1>2, Parts DEF Good, Promises
<1>5. \A g \in waiting : n.flows[g].pc # "overlay"
    BY <1>1 DEF Good, Placed, Waits
<1>6. Sound(x) /\ x.s = n.s
    <2> HIDE DEF waiting
    <2> QED
        BY <1>1, <1>3, <1>4, <1>5, SettledSound
<1>7. PICK l : l = [proc |-> IF ok THEN "up" ELSE "none", beat |-> Told("beat"),
                    pause |-> Told("pause"), stop |-> Told("stop")]
    OBVIOUS
<1>8. PICK y : y = [x EXCEPT !.link = l]
    OBVIOUS
<1>9. l \in Links
    BY <1>4, <1>7 DEF Links, Way
<1>10. y \in World /\ y.s = x.s /\ y.flows = x.flows /\ SameFrame(x, y)
    BY <1>6, <1>8, <1>9, WithLink DEF Sound
<1>11. Sound(y)
    BY <1>6, <1>10, SameSound DEF SameAccess, SameFrame
<1>12. PICK z : z = IF ~ok /\ \E g \in Signals : n.link[g] = "starting" THEN Revoked(y) ELSE y
    OBVIOUS
<1>13. Sound(z)
    BY <1>11, <1>12, RevokedSound
<1>14. Set(z)
    BY <1>1, <1>2, <1>3, <1>7, <1>8, <1>12, Zenon DEF HelperStarts, IsNow
<1> QED
    BY <1>13, <1>14, SetSound

LEMMA HelperDiesSound ==
    ASSUME IInv, SInv, HelperDies PROVE SInv'
<1>1. PICK n, t : IsNow(n, t) /\ Good(n, None, t) /\ t \in 1..MaxTurns + 1 /\ Sound(n)
    BY NowIsSound
<1> DEFINE sent == {f \in Slots : UnderWay(n.flows[f])}
<1>2. PICK x : x = Unlinked(n)
    OBVIOUS
<1>3. x \in World /\ x.s = n.s /\ x.flows = n.flows /\ x.overlay = n.overlay
      /\ x.consent = n.consent
    BY <1>1, <1>2, UnlinkedFacts DEF Good
<1>4. Sound(x)
    BY <1>1, <1>3, SameSound DEF SameAccess
<1>5. PICK f : f = CHOOSE g \in sent : TRUE
    OBVIOUS
<1>6. PICK y : y = IF sent = {} THEN x ELSE Throw(x, f, "stopped")
    OBVIOUS
<1>7. Sound(y)
    <2>1. sent # {} => f \in Slots
        BY <1>5
    <2> QED
        BY <1>4, <1>6, <2>1, ThrowSound
<1>8. PICK z : z = IF \E g \in Signals : n.link[g] = "sent" THEN Revoked(y) ELSE y
    OBVIOUS
<1>9. Sound(z)
    BY <1>7, <1>8, RevokedSound
<1>10. Set(z)
    BY <1>1, <1>2, <1>5, <1>6, <1>8, Zenon DEF HelperDies, IsNow
<1> QED
    BY <1>9, <1>10, SetSound

LEMMA HelperFailsSound ==
    ASSUME IInv, SInv, NEW f \in Slots, NEW code \in {"refused", "native"}, HelperFails(f, code)
    PROVE  SInv'
<1>1. PICK n, t : IsNow(n, t) /\ Good(n, None, t) /\ t \in 1..MaxTurns + 1 /\ Sound(n)
    BY NowIsSound
<1>2. PICK x : x = IF n.flows[f].pc = "start" THEN [n EXCEPT !.native = "idle"] ELSE n
    OBVIOUS
<1>3. x \in World /\ x.s = n.s /\ x.flows = n.flows /\ x.overlay = n.overlay
      /\ x.consent = n.consent
    BY <1>1, <1>2 DEF Good, World, Natives
<1>4. Sound(x)
    BY <1>1, <1>3, SameSound DEF SameAccess
<1>5. PICK y : y = Throw(x, f, code)
    OBVIOUS
<1>6. Sound(y)
    BY <1>4, <1>5, ThrowSound
<1>7. Set(y)
    BY <1>1, <1>2, <1>5 DEF HelperFails, IsNow
<1> QED
    BY <1>6, <1>7, SetSound

LEMMA HelloAnsweredSound ==
    ASSUME IInv, SInv, NEW f \in Slots, HelloAnswered(f) PROVE SInv'
<1>1. PICK n, t : IsNow(n, t) /\ Good(n, None, t) /\ t \in 1..MaxTurns + 1 /\ Sound(n)
    BY NowIsSound
<1>2. n.flows[f].pc = "hello"
    BY <1>1 DEF HelloAnswered, Answer, IsNow
<1> DEFINE waiting == {g \in Slots : n.flows[g].pc = "readiness" /\ n.s.flight = f}
<1>3. PICK x : x = Settled(n, waiting, "kept")
    OBVIOUS
<1>4. "kept" \in Promises /\ \A g \in waiting : n.flows[g].pc # "overlay"
    BY DEF Promises
<1>5. Sound(x) /\ x.flows[f].pc = "hello"
    <2> HIDE DEF waiting
    <2> QED
        BY <1>1, <1>2, <1>3, <1>4, SettledSound
<1>6. ~Puts(x.flows[f])
    BY <1>5 DEF Puts, Starting
<1>7. PICK y : y = Released(x, f)
    OBVIOUS
<1>8. Sound(y)
    BY <1>5, <1>6, <1>7, ReleasedSound
<1>9. Set(y)
    BY <1>1, <1>3, <1>7 DEF HelloAnswered, IsNow
<1> QED
    BY <1>8, <1>9, SetSound

LEMMA ListAnsweredSound ==
    ASSUME IInv, SInv, NEW f \in Slots, ListAnswered(f) PROVE SInv'
<1>1. PICK n, t : IsNow(n, t) /\ Good(n, None, t) /\ t \in 1..MaxTurns + 1 /\ Sound(n)
    BY NowIsSound
<1>2. /\ n.flows[f].pc = "list" /\ n \in World /\ n.flows[f] \in Flow
      /\ n.flows[f].pc \in Places[n.flows[f].kind] /\ n.flows \in [Slots -> Flow]
    BY <1>1, AnswerFacts DEF ListAnswered
<1>3. n.flows[f].kind = "list"
    BY <1>2, KindsOfPlaces
<1>4. PICK x : x = Moved(n, f, "thumbs", "none")
    OBVIOUS
<1>5. "thumbs" \in Awaits /\ "none" \in Promises /\ May(n, f, "thumbs")
    BY <1>3 DEF Awaits, Promises, May, Puts
<1>6. Sound(x)
    BY <1>1, <1>4, <1>5, MovedSound
<1>7. x = [Now EXCEPT !.flows[f].pc = "thumbs", !.flows[f].req = "none"]
    BY <1>1, <1>2, <1>4 DEF IsNow, Moved, Called, At, World, Flow
<1>8. PICK y : y = IF Stands(n.flows[f]) THEN x ELSE Throw(n, f, "cancelled")
    OBVIOUS
<1>9. Set(y)
    BY <1>1, <1>7, <1>8 DEF ListAnswered, IsNow
<1>10. Sound(y)
    BY <1>1, <1>6, <1>8, ThrowSound
<1> QED
    BY <1>9, <1>10, SetSound

LEMMA ThumbsLoadedSound ==
    ASSUME IInv, SInv, NEW f \in Slots, ThumbsLoaded(f) PROVE SInv'
<1>1. PICK n, t : IsNow(n, t) /\ Good(n, None, t) /\ t \in 1..MaxTurns + 1 /\ Sound(n)
    BY NowIsSound
<1>2. n.flows[f].pc = "thumbs" /\ n \in World /\ n.s \in Fields
    BY <1>1, Parts DEF ThumbsLoaded, IsNow, Good
<1>3. PICK d : d = [n.s EXCEPT !.listed = TRUE]
    OBVIOUS
<1>4. d \in Fields /\ SameAccess(n.s, d) /\ d.trusted = n.s.trusted
    BY <1>2, <1>3 DEF Fields, SameAccess
<1>5. PICK x : x = Fielded(n, d)
    OBVIOUS
<1>6. Sound(x) /\ x.flows = n.flows
    BY <1>1, <1>4, <1>5, OtherFieldsSound
<1>7. ~Puts(x.flows[f])
    BY <1>2, <1>6 DEF Puts, Starting
<1>8. PICK y : y = IF Stands(n.flows[f]) THEN Released(x, f) ELSE Throw(n, f, "cancelled")
    OBVIOUS
<1>9. Sound(y)
    BY <1>1, <1>6, <1>7, <1>8, ReleasedSound, ThrowSound
<1>10. Set(y)
    <2>1. x = [Now EXCEPT !.s.listed = TRUE]
        BY <1>1, <1>2, <1>3, <1>5 DEF IsNow, Fielded, World
    <2> QED
        BY <1>1, <1>8, <2>1 DEF ThumbsLoaded, IsNow
<1> QED
    BY <1>9, <1>10, SetSound

\* The window is chosen: the access is the one the question asked for.
LEMMA SelectedSound ==
    ASSUME IInv, SInv, NEW f \in Slots, Selected(f) PROVE SInv'
<1>1. PICK n, t : IsNow(n, t) /\ Good(n, None, t) /\ t \in 1..MaxTurns + 1 /\ Sound(n)
    BY NowIsSound
<1>2. /\ n.flows[f].pc = "select" /\ n \in World /\ n.s \in Fields /\ n.flows[f] \in Flow
      /\ n.flows[f].pc \in Places[n.flows[f].kind]
    BY <1>1, AnswerFacts DEF Selected
<1>3. n.flows[f].kind = "decide" /\ ~Puts(n.flows[f])
    BY <1>2, KindsOfPlaces DEF Puts, Starting
<1>4. PICK x : x = [n EXCEPT !.native = "idle"]
    OBVIOUS
<1>5. x \in World /\ x.s = n.s /\ x.flows = n.flows /\ x.overlay = n.overlay
      /\ x.consent = n.consent
    BY <1>2, <1>4 DEF World, Natives
<1>6. Sound(x)
    BY <1>1, <1>5, SameSound DEF SameAccess
<1>7. PICK grant : grant = [turn |-> n.flows[f].turn, mode |-> n.flows[f].mode]
    OBVIOUS
<1>8. grant \in Grant /\ grant.turn = n.flows[f].turn /\ grant.mode = n.flows[f].mode
    BY <1>2, <1>7 DEF Flow, Grant
<1>9. PICK d : d = [x.s EXCEPT !.access = grant, !.target = TRUE]
    OBVIOUS
<1>10. /\ d \in Fields /\ d.control = x.s.control /\ d.access = grant
       /\ d.decision = x.s.decision /\ d.trusted = x.s.trusted
    BY <1>2, <1>5, <1>8, <1>9 DEF Fields
<1>11. PICK y : y = Fielded(x, d)
    OBVIOUS
<1>12. y \in World /\ y.s = d /\ y.flows = x.flows /\ SameFrame(x, y)
    BY <1>6, <1>10, <1>11, FieldedParts
<1>13. ASSUME n.flows[f].fresh PROVE Sound(y) /\ Deciding(y.flows[f])
    <2>1. Bound(n.flows[f])
        BY <1>2, <1>3, <1>13 DEF Bound, Starting
    <2>2. n.s.decision = grant /\ grant.mode \in n.consent[grant.turn]
        BY <1>1, <1>3, <1>7, <1>8, <2>1 DEF Sound, Consented, Entitled
    <2>3. Consented(y)
        BY <1>5, <1>6, <1>10, <1>12, <2>2 DEF Sound, Consented, Entitled, SameFrame
    <2>4. Sound(y)
        BY <1>6, <1>10, <1>11, <2>3, AccessSound
    <2> QED
        BY <1>3, <1>5, <1>12, <1>13, <2>4 DEF Deciding
<1>14. PICK z : z = IF ~n.flows[f].fresh THEN Throw(x, f, "cancelled")
                    ELSE IF n.flows[f].mode = "control" THEN StartControl(y, f)
                    ELSE Granted(y, f)
    OBVIOUS
<1>15. Sound(z)
    <2>1. Sound(Throw(x, f, "cancelled"))
        BY <1>6, ThrowSound
    <2>2. n.flows[f].fresh => Sound(StartControl(y, f))
        BY <1>3, <1>5, <1>12, <1>13, StartControlSound
    <2>3. n.flows[f].fresh => Sound(Granted(y, f))
        BY <1>3, <1>5, <1>12, <1>13, GrantedSound
    <2> QED
        BY <1>14, <2>1, <2>2, <2>3
<1>16. Set(z)
    <2>1. x = [Now EXCEPT !.native = "idle"]
        BY <1>1, <1>4 DEF IsNow
    <2>2. y = [x EXCEPT !.s.access = [turn |-> flows[f].turn, mode |-> flows[f].mode],
                        !.s.target = TRUE]
        BY <1>1, <1>5, <1>7, <1>9, <1>11 DEF IsNow, Fielded, World
    <2> QED
        BY <1>1, <1>14, <2>1, <2>2, Zenon DEF Selected, IsNow
<1> QED
    BY <1>15, <1>16, SetSound

LEMMA ValidatedSound ==
    ASSUME IInv, SInv, NEW f \in Slots, NEW valid \in BOOLEAN, Validated(f, valid) PROVE SInv'
<1>1. PICK n, t : IsNow(n, t) /\ Good(n, None, t) /\ t \in 1..MaxTurns + 1 /\ Sound(n)
    BY NowIsSound
<1>2. /\ n.flows[f].pc = "validate"
      /\ n \in World /\ n.s \in Fields /\ n.flows[f] \in Flow /\ n.flows \in [Slots -> Flow]
      /\ n.flows[f].pc \in Places[n.flows[f].kind]
    BY <1>1, AnswerFacts DEF Validated
<1>3. n.flows[f].kind \in {"trust", "observe", "act", "probe"} /\ ~Puts(n.flows[f])
    BY <1>2, KindsOfPlaces DEF Puts, Starting
<1>4. PICK r : r = Revoked(n)
    OBVIOUS
<1>5. Sound(r) /\ (r.s.control = None => ~Lit(r))
    BY <1>1, <1>4, RevokedSound
<1>6. PICK m : m = IF ~valid /\ n.flows[f].fresh THEN r ELSE n
    OBVIOUS
<1>7. PICK a : a = Released(m, f)
    OBVIOUS
<1>8. Sound(a)
    BY <1>1, <1>3, <1>5, <1>6, <1>7, ReleasedSound
<1>9. PICK gone, late, bad : /\ gone = Throw(r, f, "refused")
                             /\ late = Throw(n, f, "cancelled")
                             /\ bad = Throw(n, f, "refused")
    OBVIOUS
<1>10. Sound(gone) /\ Sound(late) /\ Sound(bad)
    BY <1>1, <1>5, <1>9, ThrowSound
<1>11. PICK grant : grant = [turn |-> n.flows[f].turn, mode |-> "control"]
    OBVIOUS
<1>12. PICK d : d = [n.s EXCEPT !.access = grant]
    OBVIOUS
<1>13. PICK k : k = Fielded(n, d)
    OBVIOUS
<1>14. PICK b : b = StartControl(k, f)
    OBVIOUS
<1>15. ASSUME n.flows[f].kind = "trust", n.flows[f].fresh PROVE Sound(b)
    <2>1. Bound(n.flows[f])
        BY <1>2, <1>15 DEF Bound, Starting
    <2>2. Entitled(n, f, n.flows[f])
        BY <1>1, <2>1 DEF Sound, Consented
    <2>3. /\ grant \in Grant /\ grant # None /\ grant.turn = n.flows[f].turn
          /\ grant.mode = "control"
        BY <1>2, <1>11 DEF Flow, Grant, Modes
    <2>4. grant.mode \in n.consent[grant.turn] /\ n.s.trusted # None
        BY <1>15, <2>2, <2>3 DEF Entitled
    <2>5. n.s.decision = None
        BY <1>1, <2>4 DEF Sound, Consented
    <2>6. /\ d \in Fields /\ d.access = grant /\ d.control = n.s.control
          /\ d.decision = n.s.decision /\ d.trusted = n.s.trusted
        BY <1>2, <1>12, <2>3 DEF Fields
    <2>7. k \in World /\ k.s = d /\ k.flows = n.flows /\ SameFrame(n, k)
        BY <1>1, <1>13, <2>6, FieldedParts
    <2>8. Consented(k)
        BY <1>1, <2>4, <2>5, <2>6, <2>7 DEF Sound, Consented, Entitled, SameFrame
    <2>9. Sound(k)
        BY <1>1, <1>13, <2>6, <2>8, AccessSound
    <2> QED
        BY <1>14, <1>15, <2>7, <2>9, StartControlSound
<1>16. PICK q : q = Moved(n, f, "validate", "none")
    OBVIOUS
<1>17. Sound(q) /\ q.flows[f].kind = n.flows[f].kind
    <2>1. "validate" \in Awaits /\ "none" \in Promises
        BY DEF Awaits, Promises
    <2>2. May(n, f, "validate")
        BY <1>1, <1>2, MayStay
    <2> QED
        BY <1>1, <1>16, <2>1, <2>2, MovedSound
<1>18. PICK o, c : o = Ask(q, f, "observe") /\ c = Ask(q, f, "act")
    OBVIOUS
<1>19. n.flows[f].kind \in {"observe", "act"} => Sound(o) /\ Sound(c)
    <2>1. "observe" \in Methods /\ "act" \in Methods
        BY DEF Methods
    <2>2. n.flows[f].kind \in {"observe", "act"} => May(q, f, "observe") /\ May(q, f, "act")
        BY <1>17 DEF May, Puts
    <2> QED
        BY <1>17, <1>18, <2>1, <2>2, AskSound
<1> DEFINE acts == /\ s.access # None /\ s.access.mode = "control"
                   /\ s.control # None /\ s.control.state = "running"
                   /\ s.frame /\ n.flows[f].latest
<1>20. PICK y : y = IF n.flows[f].kind = "probe" THEN a
                    ELSE IF n.flows[f].kind = "trust"
                    THEN IF ~n.flows[f].fresh THEN late ELSE IF ~valid THEN gone ELSE b
                    ELSE IF ~valid THEN gone
                    ELSE IF ~n.flows[f].fresh THEN late
                    ELSE IF n.flows[f].kind = "observe" THEN o
                    ELSE IF acts THEN c ELSE bad
    OBVIOUS
<1>21. Sound(y)
    BY <1>3, <1>8, <1>10, <1>15, <1>19, <1>20
<1>22. Set(y)
    <2>1. k = [Now EXCEPT !.s.access = [turn |-> n.flows[f].turn, mode |-> "control"]]
        BY <1>1, <1>2, <1>11, <1>12, <1>13 DEF IsNow, Fielded, World
    <2>2. q = [Now EXCEPT !.flows[f].req = "none"]
        BY ZenonT(60), <1>1, <1>2, <1>16 DEF IsNow, World, Flow, Moved, At, Called
    <2>3. b = StartControl([Now EXCEPT !.s.access = [turn |-> n.flows[f].turn,
                                                    mode |-> "control"]], f)
        BY <1>14, <2>1
    <2>4. /\ o = Ask([Now EXCEPT !.flows[f].req = "none"], f, "observe")
          /\ c = Ask([Now EXCEPT !.flows[f].req = "none"], f, "act")
        BY <1>18, <2>2
    <2>5. a = Released(IF ~valid /\ n.flows[f].fresh THEN Revoked(Now) ELSE Now, f)
        BY <1>1, <1>4, <1>6, <1>7 DEF IsNow
    <2>6. /\ gone = Throw(Revoked(Now), f, "refused") /\ late = Throw(Now, f, "cancelled")
          /\ bad = Throw(Now, f, "refused")
        BY <1>1, <1>4, <1>9 DEF IsNow
    <2>7. n.flows[f] = flows[f]
        BY <1>1 DEF IsNow
    <2> QED
        BY <1>20, <2>3, <2>4, <2>5, <2>6, <2>7, Zenon DEF Validated
<1> QED
    BY <1>21, <1>22, SetSound

\* The overlay comes up for a control that is to start, or that there is.
LEMMA TargetAnsweredSound ==
    ASSUME IInv, SInv, NEW f \in Slots, TargetAnswered(f) PROVE SInv'
<1>1. PICK n, t : IsNow(n, t) /\ Good(n, None, t) /\ t \in 1..MaxTurns + 1 /\ Sound(n)
    BY NowIsSound
<1>2. /\ n.flows[f].pc = "target" /\ n \in World
      /\ n.flows[f] \in Flow /\ n.flows \in [Slots -> Flow]
      /\ n.flows[f].pc \in Places[n.flows[f].kind]
    BY <1>1, AnswerFacts DEF TargetAnswered
<1>3. n.flows[f].kind \in {"decide", "trust", "resume"}
    BY <1>2, KindsOfPlaces DEF Starting
<1>4. PICK r : r = IF n.overlay = "open" THEN "kept" ELSE "none"
    OBVIOUS
<1>5. PICK e : e = At(n.flows[f], "overlay", r)
    OBVIOUS
<1>6. "overlay" \in Awaits /\ r \in Promises
    BY <1>4 DEF Awaits, Promises
<1>7. /\ e \in Flow /\ e.pc = "overlay" /\ e.req = r /\ e.kind = n.flows[f].kind
      /\ (e.fresh <=> n.flows[f].fresh)
    BY <1>2, <1>5, <1>6, MovedFacts
<1>8. /\ ~Bound(e) /\ ~Returns(e)
      /\ Nears(e) => n.overlay = "open"
      /\ Puts(n.flows[f]) => Puts(e)
    BY <1>4, <1>7 DEF Bound, Returns, Nears, Puts, Starting
<1>9. Deciding(e) => \A g \in Slots \ {f} : ~Deciding(n.flows[g])
    BY <1>1, <1>7 DEF Sound, Consented, Deciding
<1>10. PICK x : x = Called(n, f, e)
    OBVIOUS
<1>11. Sound(x) /\ x.flows[f] = e /\ x.s = n.s /\ SameFrame(n, x)
    BY <1>1, <1>7, <1>8, <1>9, <1>10, CalledSound
<1>12. PICK y : y = [x EXCEPT !.overlay = IF @ = "closed" THEN "opening" ELSE @]
    OBVIOUS
<1>13. /\ y \in World /\ y.s = x.s /\ y.flows = x.flows /\ y.consent = x.consent
       /\ y.overlay = IF x.overlay = "closed" THEN "opening" ELSE x.overlay
    BY <1>11, <1>12 DEF Sound, World, Overlays
<1>14. Consented(y)
    BY <1>11, <1>13 DEF Sound, Consented, Entitled
<1>15. Shown(y)
    BY <1>11, <1>13 DEF Sound, Shown, Running
<1>16. Wanted(y)
    <2>1. Puts(y.flows[f]) \/ y.s.control # None
        <3>1. CASE n.flows[f].kind \in {"decide", "trust"}
            BY <1>7, <1>11, <1>13, <3>1 DEF Puts, Starting
        <3>2. CASE n.flows[f].kind = "resume"
            BY <1>1, <1>2, <1>11, <1>13, <3>2 DEF Sound, Wanted, Returns
        <3> QED
            BY <1>3, <3>1, <3>2
    <2> QED
        BY <1>11, <1>13, <2>1 DEF Sound, Wanted
<1>17. Sound(y)
    BY <1>13, <1>14, <1>15, <1>16 DEF Sound
<1>18. y = [Now EXCEPT !.flows[f].pc = "overlay",
                       !.flows[f].req = IF overlay = "open" THEN "kept" ELSE "none",
                       !.overlay = IF @ = "closed" THEN "opening" ELSE @]
    <2>1. x = [n EXCEPT !.flows[f].pc = "overlay", !.flows[f].req = r]
        BY <1>2, <1>5, <1>10 DEF World, Flow, At, Called
    <2> QED
        BY <1>1, <1>2, <1>4, <1>11, <1>12, <2>1 DEF IsNow, World, SameFrame
<1>19. Set(y)
    BY <1>18 DEF TargetAnswered
<1> QED
    BY <1>17, <1>19, SetSound

\* A resumption goes on with the overlay on the screen.
LEMMA ObserveAnsweredSound ==
    ASSUME IInv, SInv, NEW f \in Slots, ObserveAnswered(f) PROVE SInv'
<1>1. PICK n, t : IsNow(n, t) /\ Good(n, None, t) /\ t \in 1..MaxTurns + 1 /\ Sound(n)
    BY NowIsSound
<1>2. n.flows[f].pc = "observe"
    BY <1>1, AnswerFacts DEF ObserveAnswered
<1>3. CASE ~Stands(n.flows[f])
    <2>1. PICK y : y = Throw(n, f, "cancelled")
        OBVIOUS
    <2>2. Set(y)
        BY <1>1, <1>3, <2>1 DEF ObserveAnswered, IsNow
    <2> QED
        BY <1>1, <2>1, <2>2, ThrowSound, SetSound
<1>4. CASE Stands(n.flows[f])
    <2>1. PICK x : x = Framed(n, TRUE)
        OBVIOUS
    <2>2. Sound(x) /\ Dimmed(n, x) /\ SameAccess(n.s, x.s) /\ SameFrame(n, x)
        BY <1>1, <2>1, FramedSound
    <2>3. x.flows[f].pc = "observe" /\ ~Puts(x.flows[f])
        BY <1>2, <2>2 DEF Dimmed, Dimmer, Puts, Starting
    <2>4. CASE n.flows[f].kind # "resume"
        <3>1. PICK y : y = Released(x, f)
            OBVIOUS
        <3>2. Set(y)
            BY <1>1, <1>4, <2>1, <2>4, <3>1 DEF ObserveAnswered, IsNow
        <3> QED
            BY <2>2, <2>3, <3>1, <3>2, ReleasedSound, SetSound
    <2>5. CASE n.flows[f].kind = "resume"
        <3>1. n.s.control # None /\ n.overlay = "open"
            BY <1>1, <1>2, <1>4, <2>5 DEF Good, Resumes, Stands, Sound, Shown, Nears
        <3>2. x \in World /\ x.s \in Fields /\ x.s.control \in Control
            BY <2>2, <3>1, Parts DEF Sound, SameAccess, Fields
        <3>3. PICK c : c = [x.s.control EXCEPT !.state = "running"]
            OBVIOUS
        <3>4. c \in Control /\ c # None
            BY <3>2, <3>3 DEF Control
        <3>5. PICK d : d = [x.s EXCEPT !.control = c]
            OBVIOUS
        <3>6. /\ d \in Fields /\ d.access = x.s.access /\ d.decision = x.s.decision
              /\ d.trusted = x.s.trusted /\ d.control = c
            BY <3>2, <3>4, <3>5 DEF Fields
        <3>7. PICK u : u = Fielded(x, d)
            OBVIOUS
        <3>8. /\ u \in World /\ u.s = d /\ u.flows = x.flows /\ SameFrame(x, u)
              /\ Consented(u) /\ Shown(u) /\ Wanted(u) => Sound(u)
            BY <2>2, <3>6, <3>7, FieldedParts
        <3>9. Consented(u)
            BY <2>2, <3>6, <3>8 DEF Sound, Consented, Entitled, SameFrame
        <3>10. Shown(u) /\ Wanted(u)
            BY <2>2, <3>1, <3>4, <3>6, <3>8 DEF Shown, Wanted, SameFrame
        <3>11. PICK y : y = Released(u, f)
            OBVIOUS
        <3>12. Sound(y)
            BY <2>3, <3>8, <3>9, <3>10, <3>11, ReleasedSound
        <3>13. u = [x EXCEPT !.s.control.state = "running"]
            BY <3>2, <3>3, <3>5, <3>7 DEF Fielded, World, Fields
        <3>14. Set(y)
            BY <1>1, <1>4, <2>1, <2>5, <3>11, <3>13 DEF ObserveAnswered, IsNow
        <3> QED
            BY <3>12, <3>14, SetSound
    <2> QED
        BY <2>4, <2>5
<1> QED
    BY <1>3, <1>4

LEMMA InjectsSound ==
    ASSUME IInv, SInv, NEW f \in Slots, Injects(f) PROVE SInv'
<1>1. PICK n, t : IsNow(n, t) /\ Good(n, None, t) /\ t \in 1..MaxTurns + 1 /\ Sound(n)
    BY NowIsSound
<1>2. /\ n.flows[f].pc = "act" /\ n \in World
      /\ n.flows[f] \in Flow /\ n.flows \in [Slots -> Flow]
    BY <1>1, AnswerFacts DEF Injects
<1>3. PICK y : y = Moved(n, f, "act", "answered")
    OBVIOUS
<1>4. "act" \in Awaits /\ "answered" \in Promises /\ May(n, f, "act")
    BY <1>1, <1>2, MayStay DEF Awaits, Promises
<1>5. Sound(y)
    BY <1>1, <1>3, <1>4, MovedSound
<1>6. /\ y.s = n.s /\ y.link = n.link /\ SameFrame(n, y)
      /\ y.flows = [n.flows EXCEPT ![f].req = "answered"]
    BY ZenonT(60), <1>2, <1>3 DEF World, Flow, Moved, At, Called, SameFrame
<1>7. Set(y)
    BY <1>1, <1>6 DEF Injects, IsNow, Set, SameFrame
<1> QED
    BY <1>5, <1>7, SetSound

LEMMA ActAnsweredSound ==
    ASSUME IInv, SInv, NEW f \in Slots, ActAnswered(f) PROVE SInv'
<1>1. PICK n, t : IsNow(n, t) /\ Good(n, None, t) /\ t \in 1..MaxTurns + 1 /\ Sound(n)
    BY NowIsSound
<1>2. n.flows[f].pc = "act"
    BY <1>1 DEF ActAnswered, IsNow
<1>3. PICK x : x = Framed(n, FALSE)
    OBVIOUS
<1>4. Sound(x) /\ Dimmed(n, x)
    BY <1>1, <1>3, FramedSound
<1>5. ~Puts(x.flows[f])
    BY <1>2, <1>4 DEF Dimmed, Dimmer, Puts, Starting
<1>6. PICK y : y = IF ~n.flows[f].fresh THEN Throw(n, f, "refused") ELSE Released(x, f)
    OBVIOUS
<1>7. Sound(y)
    BY <1>1, <1>4, <1>5, <1>6, ThrowSound, ReleasedSound
<1>8. Set(y)
    BY <1>1, <1>3, <1>6 DEF ActAnswered, IsNow
<1> QED
    BY <1>7, <1>8, SetSound

---------------------------------------------------------------------------
(* The overlay and the input controller                                    *)

\* While the overlay comes up, nothing runs and nothing is about to.
LEMMA OverlaySettlesSound ==
    ASSUME IInv, SInv, NEW ok \in BOOLEAN, OverlaySettles(ok) PROVE SInv'
<1>1. PICK n, t : IsNow(n, t) /\ Good(n, None, t) /\ t \in 1..MaxTurns + 1 /\ Sound(n)
    BY NowIsSound
<1> DEFINE waiting == {f \in Slots : n.flows[f].pc = "overlay"}
<1>2. PICK how : how = IF ok THEN "kept" ELSE "broken"
    OBVIOUS
<1>3. PICK x : x = Settled(n, waiting, how)
    OBVIOUS
<1>4. /\ n \in World /\ how \in Promises /\ n.overlay \in {"opening", "doomed"}
      /\ ok => n.overlay = "opening"
    BY <1>1, <1>2 DEF OverlaySettles, IsNow, Good, Promises
<1>5. \A g \in Slots : g \in waiting <=> n.flows[g].pc = "overlay"
    OBVIOUS
<1>6. /\ x \in World /\ x.s = n.s /\ SameFrame(n, x)
      /\ \A g \in Slots : g \notin waiting => x.flows[g] = n.flows[g]
      /\ \A g \in Slots : g \in waiting => x.flows[g].req = how
      /\ \A g \in Slots :
             /\ x.flows[g].kind = n.flows[g].kind /\ x.flows[g].pc = n.flows[g].pc
             /\ x.flows[g].turn = n.flows[g].turn /\ x.flows[g].mode = n.flows[g].mode
             /\ x.flows[g].fresh <=> n.flows[g].fresh
    <2> HIDE DEF waiting
    <2> QED
        BY <1>3, <1>4, SettledFacts
<1> HIDE DEF waiting
<1>7. PICK y : y = [x EXCEPT !.overlay = IF ok THEN "open" ELSE "closed"]
    OBVIOUS
<1>8. /\ y \in World /\ y.s = n.s /\ y.flows = x.flows /\ y.consent = n.consent
      /\ y.overlay = IF ok THEN "open" ELSE "closed"
    BY <1>6, <1>7 DEF World, Overlays, SameFrame
<1>9. Consented(y)
    <2>1. /\ \A g \in Slots : Bound(x.flows[g]) <=> Bound(n.flows[g])
          /\ \A g \in Slots : Deciding(x.flows[g]) <=> Deciding(n.flows[g])
        BY <1>6 DEF Bound, Deciding
    <2>2. ASSUME NEW g \in Slots, Bound(x.flows[g]) PROVE Entitled(y, g, x.flows[g])
        <3>1. Entitled(n, g, n.flows[g])
            BY <1>1, <2>1, <2>2 DEF Sound, Consented
        <3> QED
            BY <1>6, <1>8, <3>1 DEF Entitled
    <2> QED
        BY <1>1, <1>8, <2>1, <2>2 DEF Sound, Consented
<1>10. Shown(y)
    <2>1. ~Running(n) /\ \A g \in Slots : ~Nears(n.flows[g])
        BY <1>1, <1>4 DEF Sound, Shown
    <2>2. ASSUME ~ok, NEW g \in Slots PROVE ~Nears(x.flows[g])
        <3>1. CASE g \in waiting
            BY <1>2, <1>5, <1>6, <2>2, <3>1 DEF Nears
        <3>2. CASE g \notin waiting
            BY <1>6, <2>1, <3>2
        <3> QED
            BY <3>1, <3>2
    <2> QED
        BY <1>8, <2>1, <2>2 DEF Shown, Running
<1>11. Wanted(y)
    BY <1>1, <1>4, <1>6, <1>8 DEF Sound, Wanted, Lit, Puts, Returns
<1>12. Sound(y)
    BY <1>8, <1>9, <1>10, <1>11 DEF Sound
<1>13. Set(y)
    BY <1>1, <1>2, <1>3, <1>7 DEF OverlaySettles, IsNow, waiting
<1> QED
    BY <1>12, <1>13, SetSound

LEMMA NativeSound ==
    ASSUME IInv, SInv, NEW value \in Natives, Native(value), UNCHANGED <<s, flows>> PROVE SInv'
<1>1. PICK n, t : IsNow(n, t) /\ Good(n, None, t) /\ t \in 1..MaxTurns + 1 /\ Sound(n)
    BY NowIsSound
<1>2. PICK y : y = [n EXCEPT !.native = value]
    OBVIOUS
<1>3. /\ y \in World /\ y.s = n.s /\ y.flows = n.flows /\ y.link = n.link
      /\ y.native = value /\ y.overlay = n.overlay /\ y.consent = n.consent
    BY <1>1, <1>2 DEF Good, World
<1>4. Sound(y)
    BY <1>1, <1>3, SameSound DEF SameAccess
<1>5. Set(y)
    BY <1>1, <1>3 DEF Native, IsNow, Set
<1> QED
    BY <1>4, <1>5, SetSound

LEMMA NativeActivatesSound ==
    ASSUME IInv, SInv, NEW f \in Slots, NativeActivates(f) PROVE SInv'
<1>1. PICK n, t : IsNow(n, t) /\ Good(n, None, t) /\ t \in 1..MaxTurns + 1 /\ Sound(n)
    BY NowIsSound
<1>2. /\ n.flows[f].pc = "start" /\ n \in World
      /\ n.flows[f] \in Flow /\ n.flows \in [Slots -> Flow]
    BY <1>1, AnswerFacts DEF NativeActivates
<1>3. PICK x : x = Moved(n, f, "start", "answered")
    OBVIOUS
<1>4. "start" \in Awaits /\ "answered" \in Promises /\ May(n, f, "start")
    BY <1>1, <1>2, MayStay DEF Awaits, Promises
<1>5. Sound(x) /\ x \in World
    BY <1>1, <1>3, <1>4, MovedSound DEF Sound
<1>6. /\ x.s = n.s /\ x.link = n.link /\ SameFrame(n, x)
      /\ x.flows = [n.flows EXCEPT ![f].req = "answered"]
    BY ZenonT(60), <1>2, <1>3 DEF World, Flow, Moved, At, Called, SameFrame
<1>7. PICK y : y = [x EXCEPT !.native = "active"]
    OBVIOUS
<1>8. /\ y \in World /\ y.s = x.s /\ y.flows = x.flows /\ y.link = x.link
      /\ y.native = "active" /\ y.overlay = x.overlay /\ y.consent = x.consent
    BY <1>5, <1>7 DEF World, Natives
<1>9. Sound(y)
    BY <1>5, <1>8, SameSound DEF SameAccess
<1>10. Set(y)
    BY <1>1, <1>6, <1>8 DEF NativeActivates, Native, IsNow, Set, SameFrame
<1> QED
    BY <1>9, <1>10, SetSound

LEMMA NativePausesSound ==
    ASSUME NEW w, Sound(w), NEW y, y = NativePauses(w) PROVE Sound(y)
<1>1. PICK x : x = [w EXCEPT !.native = IF @ = "active" THEN "idle" ELSE "paused"]
    OBVIOUS
<1>2. /\ x \in World /\ x.s = w.s /\ x.flows = w.flows /\ x.overlay = w.overlay
      /\ x.consent = w.consent /\ w.s \in Fields
    BY <1>1, Parts DEF Sound, World, Natives
<1>3. Sound(x)
    BY <1>2, SameSound DEF SameAccess
<1>4. CASE w.native \notin {"arming", "active"}
    BY <1>4 DEF NativePauses
<1>5. CASE w.native \in {"arming", "active"} /\ w.s.early = "open"
    <2>1. PICK d : d = [x.s EXCEPT !.early = "paused"]
        OBVIOUS
    <2>2. d \in Fields /\ SameAccess(x.s, d) /\ d.trusted = x.s.trusted
        BY <1>2, <2>1 DEF Fields, SameAccess
    <2>3. PICK z : z = Fielded(x, d)
        OBVIOUS
    <2>4. Sound(z)
        BY <1>3, <2>2, <2>3, OtherFieldsSound
    <2>5. z = [x EXCEPT !.s.early = "paused"]
        BY <1>2, <2>1, <2>3 DEF Fielded, World
    <2>6. y = z
        BY <1>1, <1>5, <2>5 DEF NativePauses
    <2> QED
        BY <2>4, <2>6
<1>6. CASE w.native \in {"arming", "active"} /\ w.s.early # "open"
    <2>1. y = IF Heard THEN Paused(x) ELSE x
        BY <1>1, <1>6 DEF NativePauses
    <2>2. Sound(Paused(x))
        BY <1>3, PausedSound
    <2> QED
        BY <1>3, <2>1, <2>2
<1> QED
    BY <1>4, <1>5, <1>6

LEMMA UserTakesOverSound ==
    ASSUME IInv, SInv, UserTakesOver PROVE SInv'
<1>1. PICK n, t : IsNow(n, t) /\ Good(n, None, t) /\ t \in 1..MaxTurns + 1 /\ Sound(n)
    BY NowIsSound
<1>2. PICK y : y = NativePauses(n)
    OBVIOUS
<1>3. Set(y)
    BY <1>1, <1>2 DEF UserTakesOver, IsNow
<1> QED
    BY <1>1, <1>2, <1>3, NativePausesSound, SetSound

LEMMA SignalArrivesSound ==
    ASSUME IInv, SInv, NEW g \in Signals, SignalArrives(g) PROVE SInv'
<1>1. PICK n, t : IsNow(n, t) /\ Good(n, None, t) /\ t \in 1..MaxTurns + 1 /\ Sound(n)
    BY NowIsSound
<1>2. PICK l : l = [n.link EXCEPT ![g] = "none"]
    OBVIOUS
<1>3. PICK x : x = [n EXCEPT !.link = l]
    OBVIOUS
<1>4. n \in World /\ n.link \in Links
    BY <1>1, Parts DEF Good
<1>5. l \in Links
    BY <1>2, <1>4 DEF Links, Way, Signals
<1>6. x \in World /\ x.s = n.s /\ x.flows = n.flows /\ SameFrame(n, x)
    BY <1>3, <1>4, <1>5, WithLink
<1>7. Sound(x)
    BY <1>1, <1>6, SameSound DEF SameAccess, SameFrame
<1>8. PICK y : y = NativePauses(x)
    OBVIOUS
<1> DEFINE stopped == [idle |-> "idle", begun |-> "cancelled", arming |-> "paused",
                       active |-> "idle", cancelled |-> "cancelled", paused |-> "paused"]
<1>9. PICK z : z = [x EXCEPT !.native = stopped[@]]
    OBVIOUS
<1>10. /\ z \in World /\ z.s = x.s /\ z.flows = x.flows /\ z.overlay = x.overlay
       /\ z.consent = x.consent
    <2>1. stopped[x.native] \in Natives
        BY <1>6 DEF World, Natives
    <2> HIDE DEF stopped
    <2> QED
        BY <1>6, <1>9, <2>1 DEF World
<1>11. Sound(y) /\ Sound(z)
    BY <1>7, <1>8, <1>10, NativePausesSound, SameSound DEF SameAccess
<1>12. x = [Now EXCEPT !.link[g] = "none"]
    BY <1>1, <1>2, <1>3 DEF IsNow
<1>13. CASE g = "pause"
    <2>1. Set(y)
        BY <1>8, <1>12, <1>13 DEF SignalArrives
    <2> QED
        BY <1>11, <2>1, SetSound
<1>14. CASE g = "stop"
    <2>1. Set(z)
        BY <1>9, <1>12, <1>14 DEF SignalArrives
    <2> QED
        BY <1>11, <2>1, SetSound
<1>15. CASE g = "beat"
    <2>1. Set(x)
        BY <1>12, <1>15 DEF SignalArrives
    <2> QED
        BY <1>7, <2>1, SetSound
<1> QED
    BY <1>13, <1>14, <1>15 DEF Signals

LEMMA StartAnsweredSound ==
    ASSUME IInv, SInv, NEW f \in Slots, NEW active \in BOOLEAN, StartAnswered(f, active)
    PROVE  SInv'
<1>1. PICK n, t : IsNow(n, t) /\ Good(n, None, t) /\ t \in 1..MaxTurns + 1 /\ Sound(n)
    BY NowIsSound
<1>2. /\ n.flows[f].pc = "start" /\ n \in World
      /\ n.flows[f] \in Flow /\ n.flows[f].pc \in Places[n.flows[f].kind]
    BY <1>1, Parts DEF StartAnswered, IsNow, Good, Placed
<1>3. n.flows[f].kind \in {"decide", "trust", "resume"}
    BY <1>2, KindsOfPlaces DEF Starting
<1>4. PICK x : x = IF active THEN n ELSE [n EXCEPT !.native = "idle"]
    OBVIOUS
<1>5. /\ x \in World /\ x.s = n.s /\ x.flows = n.flows /\ x.overlay = n.overlay
      /\ x.consent = n.consent
    BY <1>2, <1>4 DEF World, Natives
<1>6. Sound(x)
    BY <1>1, <1>5, SameSound DEF SameAccess
<1>7. PICK running : running = (active /\ n.s.early # "paused")
    OBVIOUS
<1>8. PICK y : y = IF ~n.flows[f].fresh \/ n.s.access = None THEN Throw(x, f, "cancelled")
                   ELSE Controlled(x, f, running)
    OBVIOUS
<1>9. Sound(y)
    <2>1. Sound(Throw(x, f, "cancelled"))
        BY <1>6, ThrowSound
    <2>2. running \in BOOLEAN /\ (running => x.s.early # "paused")
        BY <1>5, <1>7
    <2>3. n.flows[f].fresh /\ n.flows[f].kind = "resume" => n.s.control # None
        BY <1>1 DEF Good, Resumes
    <2>4. n.flows[f].fresh /\ n.s.access # None => Sound(Controlled(x, f, running))
        BY <1>2, <1>3, <1>5, <1>6, <2>2, <2>3, ControlledSound
    <2> QED
        BY <1>8, <2>1, <2>4
<1>10. Set(y)
    <2>1. x = IF active THEN Now ELSE [Now EXCEPT !.native = "idle"]
        BY <1>1, <1>4 DEF IsNow
    <2>2. y = IF ~flows[f].fresh \/ s.access = None THEN Throw(x, f, "cancelled")
              ELSE Controlled(x, f, active /\ s.early # "paused")
        BY <1>1, <1>7, <1>8, Zenon DEF IsNow
    <2> QED
        BY <2>1, <2>2, Zenon DEF StartAnswered
<1> QED
    BY <1>9, <1>10, SetSound

---------------------------------------------------------------------------
(* The invariant holds                                                     *)

LEMMA InitSound == Init => SInv
<1> SUFFICES ASSUME Init PROVE SInv
    OBVIOUS
<1>1. PICK n : n = Now
    OBVIOUS
<1>2. n \in World
    BY <1>1, InitGood DEF IInv, Good
<1>3. n.s = s /\ n.flows = flows /\ n.overlay = overlay
    BY <1>1 DEF Now
<1>4. /\ n.s.access = None /\ n.s.decision = None /\ n.s.control = None
      /\ n.overlay = "closed" /\ \A f \in Slots : n.flows[f] = Idle
    BY <1>3 DEF Init
<1>5. ~Running(n) /\ Wanted(n) /\ \A f \in Slots : ~n.flows[f].fresh
    BY <1>4, IdleFacts DEF Running, Wanted, Lit, Returns
<1> QED
    BY <1>1, <1>2, <1>4, <1>5, BareSound DEF SInv

LEMMA StepSound == IInv /\ SInv /\ [Next /\ Orderly]_vars => SInv'
<1> SUFFICES ASSUME IInv, SInv, [Next /\ Orderly]_vars PROVE SInv'
    OBVIOUS
<1>1. CASE UNCHANGED vars
    <2>1. Now' = Now
        BY <1>1 DEF vars, Now
    <2> QED
        BY <2>1 DEF SInv
<1>2. CASE Tool
    BY <1>2, ExecuteSound, ObserveSound DEF Tool
<1>3. CASE User
    BY <1>3, ListSound, DecideSound, ResumeSound, RevokeSound, AllowSound, UserTakesOverSound,
       DisplayChangedSound DEF User, Revoke
<1>4. CASE Orderly /\ (TurnEnds \/ Acknowledge)
    BY <1>4, TurnEndsSound, AcknowledgeSound
<1>5. CASE ConsentExpires \/ HeartbeatLost \/ Heartbeat \/ HelperDies
    BY <1>5, RevokeSound, HeartbeatSound, HelperDiesSound DEF ConsentExpires, HeartbeatLost
<1>6. CASE \E ok \in BOOLEAN : HelperStarts(ok) \/ OverlaySettles(ok)
    BY <1>6, HelperStartsSound, OverlaySettlesSound
<1>7. CASE \E g \in Signals : SignalArrives(g)
    BY <1>7, SignalArrivesSound
<1>8. ASSUME NEW f \in Slots, Reaction(f) PROVE SInv'
    BY <1>8, AdmittedSound, HealthOverSound, LinkedSound, PreparedSound DEF Reaction
<1>9. ASSUME NEW f \in Slots, HelperStep(f) PROVE SInv'
    <2>1. CASE \E code \in {"refused", "native"} : HelperFails(f, code)
        BY <2>1, HelperFailsSound
    <2>2. CASE HelloAnswered(f) \/ ListAnswered(f) \/ Selected(f)
        BY <2>2, HelloAnsweredSound, ListAnsweredSound, SelectedSound
    <2>3. CASE \E valid \in BOOLEAN : Validated(f, valid)
        BY <2>3, ValidatedSound
    <2>4. CASE TargetAnswered(f) \/ ObserveAnswered(f) \/ Injects(f) \/ ActAnswered(f)
        BY <2>4, TargetAnsweredSound, ObserveAnsweredSound, InjectsSound, ActAnsweredSound
    <2>5. CASE NativeBegins(f)
        BY <2>5, NativeSound DEF NativeBegins, Natives
    <2>6. CASE NativeArms(f)
        BY <2>6, NativeSound DEF NativeArms, Natives
    <2>7. CASE NativeActivates(f)
        BY <2>7, NativeActivatesSound
    <2>8. CASE \E active \in BOOLEAN : StartAnswered(f, active)
        BY <2>8, StartAnsweredSound
    <2> QED
        BY <1>9, <2>1, <2>2, <2>3, <2>4, <2>5, <2>6, <2>7, <2>8 DEF HelperStep
<1>10. ASSUME NEW f \in Slots, ThumbsLoaded(f) \/ Deadline(f) \/ Probe(f) PROVE SInv'
    BY <1>10, ThumbsLoadedSound, RevokeSound, ProbeSound DEF Deadline
<1> QED
    BY <1>1, <1>2, <1>3, <1>4, <1>5, <1>6, <1>7, <1>8, <1>9, <1>10 DEF Next

LEMMA AlwaysSound == OrderlySpec => [](IInv /\ SInv)
<1>1. [Next /\ Orderly]_vars => [Next]_vars
    OBVIOUS
<1> QED
    BY <1>1, InitGood, StepGood, InitSound, StepSound, PTL DEF OrderlySpec

---------------------------------------------------------------------------
(* What follows from it                                                    *)

\* Whatever answers late, and after however many turns: the access that decide()
\* or a renewal of full trust gives is one the user granted to a turn that still
\* runs and has not withdrawn, as long as no turn ends in the middle of a renewal.
THEOREM NoAccessWithoutConsent == OrderlySpec => []ConsentBacksAccess
<1>1. SInv => ConsentBacksAccess
    BY DEF SInv, Sound, Consented, Now, ConsentBacksAccess
<1> QED
    BY <1>1, AlwaysSound, PTL

\* startControl() and a resumption publish a running control only with the overlay
\* on the screen, and nothing takes the overlay away from one that runs.
THEOREM ControlIsSeen == OrderlySpec => []ControlIsShown
<1>1. SInv => ControlIsShown
    BY DEF SInv, Sound, Shown, Running, Now, ControlIsShown
<1> QED
    BY <1>1, AlwaysSound, PTL

\* The overlay that a call brought up for a control goes with it: however the call
\* ends, what stays on the screen belongs to a control, or to one that starts.
THEOREM OverlayGoesAway == OrderlySpec => []NoOrphanOverlay
<1>1. SInv => NoOrphanOverlay
    BY DEF SInv, Sound, Wanted, Lit, Puts, Now, NoOrphanOverlay
<1> QED
    BY <1>1, AlwaysSound, PTL

---------------------------------------------------------------------------
(* Input, without any assumption on the order of events: the inductive     *)
(* invariant, of a state w of the service in turn t                        *)

\* An action past the readiness of the helper that nothing has overtaken.
Acts(fl) == fl.kind = "act" /\ fl.pc # "readiness" /\ fl.fresh

\* The helper has the action and has not carried it out.
Sent(fl) == fl.kind = "act" /\ fl.pc = "act" /\ fl.req = "sent"

\* The helper is about to be told that input ends.
Halting(w) == w.link.pause # "none" \/ w.link.stop # "none"

\* The access is one for control.
Grants(w) == w.s.access # None /\ w.s.access.mode = "control"

\* An action belongs to the present turn, and so does the access for control.
Timely(w, t) ==
    \A f \in Slots :
        /\ w.flows[f].pc = "readiness" /\ w.flows[f].fresh => w.flows[f].turn = t
        /\ Acts(w.flows[f]) /\ Grants(w) => w.s.access.turn = t /\ w.flows[f].turn = t

\* Input is off in a helper that is not up, and in one that has just come up.
Cold(w) ==
    /\ w.link.proc # "up" => w.native # "active"
    /\ \A f \in Slots : w.flows[f].pc = "act" /\ w.flows[f].req = "kept" => w.native # "active"

\* What the helper carries out is covered, or it is about to be told to stop.
Covered(w, fl) ==
    w.native = "active" => Halting(w) \/ (fl.fresh /\ Grants(w) /\ Running(w))

Backed(w) == \A f \in Slots : Sent(w.flows[f]) => Covered(w, w.flows[f])

Guarded(w, t) == w \in World /\ Timely(w, t) /\ Cold(w) /\ Backed(w)

---------------------------------------------------------------------------
(* Steps that give nothing                                                 *)

\* The call is no more of an action than before.
Meeker(fl, gl) ==
    /\ gl.pc = "readiness" /\ gl.fresh => fl.pc = "readiness" /\ fl.fresh /\ gl.turn = fl.turn
    /\ Acts(gl) => Acts(fl) /\ gl.turn = fl.turn
    /\ Sent(gl) => Sent(fl)
    /\ gl.pc = "act" /\ gl.req = "kept" => fl.pc = "act" /\ fl.req = "kept"

Calmer(w, y) ==
    /\ y.native = "active" =>
           /\ w.native = "active" /\ (w.link.proc = "up" => y.link.proc = "up")
           /\ Halting(w) => Halting(y)
           /\ \/ Halting(y)
              \/ /\ Grants(w) /\ Running(w) => Grants(y) /\ Running(y)
                 /\ \A g \in Slots :
                        Sent(y.flows[g]) /\ w.flows[g].fresh => y.flows[g].fresh
    /\ y.s.access \in {None, w.s.access}
    /\ \A g \in Slots : Meeker(w.flows[g], y.flows[g])

LEMMA CalmerGuarded ==
    ASSUME NEW w, NEW t, NEW y \in World, Guarded(w, t), Calmer(w, y) PROVE Guarded(y, t)
<1>1. Timely(y, t)
    BY DEF Guarded, Timely, Calmer, Meeker, Grants
<1>2. Cold(y)
    BY DEF Guarded, Cold, Calmer, Meeker
<1>3. Backed(y)
    BY DEF Guarded, Backed, Covered, Calmer, Meeker
<1> QED
    BY <1>1, <1>2, <1>3 DEF Guarded

LEMMA DimmerMeeker ==
    ASSUME NEW fl, NEW gl, Dimmer(fl, gl) PROVE Meeker(fl, gl)
BY DEF Dimmer, Meeker, Acts, Sent

LEMMA IdleMeeker ==
    ASSUME NEW fl PROVE Meeker(fl, Idle) /\ ~Sent(Idle)
BY IdleFacts DEF Meeker, Acts, Sent

\* No call moves, none is overtaken; access and control are the same.
LEMMA DimmedGuarded ==
    ASSUME NEW w, NEW t, NEW y \in World, Guarded(w, t), Dimmed(w, y),
           y.s.access = w.s.access, y.s.control = w.s.control,
           \A g \in Slots : w.flows[g].fresh => y.flows[g].fresh,
           y.native = w.native, w.link.proc = "up" => y.link.proc = "up",
           Halting(w) => Halting(y)
    PROVE  Guarded(y, t)
<1>1. \A g \in Slots : Meeker(w.flows[g], y.flows[g])
    BY DimmerMeeker DEF Dimmed
<1>2. Calmer(w, y)
    BY <1>1 DEF Calmer, Grants, Running
<1> QED
    BY <1>2, CalmerGuarded

\* The other fields change, the overlay or the consents.
LEMMA SameGuarded ==
    ASSUME NEW w, NEW t, NEW y \in World, Guarded(w, t), y.flows = w.flows,
           y.s.access = w.s.access, y.s.control = w.s.control,
           y.native = w.native, y.link = w.link
    PROVE  Guarded(y, t)
<1>1. Dimmed(w, y)
    BY DEF Dimmed, Dimmer
<1> QED
    BY <1>1, DimmedGuarded DEF Halting

\* Input is off.
LEMMA OffGuarded ==
    ASSUME NEW y \in World, NEW t, Timely(y, t), y.native # "active" PROVE Guarded(y, t)
BY DEF Guarded, Cold, Backed, Covered

\* Nothing is up to date, and input is off or about to end.
LEMMA StaleGuarded ==
    ASSUME NEW y \in World, NEW t, Cold(y), y.native = "active" => Halting(y),
           \A g \in Slots : ~y.flows[g].fresh
    PROVE  Guarded(y, t)
BY DEF Guarded, Timely, Acts, Backed, Covered

---------------------------------------------------------------------------
(* Revocations, pauses and the end of a call                               *)

\* A revocation leaves nothing that could act, whatever there was.
LEMMA RevokedGuarded ==
    ASSUME NEW w \in World, NEW t, NEW y, y = Revoked(w)
    PROVE  Guarded(y, t) /\ y.native = "idle" /\ \A g \in Slots : ~y.flows[g].fresh
<1>1. /\ y \in World /\ y.native = "idle"
      /\ \A g \in Slots : Rejected(w.flows[g]) => y.flows[g] = Idle
      /\ \A g \in Slots : ~Rejected(w.flows[g]) => ~y.flows[g].fresh
    BY RevokedFacts
<1>2. \A g \in Slots : ~y.flows[g].fresh
    BY <1>1, IdleFacts
<1>3. Timely(y, t)
    BY <1>2 DEF Timely, Acts
<1> QED
    BY <1>1, <1>2, <1>3, OffGuarded

\* A pause overtakes every call, and the helper is about to hear of it.
LEMMA PausedGuarded ==
    ASSUME NEW w, NEW t, Guarded(w, t), NEW y, y = Paused(w)
    PROVE  Guarded(y, t)
<1>1. w \in World /\ Cold(w)
    BY DEF Guarded
<1>2. /\ y \in World /\ Dimmed(w, y) /\ y.native = w.native
      /\ ((\A g \in Slots : ~y.flows[g].fresh) /\ y.link.pause # "none") \/ y = w
      /\ w.link.proc # "none" => y.link.proc = w.link.proc
    BY <1>1, PausedFacts
<1>3. CASE y = w
    BY <1>3
<1>4. CASE y # w
    <2>1. Cold(y)
        BY <1>1, <1>2 DEF Cold, Dimmed, Dimmer
    <2> QED
        BY <1>2, <1>4, <2>1, StaleGuarded DEF Halting
<1> QED
    BY <1>3, <1>4

LEMMA FramedGuarded ==
    ASSUME NEW w, NEW t, Guarded(w, t), NEW shown \in BOOLEAN, NEW y, y = Framed(w, shown)
    PROVE  Guarded(y, t) /\ Dimmed(w, y) /\ SameAccess(w.s, y.s) /\ SameFrame(w, y)
           /\ y.link = w.link
           /\ \A g \in Slots : y.flows[g].fresh <=> w.flows[g].fresh
<1>1. w \in World
    BY DEF Guarded
<1>2. /\ y \in World /\ SameFrame(w, y) /\ Dimmed(w, y) /\ y.link = w.link
      /\ \A g \in Slots : y.flows[g].fresh <=> w.flows[g].fresh
      /\ SameAccess(w.s, y.s)
    BY <1>1, FramedFacts
<1> QED
    BY <1>2, DimmedGuarded DEF SameAccess, SameFrame, Halting

LEMMA ReplacedGuarded ==
    ASSUME NEW w, NEW t, Guarded(w, t), NEW kinds, NEW y, y = Replaced(w, kinds)
    PROVE  Guarded(y, t) /\ Dimmed(w, y) /\ y.s = w.s
<1>1. w \in World
    BY DEF Guarded
<1>2. /\ y \in World /\ y.s = w.s /\ SameFrame(w, y) /\ Dimmed(w, y) /\ y.link = w.link
      /\ \A g \in Slots : y.flows[g].fresh <=> w.flows[g].fresh
    BY <1>1, ReplacedFacts
<1> QED
    BY <1>2, DimmedGuarded DEF SameFrame, Halting

LEMMA ReleasedGuarded ==
    ASSUME NEW w, NEW t, NEW f \in Slots, Guarded(w, t) PROVE Guarded(Released(w, f), t)
<1>0. PICK y : y = Released(w, f)
    OBVIOUS
<1>1. w \in World
    BY DEF Guarded
<1>2. /\ y \in World /\ y.link = w.link /\ SameFrame(w, y) /\ EndsWith(w, f, y)
      /\ y.s.access = w.s.access /\ SameControl(w.s, y.s)
      /\ y.s.trusted = Without(w.s.trusted, {f})
    BY <1>0, <1>1, ReleasedFacts
<1>3. ASSUME NEW g \in Slots
      PROVE  Meeker(w.flows[g], y.flows[g]) /\ (Sent(y.flows[g]) => y.flows[g] = w.flows[g])
    <2>1. CASE y.flows[g] = w.flows[g]
        BY <2>1 DEF Meeker
    <2>2. CASE y.flows[g] # w.flows[g]
        BY <1>2, <2>2, IdleMeeker DEF EndsWith
    <2> QED
        BY <2>1, <2>2
<1>4. Calmer(w, y)
    BY <1>2, <1>3 DEF Calmer, SameControl, SameFrame, Grants, Running, Halting
<1>5. Guarded(y, t)
    BY <1>2, <1>4, CalmerGuarded
<1> QED
    BY <1>0, <1>5

\* What catch blocks that revoke do first does not matter.
LEMMA ThrowRevokesGuarded ==
    ASSUME NEW w \in World, NEW t, NEW f \in Slots, NEW code, Revokes(w.flows[f], code)
    PROVE  Guarded(Throw(w, f, code), t)
<1> DEFINE fl == w.flows[f]
           y == IF fl.pc = "start" THEN [w EXCEPT !.s.early = "none"] ELSE w
           x == IF fl.kind = "act" THEN Framed(y, FALSE) ELSE y
<1>1. Throw(w, f, code) = Released(Revoked(x), f)
    BY Zenon DEF Throw
<1>2. y \in World
    BY EarlyFacts
<1> HIDE DEF y
<1>3. x \in World
    BY <1>2, FramedFacts
<1> HIDE DEF x
<1> QED
    BY <1>1, <1>3, RevokedGuarded, ReleasedGuarded

LEMMA ThrowGuarded ==
    ASSUME NEW w, NEW t, NEW f \in Slots, NEW code, Guarded(w, t)
    PROVE  Guarded(Throw(w, f, code), t)
<1> DEFINE fl == w.flows[f]
           y == IF fl.pc = "start" THEN [w EXCEPT !.s.early = "none"] ELSE w
           x == IF fl.kind = "act" THEN Framed(y, FALSE) ELSE y
<1>1. w \in World /\ w.s \in Fields
    BY Parts DEF Guarded
<1>2. Guarded(y, t)
    <2>1. CASE fl.pc # "start"
        BY <2>1
    <2>2. CASE fl.pc = "start"
        <3>1. /\ y \in World /\ y.flows = w.flows /\ y.s = [w.s EXCEPT !.early = "none"]
              /\ SameFrame(w, y) /\ y.link = w.link
            BY <1>1, <2>2, EarlyFacts
        <3> HIDE DEF y
        <3>2. y.s.access = w.s.access /\ y.s.control = w.s.control
            BY <1>1, <3>1 DEF Fields
        <3> QED
            BY <3>1, <3>2, SameGuarded DEF SameFrame
    <2> QED
        BY <2>1, <2>2
<1>3. Throw(w, f, code) =
          IF Revokes(fl, code) THEN Released(Revoked(x), f)
          ELSE IF Pauses(fl, code) THEN Released(Paused(x), f)
          ELSE Released(x, f)
    BY Zenon DEF Throw
<1> HIDE DEF y
<1>4. Guarded(x, t)
    BY <1>2, FramedGuarded
<1> HIDE DEF x
<1>5. Guarded(Revoked(x), t) /\ Guarded(Paused(x), t)
    BY <1>4, RevokedGuarded, PausedGuarded DEF Guarded
<1> QED
    BY <1>3, <1>4, <1>5, ReleasedGuarded

---------------------------------------------------------------------------
(* Calls that change or begin                                              *)

\* The call may be what it is to be.
Fitting(w, t, e) ==
    /\ e.pc = "readiness" /\ e.fresh => e.turn = t
    /\ Acts(e) /\ Grants(w) => w.s.access.turn = t /\ e.turn = t
    /\ e.pc = "act" /\ e.req = "kept" => w.native # "active"
    /\ Sent(e) => Covered(w, e)

LEMMA CalledGuarded ==
    ASSUME NEW w, NEW t, NEW f \in Slots, Guarded(w, t), NEW e \in Flow, Fitting(w, t, e),
           NEW y, y = Called(w, f, e)
    PROVE  /\ Guarded(y, t) /\ y.flows[f] = e
           /\ \A g \in Slots : g # f => y.flows[g] = w.flows[g]
           /\ y.s = w.s /\ y.link = w.link /\ SameFrame(w, y)
<1>1. w \in World /\ w.flows \in [Slots -> Flow]
    BY Parts DEF Guarded
<1>2. PICK k : k = [w.flows EXCEPT ![f] = e]
    OBVIOUS
<1>3. k \in [Slots -> Flow] /\ k[f] = e /\ \A g \in Slots : g # f => k[g] = w.flows[g]
    BY <1>1, <1>2
<1>4. y \in World /\ y.flows = k /\ y.s = w.s /\ y.link = w.link /\ SameFrame(w, y)
    BY <1>1, <1>2, <1>3, WithFlows DEF Called
<1>5. Timely(y, t)
    BY <1>3, <1>4 DEF Guarded, Timely, Fitting, Grants
<1>6. Cold(y)
    BY <1>3, <1>4 DEF Guarded, Cold, Fitting, SameFrame
<1>7. Backed(y)
    BY <1>3, <1>4 DEF Guarded, Backed, Fitting, Covered, Halting, Grants, Running, SameFrame
<1> QED
    BY <1>3, <1>4, <1>5, <1>6, <1>7 DEF Guarded

\* The call may be at p, waiting as before or for something new.
Can(w, t, f, p) ==
    LET fl == w.flows[f] IN
    /\ p = "readiness" => fl.pc = "readiness"
    /\ fl.kind = "act" /\ fl.fresh /\ p # "readiness" /\ Grants(w) =>
           w.s.access.turn = t /\ fl.turn = t
    /\ p = "act" => Covered(w, fl) /\ (fl.req = "kept" => w.native # "active")

\* y is w with the call f at p, waiting as r says.
StandsAt(w, f, p, r, y) ==
    /\ y.s = w.s /\ y.link = w.link /\ SameFrame(w, y)
    /\ \A g \in Slots : g # f => y.flows[g] = w.flows[g]
    /\ y.flows[f].pc = p /\ y.flows[f].req = r
    /\ y.flows[f].kind = w.flows[f].kind /\ y.flows[f].turn = w.flows[f].turn
    /\ y.flows[f].mode = w.flows[f].mode
    /\ y.flows[f].fresh <=> w.flows[f].fresh

\* The call goes on waiting for an answer only if it did so before.
Keeps(w, f, r) == r = "kept" => r = w.flows[f].req

LEMMA MovedGuarded ==
    ASSUME NEW w, NEW t, NEW f \in Slots, Guarded(w, t), NEW p \in Awaits, NEW r \in Promises,
           Can(w, t, f, p), Keeps(w, f, r), NEW y, y = Moved(w, f, p, r)
    PROVE  Guarded(y, t) /\ StandsAt(w, f, p, r, y)
<1>0. PICK e : e = At(w.flows[f], p, r)
    OBVIOUS
<1>1. w \in World
    BY DEF Guarded
<1>2. /\ e \in Flow /\ e.pc = p /\ e.req = r /\ e.kind = w.flows[f].kind
      /\ e.turn = w.flows[f].turn /\ e.mode = w.flows[f].mode
      /\ (e.fresh <=> w.flows[f].fresh)
    BY <1>0, <1>1, Parts, MovedFacts
<1>3. y = Called(w, f, e)
    BY <1>0 DEF Moved
<1>4. Fitting(w, t, e)
    BY <1>2 DEF Keeps, Can, Fitting, Acts, Sent, Covered, Guarded, Timely
<1>5. /\ Guarded(y, t) /\ y.flows[f] = e /\ \A g \in Slots : g # f => y.flows[g] = w.flows[g]
      /\ y.s = w.s /\ y.link = w.link /\ SameFrame(w, y)
    BY <1>2, <1>3, <1>4, CalledGuarded
<1> QED
    BY <1>2, <1>5 DEF StandsAt

LEMMA NothingKept ==
    ASSUME NEW w, NEW f, NEW r, r # "kept" PROVE Keeps(w, f, r)
BY DEF Keeps

LEMMA AskGuarded ==
    ASSUME NEW w, NEW t, NEW f \in Slots, NEW method \in Methods, Guarded(w, t),
           Can(w, t, f, method)
    PROVE  Guarded(Ask(w, f, method), t)
<1>0. PICK x, y, v : /\ x = Moved(w, f, method, w.flows[f].req)
                     /\ y = Moved(w, f, method, "starting")
                     /\ v = Moved(w, f, method, "sent")
    OBVIOUS
<1>1. /\ w \in World /\ w.flows[f] \in Flow /\ w.flows \in [Slots -> Flow]
      /\ w.link \in Links /\ method \in Awaits /\ w.flows[f].req \in Promises
      /\ "starting" \in Promises /\ "sent" \in Promises
    BY Parts, MethodsAwait DEF Guarded, Flow, Promises
<1>2. Guarded(x, t) /\ Guarded(v, t) /\ Guarded(y, t) /\ y.link = w.link /\ y.s = w.s
    <2>1. /\ Keeps(w, f, w.flows[f].req) /\ Keeps(w, f, "starting") /\ Keeps(w, f, "sent")
        BY DEF Keeps
    <2>2. Guarded(x, t)
        BY <1>0, <1>1, <2>1, MovedGuarded
    <2>3. Guarded(v, t)
        BY <1>0, <1>1, <2>1, MovedGuarded
    <2>4. Guarded(y, t) /\ StandsAt(w, f, method, "starting", y)
        BY <1>0, <1>1, <2>1, MovedGuarded
    <2> QED
        BY <2>2, <2>3, <2>4 DEF StandsAt
<1>3. CASE w.link.proc # "up"
    <2> DEFINE started == [w.link EXCEPT !.proc = IF @ = "none" THEN "starting" ELSE @]
               z == [y EXCEPT !.link = started]
    <2>1. Ask(w, f, method) = z
        BY ZenonT(60), <1>0, <1>1, <1>3 DEF Ask, World, Links, Flow, Moved, At, Called
    <2>2. /\ started \in Links /\ started.pause = w.link.pause /\ started.stop = w.link.stop
          /\ started.proc # "up"
        BY <1>1, <1>3 DEF Links
    <2> HIDE DEF started
    <2>3. z \in World /\ z.s = y.s /\ z.flows = y.flows /\ SameFrame(y, z) /\ z.link = started
        BY <1>2, <2>2, WithLink DEF Guarded
    <2> HIDE DEF z
    <2>4. Dimmed(y, z)
        BY <2>3 DEF Dimmed, Dimmer
    <2>5. Guarded(z, t)
        BY <1>2, <1>3, <2>2, <2>3, <2>4, DimmedGuarded DEF SameFrame, Halting
    <2> QED
        BY <2>1, <2>5
<1>4. CASE w.link.proc = "up" /\ \E g \in Slots \ {f} : UnderWay(w.flows[g])
    <2>1. x = [w EXCEPT !.flows[f].pc = method]
        BY <1>0, <1>1 DEF World, Flow, Moved, At, Called
    <2>2. Ask(w, f, method) = Throw(x, f, "busy")
        BY <1>4, <2>1 DEF Ask
    <2> QED
        BY <1>2, <2>2, ThrowGuarded
<1>5. CASE w.link.proc = "up" /\ ~\E g \in Slots \ {f} : UnderWay(w.flows[g])
    <2>1. v = [w EXCEPT !.flows[f].pc = method, !.flows[f].req = "sent"]
        BY <1>0, <1>1 DEF World, Flow, Moved, At, Called
    <2>2. Ask(w, f, method) = v
        BY <1>1, <1>5, <2>1 DEF Ask, World, Flow
    <2> QED
        BY <1>2, <2>2
<1> QED
    BY <1>3, <1>4, <1>5

LEMMA AfterHealthGuarded ==
    ASSUME NEW w, NEW t, NEW f \in Slots, NEW method \in Methods,
           NEW place \in {"queued", "waiting"},
           Guarded(w, t), Can(w, t, f, place), Can(w, t, f, method)
    PROVE  Guarded(AfterHealth(w, f, place, method), t)
<1>1. CASE w.s.health = None
    BY <1>1, AskGuarded DEF AfterHealth
<1>2. CASE w.s.health # None
    <2>0. PICK y : y = Moved(w, f, place, "none")
        OBVIOUS
    <2>1. w \in World /\ w.flows[f] \in Flow /\ w.flows \in [Slots -> Flow]
        BY Parts DEF Guarded
    <2>2. AfterHealth(w, f, place, method) = y
        BY ZenonT(60), <1>2, <2>0, <2>1 DEF AfterHealth, World, Flow, Moved, At, Called
    <2>3. place \in Awaits /\ "none" \in Promises
        BY DEF Awaits, Promises
    <2> QED
        BY <2>0, <2>2, <2>3, NothingKept, MovedGuarded
<1> QED
    BY <1>1, <1>2

\* A call that is not an action may ask for anything but an action.
LEMMA OtherCan ==
    ASSUME NEW w, NEW t, NEW f \in Slots, w.flows[f].kind # "act",
           NEW p, p \notin {"readiness", "act"}
    PROVE  Can(w, t, f, p)
BY DEF Can

---------------------------------------------------------------------------
(* The start of a control                                                  *)

\* Nothing is with the helper that input would be carried out for.
Clear(w) == \A g \in Slots : Sent(w.flows[g]) /\ w.native = "active" => Halting(w)

LEMMA ClearGuarded ==
    ASSUME NEW w \in World, NEW t, Timely(w, t), Cold(w), Clear(w) PROVE Guarded(w, t)
BY DEF Guarded, Backed, Covered, Clear

\* The call that takes the present generation overtakes the actions.
LEMMA RefreshedGuarded ==
    ASSUME NEW w \in World, NEW t, NEW f \in Slots, Cold(w), Clear(w),
           w.flows[f].kind # "act", w.flows[f].pc # "readiness",
           NEW y, y = Refreshed(w, f)
    PROVE  /\ Guarded(y, t) /\ y.s = w.s /\ SameFrame(w, y) /\ y.link = w.link
           /\ y.flows[f].kind = w.flows[f].kind /\ y.flows[f].pc = w.flows[f].pc
           /\ y.flows[f].fresh
<1>0. PICK b : b = Bumped(w, f)
    OBVIOUS
<1>2. /\ b \in World /\ b.s = w.s /\ SameFrame(w, b) /\ b.link = w.link /\ Dimmed(w, b)
      /\ \A g \in Slots : g # f => ~b.flows[g].fresh
    BY <1>0, BumpedFacts
<1>3. b.flows[f].kind # "act" /\ b.flows[f].pc # "readiness"
    BY <1>2 DEF Dimmed, Dimmer
<1>4. Timely(b, t)
    BY <1>2, <1>3 DEF Timely, Acts
<1>5. Cold(b) /\ Clear(b)
    BY <1>2 DEF Cold, Clear, Dimmed, Dimmer, Sent, Halting, SameFrame
<1>6. Guarded(b, t)
    BY <1>2, <1>4, <1>5, ClearGuarded
<1>7. PICK e : e = Renewed(b.flows[f])
    OBVIOUS
<1>8. /\ e \in Flow /\ e.pc = b.flows[f].pc /\ e.kind = b.flows[f].kind
      /\ e.req = b.flows[f].req /\ e.fresh
    BY <1>2, <1>7, Parts, RenewedFacts
<1>9. y = Called(b, f, e)
    BY <1>0, <1>2, <1>7 DEF Refreshed, Renewed, Called, World
<1>10. Fitting(b, t, e)
    BY <1>3, <1>5, <1>8 DEF Fitting, Acts, Sent, Cold
<1>11. Guarded(y, t) /\ y.flows[f] = e /\ y.s = b.s /\ SameFrame(b, y) /\ y.link = b.link
    BY <1>6, <1>8, <1>9, <1>10, CalledGuarded
<1> QED
    BY <1>2, <1>8, <1>11 DEF Dimmed, Dimmer, SameFrame

\* Where decide() or a renewal has put another access, the end of the call takes it.
LEMMA StartControlGuarded ==
    ASSUME NEW w \in World, NEW t, NEW f \in Slots, Cold(w), Clear(w),
           w.flows[f].kind \in {"decide", "trust"} \/ (w.flows[f].kind = "resume" /\ Timely(w, t))
    PROVE  Guarded(StartControl(w, f), t)
<1>0. PICK e : e = At(w.flows[f], "waiting", w.flows[f].req)
    OBVIOUS
<1>1. /\ w.flows[f] \in Flow /\ w.flows \in [Slots -> Flow] /\ w.flows[f].req \in Promises
      /\ "waiting" \in Awaits
    BY Parts DEF Flow, Awaits
<1>2. /\ e \in Flow /\ e.pc = "waiting" /\ e.kind = w.flows[f].kind
      /\ (e.fresh <=> w.flows[f].fresh)
    BY <1>0, <1>1, MovedFacts
<1>3. PICK k : k = [w.flows EXCEPT ![f] = e]
    OBVIOUS
<1>4. k \in [Slots -> Flow] /\ k[f] = e /\ \A g \in Slots : g # f => k[g] = w.flows[g]
    BY <1>1, <1>2, <1>3
<1>5. PICK x : x = Called(w, f, e)
    OBVIOUS
<1>6. x \in World /\ x.flows = k /\ x.s = w.s /\ x.link = w.link /\ SameFrame(w, x)
    BY <1>3, <1>4, <1>5, WithFlows DEF Called
<1>7. x = [w EXCEPT !.flows[f].pc = "waiting"]
    BY <1>0, <1>1, <1>5 DEF World, Flow, At, Called
<1>8. Cold(x) /\ Clear(x)
    BY <1>2, <1>4, <1>6 DEF Cold, Clear, Sent, Halting, SameFrame
<1>9. CASE w.s.access = None \/ w.s.setting # "control"
    <2>1. StartControl(w, f) = Throw(x, f, "refused")
        BY <1>7, <1>9 DEF StartControl
    <2>2. CASE w.flows[f].kind \in {"decide", "trust"}
        <3>1. Revokes(x.flows[f], "refused")
            BY <1>2, <1>4, <1>6, <2>2 DEF Revokes, Starting
        <3> QED
            BY <1>6, <2>1, <3>1, ThrowRevokesGuarded
    <2>3. CASE w.flows[f].kind = "resume" /\ Timely(w, t)
        <3>1. Timely(x, t)
            BY <1>2, <1>4, <1>6, <2>3 DEF Timely, Acts, Grants
        <3>2. Guarded(x, t)
            BY <1>6, <1>8, <3>1, ClearGuarded
        <3> QED
            BY <2>1, <3>2, ThrowGuarded
    <2> QED
        BY <2>2, <2>3
<1>10. CASE ~(w.s.access = None \/ w.s.setting # "control")
    <2>1. PICK y : y = Refreshed(x, f)
        OBVIOUS
    <2>2. x.flows[f].kind # "act" /\ x.flows[f].pc # "readiness"
        BY <1>2, <1>4, <1>6
    <2>3. Guarded(y, t) /\ y.flows[f].kind = x.flows[f].kind
        BY <1>6, <1>8, <2>1, <2>2, RefreshedGuarded
    <2>4. StartControl(w, f) = AfterHealth(y, f, "waiting", "target")
        BY <1>7, <1>10, <2>1 DEF StartControl, Refreshed
    <2>5. Can(y, t, f, "waiting") /\ Can(y, t, f, "target") /\ "target" \in Methods
        BY <2>2, <2>3, OtherCan DEF Methods
    <2> QED
        BY <2>3, <2>4, <2>5, AfterHealthGuarded
<1> QED
    BY <1>9, <1>10

---------------------------------------------------------------------------
(* The tools and the grant                                                 *)

\* The access is the same, and a control that runs goes on to.
LEMMA FieldedGuarded ==
    ASSUME NEW w, NEW t, Guarded(w, t), NEW d \in Fields, NEW y, y = Fielded(w, d),
           d.access = w.s.access, Running(w) => d.control # None /\ d.control.state = "running"
    PROVE  Guarded(y, t) /\ y.s = d /\ y.flows = w.flows /\ y.link = w.link /\ SameFrame(w, y)
<1>1. w \in World
    BY DEF Guarded
<1>2. y \in World /\ y.s = d /\ y.flows = w.flows /\ y.link = w.link /\ SameFrame(w, y)
    BY <1>1, WithFields DEF Fielded
<1>3. \A g \in Slots : Meeker(w.flows[g], y.flows[g])
    BY <1>2 DEF Meeker
<1>4. Calmer(w, y)
    BY <1>2, <1>3 DEF Calmer, Grants, Running, Halting, SameFrame
<1> QED
    BY <1>2, <1>4, CalmerGuarded

LEMMA GrantedGuarded ==
    ASSUME NEW w, NEW t, NEW f \in Slots, Guarded(w, t)
    PROVE  Guarded(Granted(w, f), t)
<1>0. PICK x : x = Replaced(w, {"list"})
    OBVIOUS
<1>1. Guarded(x, t)
    BY <1>0, ReplacedGuarded
<1>2. x \in World /\ x.s \in Fields
    BY <1>1, Parts DEF Guarded
<1>3. PICK d : d = [x.s EXCEPT !.decision = None, !.listed = FALSE, !.monitor = TRUE]
    OBVIOUS
<1>4. d \in Fields /\ d.access = x.s.access /\ d.control = x.s.control
    BY <1>2, <1>3 DEF Fields
<1>5. PICK y : y = Fielded(x, d)
    OBVIOUS
<1>6. Guarded(y, t)
    BY <1>1, <1>4, <1>5, FieldedGuarded DEF Running
<1>7. Granted(w, f) = Released(y, f)
    BY <1>0, <1>2, <1>3, <1>5 DEF Granted, Fielded, World
<1> QED
    BY <1>6, <1>7, ReleasedGuarded

\* An action is taken up only for the turn that has the access.
LEMMA UseAccessGuarded ==
    ASSUME NEW w, NEW t, NEW f \in Slots, Guarded(w, t), w.flows[f].kind \in {"observe", "act"},
           w.flows[f].kind = "act" /\ w.flows[f].fresh => w.flows[f].turn = t
    PROVE  Guarded(UseAccess(w, f), t)
<1> DEFINE Refuses == \/ w.s.access = None \/ w.flows[f].turn # w.s.access.turn
                      \/ w.s.control # None /\ w.s.control.state = "paused"
                      \/ w.s.busy # None \/ w.flows[f].turn \in w.s.denied
<1>1. CASE Refuses
    <2>1. UseAccess(w, f) = Released(w, f)
        BY <1>1 DEF UseAccess
    <2> QED
        BY <2>1, ReleasedGuarded
<1>2. CASE ~Refuses
    <2>1. w \in World /\ w.s \in Fields
        BY Parts DEF Guarded
    <2>2. PICK d : d = [w.s EXCEPT !.busy = f]
        OBVIOUS
    <2>3. d \in Fields /\ d.access = w.s.access /\ d.control = w.s.control
        BY <2>1, <2>2 DEF Fields
    <2>4. PICK y : y = Fielded(w, d)
        OBVIOUS
    <2>5. Guarded(y, t) /\ y.flows = w.flows /\ y.s = d
        BY <2>3, <2>4, FieldedGuarded DEF Running
    <2>6. UseAccess(w, f) = AfterHealth(y, f, "queued", "validate")
        BY <1>2, <2>1, <2>2, <2>4 DEF UseAccess, Fielded, World
    <2>7. w.flows[f].turn = w.s.access.turn
        BY <1>2
    <2>8. Can(y, t, f, "queued") /\ Can(y, t, f, "validate") /\ "validate" \in Methods
        BY <2>3, <2>5, <2>7 DEF Can, Methods
    <2> QED
        BY <2>5, <2>6, <2>8, AfterHealthGuarded
<1> QED
    BY <1>1, <1>2

\* A question takes the place of an access for observation, or of one of a turn
\* that has ended: no action counts on it.
LEMMA RequestAccessGuarded ==
    ASSUME NEW w, NEW t, NEW f \in Slots, Guarded(w, t),
           w.flows[f].kind \in {"request", "trust"}, w.flows[f].turn = t
    PROVE  Guarded(RequestAccess(w, f), t)
<1> DEFINE fl == w.flows[f]
           has == w.s.access # None /\ w.s.access.turn = fl.turn
                  /\ (fl.mode = "observe" \/ w.s.access.mode = "control")
           renews == /\ w.s.access = None /\ fl.kind = "trust" /\ fl.mode = "control"
                     /\ w.s.target
           Refuses == fl.turn \in w.s.denied \/ w.s.trusted # None \/ w.s.decision # None \/ has
<1>1. /\ w \in World /\ w.s \in Fields /\ w.flows[f] \in Flow
      /\ w.consent \in [Turns -> SUBSET Modes]
    BY Parts DEF Guarded, World
<1>2. CASE Refuses
    <2>1. RequestAccess(w, f) = Released(w, f)
        BY <1>2 DEF RequestAccess
    <2> QED
        BY <2>1, ReleasedGuarded
<1>3. CASE ~Refuses /\ renews
    <2>1. PICK d : d = [w.s EXCEPT !.trusted = f]
        OBVIOUS
    <2>2. d \in Fields /\ d.access = w.s.access /\ d.control = w.s.control
        BY <1>1, <2>1 DEF Fields
    <2>3. PICK y : y = Fielded(w, d)
        OBVIOUS
    <2>4. Guarded(y, t) /\ y.flows = w.flows /\ SameFrame(w, y) /\ y.s = d /\ y.link = w.link
        BY <2>2, <2>3, FieldedGuarded DEF Running
    <2>5. PICK k : k = [y.consent EXCEPT ![fl.turn] = {"control"}]
        OBVIOUS
    <2>6. PICK z : z = [y EXCEPT !.consent = k]
        OBVIOUS
    <2>7. k \in [Turns -> SUBSET Modes]
        BY <1>1, <2>4, <2>5 DEF Modes, Flow, SameFrame
    <2>8. /\ z \in World /\ z.s = y.s /\ z.flows = y.flows /\ z.native = y.native
          /\ z.link = y.link
        BY <2>4, <2>6, <2>7 DEF World, Guarded
    <2>9. Guarded(z, t)
        BY <2>4, <2>8, SameGuarded
    <2>10. RequestAccess(w, f) = AfterHealth(z, f, "queued", "validate")
        BY <1>1, <1>3, <2>1, <2>3, <2>5, <2>6 DEF RequestAccess, Fielded, World
    <2>11. Can(z, t, f, "queued") /\ Can(z, t, f, "validate") /\ "validate" \in Methods
        BY <1>3, <2>4, <2>8, OtherCan DEF Methods
    <2> QED
        BY <2>9, <2>10, <2>11, AfterHealthGuarded
<1>4. CASE ~Refuses /\ ~renews
    <2>1. PICK r : r = Replaced(w, {"resume"})
        OBVIOUS
    <2>2. Guarded(r, t) /\ Dimmed(w, r) /\ r.s = w.s
        BY <2>1, ReplacedGuarded
    <2>3. PICK p : p = Framed(r, FALSE)
        OBVIOUS
    <2>4. Guarded(p, t) /\ Dimmed(r, p) /\ SameAccess(r.s, p.s)
        BY <2>2, <2>3, FramedGuarded
    <2>5. PICK x : x = IF w.s.access = None THEN w ELSE p
        OBVIOUS
    <2>6. Guarded(x, t) /\ x.s.access = w.s.access /\ Dimmed(w, x)
        <3>1. CASE w.s.access = None
            BY <2>5, <3>1 DEF Dimmed, Dimmer
        <3>2. CASE w.s.access # None
            BY <2>2, <2>4, <2>5, <3>2 DEF SameAccess, Dimmed, Dimmer
        <3> QED
            BY <3>1, <3>2
    <2>7. PICK d : d = [x.s EXCEPT !.access = None,
                                   !.decision = [turn |-> fl.turn, mode |-> fl.mode]]
        OBVIOUS
    <2>8. x \in World /\ x.s \in Fields
        BY <2>6, Parts DEF Guarded
    <2>9. [turn |-> fl.turn, mode |-> fl.mode] \in Grant
        BY <1>1 DEF Flow, Grant
    <2>10. d \in Fields /\ d.access = None /\ d.control = x.s.control
        BY <2>7, <2>8, <2>9 DEF Fields
    <2>11. PICK y : y = Fielded(x, d)
        OBVIOUS
    <2>12. y \in World /\ y.s = d /\ y.flows = x.flows /\ y.link = x.link /\ SameFrame(x, y)
        BY <2>8, <2>10, <2>11, WithFields DEF Fielded
    <2>13. ASSUME NEW g \in Slots, Acts(x.flows[g]) PROVE ~Grants(x)
        BY <1>4, <2>6, <2>13 DEF Guarded, Timely, Grants
    <2>14. Clear(x)
        <3>1. ASSUME NEW g \in Slots, Sent(x.flows[g]), x.flows[g].fresh PROVE ~Grants(x)
            BY <2>13, <3>1 DEF Sent, Acts
        <3> QED
            BY <2>6, <3>1 DEF Clear, Guarded, Backed, Covered
    <2>15. Cold(y) /\ Clear(y)
        BY <2>6, <2>12, <2>14 DEF Guarded, Cold, Clear, Halting, SameFrame
    <2>16. Timely(y, t)
        BY <2>6, <2>10, <2>12 DEF Guarded, Timely, Grants
    <2>17. Guarded(y, t)
        BY <2>12, <2>15, <2>16, ClearGuarded
    <2>18. RequestAccess(w, f) = Released(y, f)
        BY <1>4, <2>1, <2>3, <2>5, <2>7, <2>8, <2>11 DEF RequestAccess, Fielded, World
    <2> QED
        BY <2>17, <2>18, ReleasedGuarded
<1> QED
    BY <1>2, <1>3, <1>4

\* A control is published: the answer to control.start leaves no room for an action.
LEMMA ControlledGuarded ==
    ASSUME NEW w, NEW t, NEW f \in Slots, Guarded(w, t), Clear(w), w.flows[f].pc = "start",
           w.flows[f].kind \in {"decide", "trust", "resume"}, w.s.access # None,
           NEW running \in BOOLEAN, running => w.s.early # "paused"
    PROVE  Guarded(Controlled(w, f, running), t)
<1> DEFINE goes == w.flows[f].kind = "resume" /\ running
<1>1. /\ w \in World /\ w.s \in Fields /\ w.flows[f] \in Flow /\ w.s.access.turn \in Turns
    BY Parts DEF Guarded, Fields, Grant
<1>2. PICK control : control = [turn |-> w.s.access.turn,
                                state |-> IF running THEN "running" ELSE "paused",
                                resuming |-> FALSE]
    OBVIOUS
<1>3. control \in Control
    <2>1. PICK state : state = IF running THEN "running" ELSE "paused"
        OBVIOUS
    <2>2. control = [turn |-> w.s.access.turn, state |-> state, resuming |-> FALSE]
          /\ state \in {"running", "paused"}
        BY <1>2, <2>1
    <2> QED
        BY <1>1, <2>2 DEF Control
<1>4. PICK c : c = IF goes THEN w.s.control ELSE control
    OBVIOUS
<1>5. PICK d : d = [w.s EXCEPT !.early = "none", !.beat = TRUE, !.control = c]
    OBVIOUS
<1>6. d \in Fields /\ d.access = w.s.access
    <2>1. c \in Control \cup {None}
        BY <1>1, <1>3, <1>4 DEF Fields
    <2> QED
        BY <1>1, <1>5, <2>1 DEF Fields
<1>7. PICK x : x = Fielded(w, d)
    OBVIOUS
<1>8. x \in World /\ x.s = d /\ x.flows = w.flows /\ x.link = w.link /\ SameFrame(w, x)
    BY <1>1, <1>6, <1>7, WithFields DEF Fielded
<1>9. Cold(x) /\ Clear(x) /\ Timely(x, t)
    BY <1>6, <1>8 DEF Guarded, Cold, Clear, Timely, Halting, Grants, SameFrame
<1>10. Guarded(x, t)
    BY <1>8, <1>9, ClearGuarded
<1>11. PICK u : u = Refreshed(x, f)
    OBVIOUS
<1>12. Guarded(u, t)
    BY <1>8, <1>9, <1>11, RefreshedGuarded
<1>13. PICK y : y = IF w.s.early = "paused" THEN u ELSE x
    OBVIOUS
<1>14. x = [w EXCEPT !.s.early = "none", !.s.beat = TRUE,
                     !.s.control = IF w.flows[f].kind = "resume" /\ running THEN @ ELSE control]
    BY <1>1, <1>4, <1>5, <1>7 DEF Fielded, World, Fields
<1>15. Controlled(w, f, running) =
           IF w.flows[f].kind = "decide" THEN Granted(y, f)
           ELSE IF w.flows[f].kind = "resume" /\ running
           THEN Ask([y EXCEPT !.flows[f].req = "none"], f, "observe")
           ELSE Released(y, f)
    <2> DEFINE fl == w.flows[f]
               control0 == [turn |-> w.s.access.turn,
                            state |-> IF running THEN "running" ELSE "paused",
                            resuming |-> FALSE]
               x0 == [w EXCEPT !.s.early = "none", !.s.beat = TRUE,
                               !.s.control = IF fl.kind = "resume" /\ running THEN @
                                             ELSE control0]
               y0 == IF w.s.early = "paused"
                     THEN [Bumped(x0, f) EXCEPT !.flows[f].fresh = TRUE] ELSE x0
    <2>1. Controlled(w, f, running) =
              IF fl.kind = "decide" THEN Granted(y0, f)
              ELSE IF fl.kind = "resume" /\ running
              THEN Ask([y0 EXCEPT !.flows[f].req = "none"], f, "observe")
              ELSE Released(y0, f)
        BY Zenon DEF Controlled
    <2>2. x0 = x
        BY <1>2, <1>14
    <2> HIDE DEF x0
    <2>3. y0 = y
        BY <1>11, <1>13, <2>2 DEF Refreshed
    <2> HIDE DEF y0
    <2> QED
        BY <2>1, <2>3
<1>16. Guarded(y, t)
    BY <1>10, <1>12, <1>13
<1>17. ASSUME goes PROVE Guarded(Ask([y EXCEPT !.flows[f].req = "none"], f, "observe"), t)
    <2>1. y = x
        BY <1>13, <1>17
    <2>2. PICK q : q = Moved(x, f, "start", "none")
        OBVIOUS
    <2>3. "start" \in Awaits /\ "none" \in Promises /\ "observe" \in Methods
        BY DEF Awaits, Promises, Methods
    <2>4. Can(x, t, f, "start")
        BY <1>8, OtherCan
    <2>5. Guarded(q, t) /\ q.flows[f].kind = x.flows[f].kind
        <3>1. Guarded(q, t) /\ StandsAt(x, f, "start", "none", q)
            BY <1>10, <2>2, <2>3, <2>4, NothingKept, MovedGuarded
        <3> QED
            BY <3>1 DEF StandsAt
    <2>6. q = [x EXCEPT !.flows[f].req = "none"]
        <3>1. /\ x.flows \in [Slots -> Flow] /\ x.flows[f] \in Flow /\ x.flows[f].pc = "start"
            BY <1>8, Parts
        <3> QED
            BY <1>8, <2>2, <3>1 DEF World, Flow, Moved, At, Called
    <2>7. Can(q, t, f, "observe")
        BY <1>8, <2>5, OtherCan
    <2> QED
        BY <2>1, <2>3, <2>5, <2>6, <2>7, AskGuarded
<1> QED
    BY <1>15, <1>16, <1>17, GrantedGuarded, ReleasedGuarded

---------------------------------------------------------------------------
(* The reactions                                                           *)

GInv == Guarded(Now, turn)

LEMMA NowIsGuarded ==
    ASSUME IInv, GInv
    PROVE  \E n, t : IsNow(n, t) /\ Good(n, None, t) /\ t \in 1..MaxTurns + 1 /\ Guarded(n, t)
<1>1. PICK n, t : IsNow(n, t) /\ Good(n, None, t) /\ t \in 1..MaxTurns + 1
    BY NowIs
<1>2. Guarded(n, t)
    BY <1>1 DEF GInv, IsNow
<1> QED
    BY <1>1, <1>2

LEMMA SetGuarded ==
    ASSUME NEW w, NEW t, Set(w), turn' = t, Guarded(w, t) PROVE GInv'
<1>1. w \in World
    BY DEF Guarded
<1>2. Now' = w
    BY <1>1 DEF Set, Now, World
<1> QED
    BY <1>2 DEF GInv

\* The helper has one request at a time: while it answers another, no action.
LEMMA NothingSent ==
    ASSUME NEW n, NEW t, NEW f \in Slots, Good(n, None, t), UnderWay(n.flows[f]),
           n.flows[f].kind # "act"
    PROVE  \A g \in Slots : ~Sent(n.flows[g])
BY DEF Good, OneRequest, Sent, UnderWay

\* A call may ask where it is, but while input is on and it has yet to send.
Unsent(fl) == fl.pc = "act" => fl.req = "kept"

LEMMA CanStay ==
    ASSUME NEW w, NEW t, NEW f \in Slots, Guarded(w, t), Unsent(w.flows[f]),
           NEW p, p = w.flows[f].pc
    PROVE  Can(w, t, f, p)
BY DEF Unsent, Guarded, Timely, Cold, Acts, Can, Covered

LEMMA AdmittedGuarded ==
    ASSUME IInv, GInv, NEW f \in Slots, Admitted(f) PROVE GInv'
<1>1. PICK n, t : IsNow(n, t) /\ Good(n, None, t) /\ t \in 1..MaxTurns + 1 /\ Guarded(n, t)
    BY NowIsGuarded
<1>2. /\ n \in World /\ n.flows[f] \in Flow /\ n.flows \in [Slots -> Flow] /\ turn' = t
      /\ n.flows[f].pc \in Places[n.flows[f].kind] /\ n.flows[f].pc = "readiness"
    BY <1>1, Parts DEF Good, Placed, Admitted, IsNow
<1>3. n.flows[f].kind \in {"request", "trust", "act"}
    BY <1>2, KindsOfPlaces
<1>4. PICK x : x = Moved(n, f, "readiness", "none")
    OBVIOUS
<1>5. x = [Now EXCEPT !.flows[f].req = "none"]
    BY ZenonT(60), <1>1, <1>2, <1>4 DEF World, Flow, Moved, At, Called, IsNow
<1>6. "readiness" \in Awaits /\ "none" \in Promises
    BY DEF Awaits, Promises
<1>7. /\ Guarded(x, t) /\ x.flows[f].kind = n.flows[f].kind
      /\ x.flows[f].turn = n.flows[f].turn /\ (x.flows[f].fresh <=> n.flows[f].fresh)
    <2>1. Unsent(n.flows[f])
        BY <1>2 DEF Unsent
    <2>2. Can(n, t, f, "readiness")
        BY <1>1, <1>2, <2>1, CanStay
    <2>3. Guarded(x, t) /\ StandsAt(n, f, "readiness", "none", x)
        BY <1>1, <1>4, <1>6, <2>2, NothingKept, MovedGuarded
    <2> QED
        BY <2>3 DEF StandsAt
<1>8. PICK y : y = IF ~n.flows[f].fresh THEN Released(x, f)
                   ELSE IF n.flows[f].kind = "act" THEN UseAccess(x, f)
                   ELSE RequestAccess(x, f)
    OBVIOUS
<1>9. Set(y)
    BY <1>1, <1>5, <1>8 DEF Admitted, IsNow
<1>10. n.flows[f].fresh => n.flows[f].turn = t
    BY <1>1, <1>2 DEF Guarded, Timely
<1>11. Guarded(Released(x, f), t)
    BY <1>7, ReleasedGuarded
<1>12. n.flows[f].fresh /\ n.flows[f].kind = "act" => Guarded(UseAccess(x, f), t)
    BY <1>7, <1>10, UseAccessGuarded
<1>13. n.flows[f].fresh /\ n.flows[f].kind # "act" => Guarded(RequestAccess(x, f), t)
    BY <1>3, <1>7, <1>10, RequestAccessGuarded
<1> QED
    BY <1>2, <1>8, <1>9, <1>11, <1>12, <1>13, SetGuarded

LEMMA HealthOverGuarded ==
    ASSUME IInv, GInv, NEW f \in Slots, HealthOver(f) PROVE GInv'
<1>1. PICK n, t : IsNow(n, t) /\ Good(n, None, t) /\ t \in 1..MaxTurns + 1 /\ Guarded(n, t)
    BY NowIsGuarded
<1>2. /\ n \in World /\ n.flows[f] \in Flow /\ turn' = t
      /\ n.flows[f].pc \in Places[n.flows[f].kind]
      /\ n.flows[f].pc \in {"queued", "waiting"}
    BY <1>1, Parts DEF Good, Placed, HealthOver, IsNow
<1>3. PICK m : m = Request(n.flows[f])
    OBVIOUS
<1>4. PICK y : y = IF n.flows[f].pc = "queued" /\ n.flows[f].kind # "trust"
                      /\ ~Stands(n.flows[f])
                   THEN Throw(n, f, "cancelled") ELSE Ask(n, f, m)
    OBVIOUS
<1>5. Set(y)
    BY <1>1, <1>3, <1>4 DEF HealthOver, IsNow
<1>6. m \in Methods /\ m # "act"
    <2>1. CASE n.flows[f].pc = "waiting"
        BY <1>3, <2>1 DEF Request, Methods
    <2>2. CASE n.flows[f].pc = "queued"
        <3>1. n.flows[f].kind \in {"hello", "list", "decide", "trust", "observe", "act"}
            BY <1>2, <2>2, KindsOfPlaces
        <3>2. m = IF n.flows[f].kind \in {"hello", "list"} THEN n.flows[f].kind
                  ELSE IF n.flows[f].kind = "decide" THEN "select" ELSE "validate"
            BY <1>3, <2>2 DEF Request
        <3> QED
            BY <3>1, <3>2 DEF Methods
    <2> QED
        BY <1>2, <2>1, <2>2
<1>7. Can(n, t, f, m)
    <2>1. Can(n, t, f, n.flows[f].pc)
        <3>1. Unsent(n.flows[f])
            BY <1>2 DEF Unsent
        <3> QED
            BY <1>1, <3>1, CanStay
    <2> QED
        BY <1>2, <1>6, <2>1, MethodsAwait DEF Can
<1>8. Guarded(Throw(n, f, "cancelled"), t) /\ Guarded(Ask(n, f, m), t)
    BY <1>1, <1>6, <1>7, ThrowGuarded, AskGuarded
<1> QED
    BY <1>2, <1>4, <1>5, <1>8, SetGuarded

LEMMA LinkedGuarded ==
    ASSUME IInv, GInv, NEW f \in Slots, Linked(f) PROVE GInv'
<1>1. PICK n, t : IsNow(n, t) /\ Good(n, None, t) /\ t \in 1..MaxTurns + 1 /\ Guarded(n, t)
    BY NowIsGuarded
<1>2. /\ n \in World /\ n.flows[f] \in Flow /\ Waits(n.flows[f]) /\ turn' = t
      /\ n.flows[f].pc \notin {"readiness", "overlay"} /\ n.flows[f].req \in {"kept", "broken"}
    BY <1>1, Parts DEF Good, Placed, Linked, IsNow
<1>3. n.flows[f].pc \in Methods
    BY <1>2 DEF Waits, Flow, Awaits, Methods
<1>4. PICK y : y = IF n.flows[f].req = "kept" THEN Ask(n, f, n.flows[f].pc)
                   ELSE Throw(n, f, "cancelled")
    OBVIOUS
<1>5. Set(y)
    BY <1>1, <1>4 DEF Linked, IsNow
<1>6. Guarded(Throw(n, f, "cancelled"), t)
    BY <1>1, ThrowGuarded
<1>7. n.flows[f].req = "kept" => Guarded(Ask(n, f, n.flows[f].pc), t)
    <2>1. n.flows[f].req = "kept" => Can(n, t, f, n.flows[f].pc)
        BY <1>1, CanStay DEF Unsent
    <2> QED
        BY <1>1, <1>3, <2>1, AskGuarded
<1> QED
    BY <1>2, <1>4, <1>5, <1>6, <1>7, SetGuarded

LEMMA PreparedGuarded ==
    ASSUME IInv, GInv, NEW f \in Slots, Prepared(f) PROVE GInv'
<1>1. PICK n, t : IsNow(n, t) /\ Good(n, None, t) /\ t \in 1..MaxTurns + 1 /\ Guarded(n, t)
    BY NowIsGuarded
<1>2. /\ n \in World /\ n.s \in Fields /\ n.flows[f] \in Flow /\ turn' = t
      /\ n.flows[f].pc = "overlay" /\ n.flows[f].pc \in Places[n.flows[f].kind]
    BY <1>1, Parts DEF Good, Placed, Prepared, IsNow
<1>3. n.flows[f].kind # "act"
    BY <1>2, KindsOfPlaces DEF Starting
<1>4. PICK d : d = [n.s EXCEPT !.early = "open"]
    OBVIOUS
<1>5. d \in Fields /\ d.access = n.s.access /\ d.control = n.s.control
    BY <1>2, <1>4 DEF Fields
<1>6. PICK w : w = Fielded(n, d)
    OBVIOUS
<1>7. Guarded(w, t) /\ w.flows = n.flows
    BY <1>1, <1>5, <1>6, FieldedGuarded DEF Running
<1>8. w = [Now EXCEPT !.s.early = "open"]
    BY <1>1, <1>2, <1>4, <1>6 DEF IsNow, Fielded, World, Fields
<1>9. PICK y : y = IF n.flows[f].req = "broken" THEN Throw(n, f, "refused")
                   ELSE IF ~n.flows[f].fresh \/ n.s.access = None THEN Throw(n, f, "cancelled")
                   ELSE Ask(w, f, "start")
    OBVIOUS
<1>10. Set(y)
    BY <1>1, <1>8, <1>9, Zenon DEF Prepared, IsNow
<1>11. Guarded(Throw(n, f, "refused"), t) /\ Guarded(Throw(n, f, "cancelled"), t)
    BY <1>1, ThrowGuarded
<1>12. Guarded(Ask(w, f, "start"), t)
    <2>1. Can(w, t, f, "start") /\ "start" \in Methods
        BY <1>3, <1>7, OtherCan DEF Methods
    <2> QED
        BY <1>7, <2>1, AskGuarded
<1> QED
    BY <1>2, <1>9, <1>10, <1>11, <1>12, SetGuarded

---------------------------------------------------------------------------
(* Calls that begin                                                        *)

\* A call begins that is no action.
LEMMA BeginGuarded ==
    ASSUME NEW w, NEW t, NEW f \in Slots, Guarded(w, t), NEW e \in Flow,
           e.kind # "act", e.pc = "idle", NEW y, y = Called(w, f, e)
    PROVE  /\ Guarded(y, t) /\ y.flows[f] = e
           /\ \A g \in Slots : g # f => y.flows[g] = w.flows[g]
           /\ y.s = w.s /\ y.link = w.link /\ SameFrame(w, y)
<1>1. Fitting(w, t, e)
    BY DEF Fitting, Acts, Sent
<1> QED
    BY <1>1, CalledGuarded

LEMMA CheckGuarded ==
    ASSUME NEW w, NEW t, NEW f \in Slots, NEW g \in Slots, Guarded(w, t), f # g,
           NEW call \in Flow, call.turn = t
    PROVE  Guarded(Check(w, f, g, call), t)
<1>1. w \in World /\ w.flows \in [Slots -> Flow]
    BY Parts DEF Guarded
<1>2. PICK e : e = At(call, "readiness", call.req)
    OBVIOUS
<1>3. "readiness" \in Awaits /\ call.req \in Promises
    BY DEF Awaits, Flow
<1>4. e \in Flow /\ e.pc = "readiness" /\ e.turn = t
    BY <1>2, <1>3, MovedFacts
<1>5. Fitting(w, t, e)
    BY <1>4 DEF Fitting, Acts, Sent
<1>6. PICK x : x = Called(w, f, e)
    OBVIOUS
<1>7. Guarded(x, t) /\ x.s = w.s
    BY <1>4, <1>5, <1>6, CalledGuarded
<1>8. x = [w EXCEPT !.flows[f] = [call EXCEPT !.pc = "readiness"]]
    BY <1>1, <1>2, <1>6 DEF World, Flow, Called, At
<1>9. CASE w.s.flight # None
    BY <1>7, <1>8, <1>9 DEF Check
<1>10. CASE w.s.flight = None
    <2>1. PICK a : a = Call("hello", call.turn, call.mode)
        OBVIOUS
    <2>2. call.turn \in Turns /\ call.mode \in Modes /\ "hello" \in Kinds
        BY DEF Flow, Kinds
    <2>3. a \in Flow /\ a.kind = "hello" /\ a.pc = "idle"
        BY <2>1, <2>2, CallFacts
    <2>4. PICK u : u = Called(x, g, a)
        OBVIOUS
    <2>5. Guarded(u, t) /\ u.flows[g] = a /\ u.s = x.s
        BY SMTT(30), <1>7, <2>3, <2>4, BeginGuarded
    <2>6. PICK d : d = [u.s EXCEPT !.flight = g]
        OBVIOUS
    <2>7. u.s \in Fields /\ x \in World /\ u \in World
        BY <1>7, <2>5, Parts DEF Guarded
    <2>8. d \in Fields /\ d.access = u.s.access /\ d.control = u.s.control
        BY <2>6, <2>7 DEF Fields
    <2>9. PICK y : y = Fielded(u, d)
        OBVIOUS
    <2>10. Guarded(y, t) /\ y.flows = u.flows
        BY <2>5, <2>8, <2>9, FieldedGuarded DEF Running
    <2>11. y = [x EXCEPT !.flows[g] = Call("hello", call.turn, call.mode), !.s.flight = g]
        BY <2>1, <2>4, <2>5, <2>6, <2>7, <2>9 DEF Called, Fielded, World
    <2>12. Check(w, f, g, call) = AfterHealth(y, g, "queued", "hello")
        BY <1>8, <1>10, <2>11, Zenon DEF Check
    <2>13. Can(y, t, g, "queued") /\ Can(y, t, g, "hello") /\ "hello" \in Methods
        BY <2>3, <2>5, <2>10, OtherCan DEF Methods
    <2> QED
        BY <2>10, <2>12, <2>13, AfterHealthGuarded
<1> QED
    BY <1>9, <1>10

LEMMA ExecuteGuarded ==
    ASSUME IInv, GInv, NEW f \in Slots, NEW g \in Slots,
           NEW kind \in {"request", "trust", "act"}, NEW latest \in BOOLEAN,
           Execute(f, g, kind, latest)
    PROVE  GInv'
<1>1. PICK n, t : IsNow(n, t) /\ Good(n, None, t) /\ t \in 1..MaxTurns + 1 /\ Guarded(n, t)
    BY NowIsGuarded
<1>2. f # g /\ t \in Turns /\ turn' = t
    BY <1>1 DEF Execute, IsNow
<1>3. PICK e : e = Call(kind, t, "control")
    OBVIOUS
<1>4. kind \in Kinds /\ "control" \in Modes
    BY DEF Kinds, Modes
<1>5. e \in Flow /\ e.turn = t
    BY <1>2, <1>3, <1>4, CallFacts
<1>6. PICK c : c = [e EXCEPT !.latest = latest]
    OBVIOUS
<1>7. c \in Flow /\ c.turn = t
    BY <1>5, <1>6 DEF Flow
<1>8. PICK y : y = Check(n, f, g, c)
    OBVIOUS
<1>9. Set(y)
    BY <1>1, <1>3, <1>6, <1>8 DEF Execute, IsNow
<1>10. Guarded(y, t)
    BY <1>1, <1>2, <1>7, <1>8, CheckGuarded
<1> QED
    BY <1>2, <1>9, <1>10, SetGuarded

LEMMA ObserveGuarded ==
    ASSUME IInv, GInv, NEW f \in Slots, NEW kind \in {"request", "observe"}, Observe(f, kind)
    PROVE  GInv'
<1>1. PICK n, t : IsNow(n, t) /\ Good(n, None, t) /\ t \in 1..MaxTurns + 1 /\ Guarded(n, t)
    BY NowIsGuarded
<1>2. t \in Turns /\ turn' = t
    BY <1>1 DEF Observe, IsNow
<1>3. PICK e : e = Call(kind, t, "observe")
    OBVIOUS
<1>4. kind \in Kinds /\ "observe" \in Modes
    BY DEF Kinds, Modes
<1>5. e \in Flow /\ e.kind = kind /\ e.pc = "idle" /\ e.turn = t
    BY <1>2, <1>3, <1>4, CallFacts
<1>6. PICK x : x = Called(n, f, e)
    OBVIOUS
<1>7. Guarded(x, t) /\ x.flows[f] = e
    BY <1>1, <1>5, <1>6, BeginGuarded
<1>8. x = [Now EXCEPT !.flows[f] = Call(kind, turn, "observe")]
    BY <1>1, <1>3, <1>6 DEF IsNow, Called, Good, World
<1>9. PICK y : y = IF kind = "request" THEN RequestAccess(x, f) ELSE UseAccess(x, f)
    OBVIOUS
<1>10. Set(y)
    BY <1>8, <1>9 DEF Observe
<1>11. Guarded(y, t)
    BY <1>5, <1>7, <1>9, RequestAccessGuarded, UseAccessGuarded
<1> QED
    BY <1>2, <1>10, <1>11, SetGuarded

LEMMA ListGuarded ==
    ASSUME IInv, GInv, NEW f \in Slots, List(f) PROVE GInv'
<1>1. PICK n, t : IsNow(n, t) /\ Good(n, None, t) /\ t \in 1..MaxTurns + 1 /\ Guarded(n, t)
    BY NowIsGuarded
<1>2. n.s.decision # None /\ n.s \in Fields /\ turn' = t
    BY <1>1, Parts DEF List, IsNow, Good
<1>3. n.s.decision.turn \in Turns /\ n.s.decision.mode \in Modes
    BY <1>2 DEF Fields, Grant
<1>4. PICK e : e = Call("list", n.s.decision.turn, n.s.decision.mode)
    OBVIOUS
<1>5. e \in Flow /\ e.kind = "list" /\ e.pc = "idle"
    BY <1>3, <1>4, CallFacts DEF Kinds
<1>6. PICK x : x = Called(n, f, e)
    OBVIOUS
<1>7. Guarded(x, t) /\ x.flows[f] = e
    BY <1>1, <1>5, <1>6, BeginGuarded
<1>8. PICK y : y = AfterHealth(x, f, "queued", "list")
    OBVIOUS
<1>9. Set(y)
    <2>1. x = [Now EXCEPT !.flows[f] = Call("list", s.decision.turn, s.decision.mode)]
        BY <1>1, <1>4, <1>6 DEF IsNow, Called, Good, World
    <2> QED
        BY <1>8, <2>1 DEF List
<1>10. Can(x, t, f, "queued") /\ Can(x, t, f, "list") /\ "list" \in Methods
    BY <1>5, <1>7, OtherCan DEF Methods
<1>11. Guarded(y, t)
    BY <1>7, <1>8, <1>10, AfterHealthGuarded
<1> QED
    BY <1>2, <1>9, <1>11, SetGuarded

LEMMA DecideGuarded ==
    ASSUME IInv, GInv, NEW f \in Slots, Decide(f) PROVE GInv'
<1>1. PICK n, t : IsNow(n, t) /\ Good(n, None, t) /\ t \in 1..MaxTurns + 1 /\ Guarded(n, t)
    BY NowIsGuarded
<1>2. /\ n \in World /\ n.s.decision # None /\ n.s \in Fields /\ turn' = t
      /\ n.consent \in [Turns -> SUBSET Modes]
    BY <1>1, Parts DEF Decide, IsNow, Good, World
<1>3. PICK u, m : u = n.s.decision.turn /\ m = n.s.decision.mode
    OBVIOUS
<1>4. u \in Turns /\ m \in Modes
    BY <1>2, <1>3 DEF Fields, Grant
<1>5. PICK e : e = Call("decide", u, m)
    OBVIOUS
<1>6. e \in Flow /\ e.kind = "decide" /\ e.pc = "idle"
    BY <1>4, <1>5, CallFacts DEF Kinds
<1>7. PICK k : k = [n.consent EXCEPT ![u] = {m}]
    OBVIOUS
<1>8. k \in [Turns -> SUBSET Modes]
    BY <1>2, <1>4, <1>7
<1>9. PICK w : w = [n EXCEPT !.consent = k]
    OBVIOUS
<1>10. w \in World /\ w.s = n.s /\ w.flows = n.flows /\ w.native = n.native /\ w.link = n.link
    BY <1>2, <1>8, <1>9 DEF World
<1>11. Guarded(w, t)
    BY <1>1, <1>10, SameGuarded
<1>12. PICK z : z = Called(w, f, e)
    OBVIOUS
<1>13. Guarded(z, t) /\ z.flows[f] = e
    BY <1>6, <1>11, <1>12, BeginGuarded
<1>14. PICK y : y = AfterHealth(z, f, "queued", "select")
    OBVIOUS
<1>15. Set(y)
    <2>1. z = [Now EXCEPT !.flows[f] = Call("decide", s.decision.turn, s.decision.mode),
                          !.consent[s.decision.turn] = {s.decision.mode}]
        BY <1>1, <1>2, <1>3, <1>5, <1>7, <1>9, <1>12 DEF IsNow, Called, World
    <2> QED
        BY <1>14, <2>1 DEF Decide
<1>16. Can(z, t, f, "queued") /\ Can(z, t, f, "select") /\ "select" \in Methods
    BY <1>6, <1>13, OtherCan DEF Methods
<1>17. Guarded(y, t)
    BY <1>13, <1>14, <1>16, AfterHealthGuarded
<1> QED
    BY <1>2, <1>15, <1>17, SetGuarded

\* While control is paused, input that is on is about to go off.
LEMMA ResumeGuarded ==
    ASSUME IInv, GInv, NEW f \in Slots, Resume(f) PROVE GInv'
<1>1. PICK n, t : IsNow(n, t) /\ Good(n, None, t) /\ t \in 1..MaxTurns + 1 /\ Guarded(n, t)
    BY NowIsGuarded
<1>2. /\ n.s.control # None /\ n.s.control.state = "paused"
      /\ n.s.access # None /\ n.s \in Fields /\ turn' = t
    BY <1>1, Parts DEF Resume, IsNow, Good
<1>3. PICK p : p = Framed(n, FALSE)
    OBVIOUS
<1>4. Guarded(p, t) /\ SameAccess(n.s, p.s)
    BY <1>1, <1>3, FramedGuarded
<1>5. n.s.access.turn \in Turns /\ p \in World /\ p.s \in Fields
    BY <1>2, <1>4, Parts DEF Fields, Grant, Guarded
<1>6. PICK a : a = Call("resume", n.s.access.turn, "control")
    OBVIOUS
<1>7. a \in Flow /\ a.kind = "resume" /\ a.pc = "idle"
    BY <1>5, <1>6, CallFacts DEF Kinds, Modes
<1>8. PICK e : e = [a EXCEPT !.fresh = FALSE]
    OBVIOUS
<1>9. e \in Flow /\ e.kind = "resume" /\ e.pc = "idle"
    BY <1>7, <1>8 DEF Flow
<1>10. PICK u : u = Called(p, f, e)
    OBVIOUS
<1>11. Guarded(u, t) /\ u.flows[f] = e /\ u.s = p.s
    BY <1>4, <1>9, <1>10, BeginGuarded
<1>12. PICK c : c = [p.s.control EXCEPT !.resuming = TRUE]
    OBVIOUS
<1>13. c \in Control
    BY <1>2, <1>4, <1>5, <1>12 DEF Control, Fields, SameAccess
<1>14. PICK d : d = [p.s EXCEPT !.busy = f, !.resuming = f, !.control = c]
    OBVIOUS
<1>15. d \in Fields /\ d.access = p.s.access
    BY <1>5, <1>13, <1>14 DEF Fields
<1>16. PICK x : x = Fielded(u, d)
    OBVIOUS
<1>17. ~Running(u)
    BY <1>2, <1>4, <1>11 DEF Running, SameAccess
<1>18. Guarded(x, t) /\ x.s = d /\ x.flows = u.flows /\ x.link = u.link /\ SameFrame(u, x)
    BY <1>11, <1>15, <1>16, <1>17, FieldedGuarded DEF Running
<1>19. Clear(x)
    BY <1>11, <1>17, <1>18 DEF Clear, Guarded, Backed, Covered, Halting, SameFrame
<1>20. PICK y : y = StartControl(x, f)
    OBVIOUS
<1>21. Set(y)
    <2>1. u \in World
        BY <1>11 DEF Guarded
    <2>2. x = [p EXCEPT !.s = d, !.flows = u.flows]
        BY <1>5, <1>10, <1>16, <2>1 DEF Called, Fielded, World
    <2>3. u.flows = [p.flows EXCEPT ![f] = e]
        BY <1>5, <1>10 DEF Called, World
    <2>4. x = [p EXCEPT !.s.busy = f, !.s.resuming = f, !.s.control.resuming = TRUE,
                        !.flows[f] = e]
        BY <1>5, <1>12, <1>14, <2>2, <2>3 DEF World, Fields
    <2> QED
        BY <1>1, <1>3, <1>6, <1>8, <1>20, <2>4 DEF Resume, IsNow
<1>22. Guarded(y, t)
    BY <1>9, <1>11, <1>18, <1>19, <1>20, StartControlGuarded DEF Guarded
<1> QED
    BY <1>2, <1>21, <1>22, SetGuarded

LEMMA ProbeGuarded ==
    ASSUME IInv, GInv, NEW f \in Slots, Probe(f) PROVE GInv'
<1>1. PICK n, t : IsNow(n, t) /\ Good(n, None, t) /\ t \in 1..MaxTurns + 1 /\ Guarded(n, t)
    BY NowIsGuarded
<1>2. turn' = t
    BY <1>1 DEF Probe, IsNow
<1>3. PICK e : e = Call("probe", 1, "observe")
    OBVIOUS
<1>4. 1 \in Turns
    BY DEF Turns
<1>5. e \in Flow /\ e.kind = "probe" /\ e.pc = "idle"
    BY <1>3, <1>4, CallFacts DEF Kinds, Modes
<1>6. PICK u : u = Called(n, f, e)
    OBVIOUS
<1>7. Guarded(u, t) /\ u.flows[f] = e /\ u.s = n.s
    BY <1>1, <1>5, <1>6, BeginGuarded
<1>8. u \in World /\ u.s \in Fields /\ n \in World
    BY <1>1, <1>7, Parts DEF Guarded
<1>9. PICK d : d = [u.s EXCEPT !.health = f]
    OBVIOUS
<1>10. d \in Fields /\ d.access = u.s.access /\ d.control = u.s.control
    BY <1>8, <1>9 DEF Fields
<1>11. PICK x : x = Fielded(u, d)
    OBVIOUS
<1>12. Guarded(x, t) /\ x.flows = u.flows
    BY <1>7, <1>10, <1>11, FieldedGuarded DEF Running
<1>13. PICK y : y = Ask(x, f, "validate")
    OBVIOUS
<1>14. Set(y)
    <2>1. x = [Now EXCEPT !.flows[f] = Call("probe", 1, "observe"), !.s.health = f]
        BY <1>1, <1>3, <1>6, <1>7, <1>8, <1>9, <1>11 DEF IsNow, Called, Fielded, World
    <2> QED
        BY <1>13, <2>1 DEF Probe
<1>15. Can(x, t, f, "validate") /\ "validate" \in Methods
    BY <1>5, <1>7, <1>12, OtherCan DEF Methods
<1>16. Guarded(y, t)
    BY <1>12, <1>13, <1>15, AskGuarded
<1> QED
    BY <1>2, <1>14, <1>16, SetGuarded

---------------------------------------------------------------------------
(* Revocations, pauses and the end of a turn                               *)

\* A turn that ends with nothing of its own has no action, and none that could
\* become one.
LEMMA TurnEndsGuarded ==
    ASSUME IInv, GInv, TurnEnds PROVE GInv'
<1>1. PICK n, t : IsNow(n, t) /\ Good(n, None, t) /\ t \in 1..MaxTurns + 1 /\ Guarded(n, t)
    BY NowIsGuarded
<1>2. t \in Turns /\ turn' = t + 1
    BY <1>1 DEF TurnEnds, IsNow
<1>3. n \in World
    BY <1>1 DEF Good
<1>4. PICK x : x = Finished(n, t)
    OBVIOUS
<1>5. PICK k : k = [x.consent EXCEPT ![t] = {}]
    OBVIOUS
<1>6. PICK y : y = [x EXCEPT !.consent = k]
    OBVIOUS
<1>7. x \in World
    BY <1>1, <1>2, <1>4, FinishedGood DEF Good
<1>8. k \in [Turns -> SUBSET Modes]
    BY <1>2, <1>5, <1>7 DEF World
<1>9. y \in World /\ y.s = x.s /\ y.flows = x.flows /\ y.native = x.native /\ y.link = x.link
    BY <1>6, <1>7, <1>8 DEF World
<1>10. Set(y)
    BY <1>1, <1>4, <1>5, <1>6, <1>7 DEF TurnEnds, IsNow, World
<1> DEFINE mine == {t} \cap (TurnOf(n.s.access) \cup TurnOf(n.s.decision) \cup Checking(n))
<1>11. CASE mine = {}
    <2>1. x = n
        BY <1>4, <1>11 DEF Finished
    <2>2. ASSUME NEW f \in Slots, n.flows[f].pc = "readiness", n.flows[f].fresh PROVE FALSE
        <3>1. n.flows[f].turn = t
            BY <1>1, <2>2 DEF Guarded, Timely
        <3> QED
            BY <1>11, <2>2, <3>1 DEF Checking
    <2>3. ASSUME NEW f \in Slots, Acts(n.flows[f]), Grants(n) PROVE FALSE
        <3>1. n.s.access # None /\ n.s.access.turn = t
            BY <1>1, <2>3 DEF Guarded, Timely, Grants
        <3> QED
            BY <1>11, <3>1 DEF TurnOf
    <2>4. Timely(n, t + 1)
        BY <2>2, <2>3 DEF Timely
    <2>5. Guarded(n, t + 1)
        BY <1>1, <2>4 DEF Guarded
    <2>6. Guarded(y, t + 1)
        BY <1>9, <2>1, <2>5, SameGuarded
    <2> QED
        BY <1>2, <1>10, <2>6, SetGuarded
<1>12. CASE mine # {}
    <2>1. t \in TurnOf(n.s.access) \cup TurnOf(n.s.decision) \cup Checking(n)
        BY <1>12
    <2>2. Bereft(n, x)
        BY <1>2, <1>3, <1>4, <2>1, FinishedFacts
    <2>3. /\ Dimmed(n, x) /\ Barren(x) /\ x.native = n.native /\ x.link.stop # "none"
          /\ n.link.proc # "none" => x.link.proc = n.link.proc
          /\ n.link.proc = "none" => x.link.proc # "up"
        BY <2>2 DEF Bereft
    <2>4. Cold(y)
        BY <1>1, <1>9, <2>3 DEF Guarded, Cold, Dimmed, Dimmer
    <2>5. Guarded(y, t + 1)
        BY <1>9, <2>3, <2>4, StaleGuarded DEF Barren, Halting
    <2> QED
        BY <1>2, <1>10, <2>5, SetGuarded
<1> QED
    BY <1>11, <1>12

LEMMA RevokeGuarded ==
    ASSUME IInv, GInv, Set(Revoked(Now)), UNCHANGED turn PROVE GInv'
<1>1. PICK n, t : IsNow(n, t) /\ Good(n, None, t) /\ t \in 1..MaxTurns + 1 /\ Guarded(n, t)
    BY NowIsGuarded
<1>2. PICK y : y = Revoked(n)
    OBVIOUS
<1>3. Guarded(y, t) /\ Set(y) /\ turn' = t
    BY <1>1, <1>2, RevokedGuarded DEF Good, IsNow
<1> QED
    BY <1>3, SetGuarded

LEMMA DisplayChangedGuarded ==
    ASSUME IInv, GInv, DisplayChanged PROVE GInv'
<1>1. PICK n, t : IsNow(n, t) /\ Good(n, None, t) /\ t \in 1..MaxTurns + 1 /\ Guarded(n, t)
    BY NowIsGuarded
<1>2. PICK y : y = Paused(n)
    OBVIOUS
<1>3. Set(y) /\ turn' = t
    BY <1>1, <1>2 DEF IsNow, DisplayChanged
<1> QED
    BY <1>1, <1>2, <1>3, PausedGuarded, SetGuarded

LEMMA HeartbeatGuarded ==
    ASSUME IInv, GInv, Heartbeat PROVE GInv'
<1>1. PICK n, t : IsNow(n, t) /\ Good(n, None, t) /\ t \in 1..MaxTurns + 1 /\ Guarded(n, t)
    BY NowIsGuarded
<1>2. PICK y : y = Signal(n, "beat")
    OBVIOUS
<1>3. Set(y) /\ turn' = t
    BY <1>1, <1>2 DEF IsNow, Heartbeat
<1>4. "beat" \in Signals
    BY DEF Signals
<1>5. n \in World
    BY <1>1 DEF Good
<1>6. y \in World /\ y.s = n.s /\ y.flows = n.flows /\ SameFrame(n, y)
    BY <1>2, <1>4, <1>5, SignalFacts
<1>7. n.link.proc # "none" => y.link.proc = n.link.proc
    BY <1>2, <1>4, <1>5, SignalFacts
<1>8. y.link.pause = n.link.pause /\ y.link.stop = n.link.stop
    BY <1>2, <1>5 DEF Signal, World, Links
<1>9. Dimmed(n, y)
    BY <1>6 DEF Dimmed, Dimmer
<1>10. Guarded(y, t)
    BY <1>1, <1>6, <1>7, <1>8, <1>9, DimmedGuarded DEF SameFrame, Halting
<1> QED
    BY <1>3, <1>10, SetGuarded

LEMMA AcknowledgeGuarded ==
    ASSUME IInv, GInv, Acknowledge PROVE GInv'
<1>1. PICK n, t : IsNow(n, t) /\ Good(n, None, t) /\ t \in 1..MaxTurns + 1 /\ Guarded(n, t)
    BY NowIsGuarded
<1>2. n.s.control # None /\ n.s.control.state = "cancelled" /\ turn' = t
    BY <1>1 DEF Acknowledge, IsNow
<1>3. PICK x : x = CloseOverlay(n)
    OBVIOUS
<1>4. /\ x \in World /\ x.s = n.s /\ x.flows = n.flows /\ x.native = n.native
      /\ x.link = n.link /\ x.s \in Fields
    BY <1>1, <1>3, CloseOverlayFacts, Parts DEF Good
<1>5. Guarded(x, t)
    BY <1>1, <1>4, SameGuarded
<1>6. PICK d : d = [x.s EXCEPT !.control = None]
    OBVIOUS
<1>7. d \in Fields /\ d.access = x.s.access
    BY <1>4, <1>6 DEF Fields
<1>8. PICK y : y = Fielded(x, d)
    OBVIOUS
<1>9. ~Running(x)
    BY <1>2, <1>4 DEF Running
<1>10. Guarded(y, t)
    BY <1>5, <1>7, <1>8, <1>9, FieldedGuarded
<1>11. Set(y)
    BY <1>1, <1>3, <1>4, <1>6, <1>8 DEF Acknowledge, IsNow, Fielded, World
<1> QED
    BY <1>2, <1>10, <1>11, SetGuarded

LEMMA AllowGuarded ==
    ASSUME IInv, GInv, NEW setting \in {"off", "observe", "control"}, Allow(setting) PROVE GInv'
<1>1. PICK n, t : IsNow(n, t) /\ Good(n, None, t) /\ t \in 1..MaxTurns + 1 /\ Guarded(n, t)
    BY NowIsGuarded
<1> DEFINE Ends == \/ setting = "off"
                   \/ /\ setting = "observe"
                      /\ n.s.control # None
                         \/ (n.s.decision # None /\ n.s.decision.mode = "control")
<1>2. PICK x : x = IF Ends THEN Revoked(n) ELSE n
    OBVIOUS
<1>3. Guarded(x, t)
    BY <1>1, <1>2, RevokedGuarded DEF Good
<1>4. x \in World /\ x.s \in Fields
    BY <1>3, Parts DEF Guarded
<1>5. PICK d : d = [x.s EXCEPT !.setting = setting]
    OBVIOUS
<1>6. d \in Fields /\ d.access = x.s.access /\ d.control = x.s.control
    BY <1>4, <1>5 DEF Fields
<1>7. PICK y : y = Fielded(x, d)
    OBVIOUS
<1>8. Guarded(y, t)
    BY <1>3, <1>6, <1>7, FieldedGuarded DEF Running
<1>9. Set(y) /\ turn' = t
    <2>1. y = [x EXCEPT !.s.setting = setting]
        BY <1>4, <1>5, <1>7 DEF Fielded, World
    <2> QED
        BY <1>1, <1>2, <2>1 DEF Allow, IsNow
<1> QED
    BY <1>8, <1>9, SetGuarded

---------------------------------------------------------------------------
(* The helper                                                              *)

\* Promises settle; none of an action that is to be sent while input is on.
LEMMA SettledGuarded ==
    ASSUME NEW w, NEW t, Guarded(w, t), NEW waiting, NEW how \in Promises, how # "sent",
           how = "kept" =>
               w.native # "active" \/ \A g \in Slots : g \in waiting => w.flows[g].pc # "act",
           NEW y, y = Settled(w, waiting, how)
    PROVE  Guarded(y, t) /\ y.s = w.s /\ y.link = w.link /\ SameFrame(w, y)
<1>1. w \in World
    BY DEF Guarded
<1>2. /\ y \in World /\ y.s = w.s /\ y.link = w.link /\ SameFrame(w, y)
      /\ \A g \in Slots : g \notin waiting => y.flows[g] = w.flows[g]
      /\ \A g \in Slots : g \in waiting => y.flows[g].req = how
      /\ \A g \in Slots :
             /\ y.flows[g].kind = w.flows[g].kind /\ y.flows[g].pc = w.flows[g].pc
             /\ y.flows[g].turn = w.flows[g].turn
             /\ y.flows[g].fresh <=> w.flows[g].fresh
    BY <1>1, SettledFacts
<1>3. Timely(y, t)
    BY <1>2 DEF Guarded, Timely, Acts, Grants
<1>4. Cold(y)
    BY <1>2 DEF Guarded, Cold, SameFrame
<1>5. ASSUME NEW g \in Slots, Sent(y.flows[g]) PROVE y.flows[g] = w.flows[g]
    BY <1>2, <1>5 DEF Sent
<1>6. Backed(y)
    BY <1>2, <1>5 DEF Guarded, Backed, Covered, Halting, Grants, Running, SameFrame
<1> QED
    BY <1>2, <1>3, <1>4, <1>6 DEF Guarded

\* Input is off in a helper that has just come up.
LEMMA HelperStartsGuarded ==
    ASSUME IInv, GInv, NEW ok \in BOOLEAN, HelperStarts(ok) PROVE GInv'
<1>1. PICK n, t : IsNow(n, t) /\ Good(n, None, t) /\ t \in 1..MaxTurns + 1 /\ Guarded(n, t)
    BY NowIsGuarded
<1> DEFINE waiting == {f \in Slots : n.flows[f].req = "starting"}
           Told(g) == IF n.link[g] # "starting" THEN n.link[g] ELSE IF ok THEN "sent" ELSE "none"
<1>2. PICK how : how = IF ok THEN "kept" ELSE "broken"
    OBVIOUS
<1>3. PICK x : x = Settled(n, waiting, how)
    OBVIOUS
<1>4. /\ n \in World /\ n.link \in Links /\ how \in Promises /\ how # "sent"
      /\ n.native # "active" /\ turn' = t
    BY <1>1, <1>2, Parts DEF Good, Promises, Guarded, Cold, HelperStarts, IsNow
<1>5. Guarded(x, t) /\ SameFrame(n, x)
    <2> HIDE DEF waiting
    <2> QED
        BY <1>1, <1>3, <1>4, SettledGuarded
<1>6. PICK l : l = [proc |-> IF ok THEN "up" ELSE "none", beat |-> Told("beat"),
                    pause |-> Told("pause"), stop |-> Told("stop")]
    OBVIOUS
<1>7. PICK y : y = [x EXCEPT !.link = l]
    OBVIOUS
<1>8. l \in Links
    BY <1>4, <1>6 DEF Links, Way
<1>9. y \in World /\ y.s = x.s /\ y.flows = x.flows /\ SameFrame(x, y)
    BY <1>5, <1>7, <1>8, WithLink DEF Guarded
<1>10. Timely(y, t) /\ y.native # "active"
    BY <1>4, <1>5, <1>9 DEF Guarded, Timely, Grants, SameFrame
<1>11. Guarded(y, t)
    BY <1>9, <1>10, OffGuarded
<1>12. PICK z : z = IF ~ok /\ \E g \in Signals : n.link[g] = "starting" THEN Revoked(y) ELSE y
    OBVIOUS
<1>13. Guarded(z, t)
    BY <1>9, <1>11, <1>12, RevokedGuarded
<1>14. Set(z)
    BY <1>1, <1>2, <1>3, <1>6, <1>7, <1>12, Zenon DEF HelperStarts, IsNow
<1> QED
    BY <1>4, <1>13, <1>14, SetGuarded

LEMMA HelperDiesGuarded ==
    ASSUME IInv, GInv, HelperDies PROVE GInv'
<1>1. PICK n, t : IsNow(n, t) /\ Good(n, None, t) /\ t \in 1..MaxTurns + 1 /\ Guarded(n, t)
    BY NowIsGuarded
<1> DEFINE sent == {f \in Slots : UnderWay(n.flows[f])}
<1>2. PICK x : x = Unlinked(n)
    OBVIOUS
<1>3. x \in World /\ x.s = n.s /\ x.flows = n.flows /\ x.native = "idle"
    BY <1>1, <1>2, UnlinkedFacts DEF Good
<1>4. Timely(x, t)
    BY <1>1, <1>3 DEF Guarded, Timely, Grants
<1>5. Guarded(x, t)
    BY <1>3, <1>4, OffGuarded
<1>6. PICK f : f = CHOOSE g \in sent : TRUE
    OBVIOUS
<1>7. PICK y : y = IF sent = {} THEN x ELSE Throw(x, f, "stopped")
    OBVIOUS
<1>8. Guarded(y, t)
    <2>1. sent # {} => f \in Slots
        BY <1>6
    <2> QED
        BY <1>5, <1>7, <2>1, ThrowGuarded
<1>9. PICK z : z = IF \E g \in Signals : n.link[g] = "sent" THEN Revoked(y) ELSE y
    OBVIOUS
<1>10. Guarded(z, t)
    BY <1>8, <1>9, RevokedGuarded DEF Guarded
<1>11. Set(z)
    BY <1>1, <1>2, <1>6, <1>7, <1>9, Zenon DEF HelperDies, IsNow
<1>12. turn' = t
    BY <1>1 DEF HelperDies, IsNow
<1> QED
    BY <1>10, <1>11, <1>12, SetGuarded

\* The input controller is idle again.
LEMMA IdleGuarded ==
    ASSUME NEW w, NEW t, Guarded(w, t), NEW y, y = [w EXCEPT !.native = "idle"]
    PROVE  Guarded(y, t) /\ y.s = w.s /\ y.flows = w.flows /\ y.link = w.link
           /\ y.native = "idle" /\ Timely(y, t)
<1>1. /\ y \in World /\ y.s = w.s /\ y.flows = w.flows /\ y.link = w.link
      /\ y.native = "idle"
    BY DEF Guarded, World, Natives
<1>2. Timely(y, t)
    BY <1>1 DEF Guarded, Timely, Grants
<1> QED
    BY <1>1, <1>2, OffGuarded

LEMMA HelperFailsGuarded ==
    ASSUME IInv, GInv, NEW f \in Slots, NEW code \in {"refused", "native"}, HelperFails(f, code)
    PROVE  GInv'
<1>1. PICK n, t : IsNow(n, t) /\ Good(n, None, t) /\ t \in 1..MaxTurns + 1 /\ Guarded(n, t)
    BY NowIsGuarded
<1>2. PICK x : x = IF n.flows[f].pc = "start" THEN [n EXCEPT !.native = "idle"] ELSE n
    OBVIOUS
<1>3. Guarded(x, t)
    BY <1>1, <1>2, IdleGuarded
<1>4. PICK y : y = Throw(x, f, code)
    OBVIOUS
<1>5. Guarded(y, t)
    BY <1>3, <1>4, ThrowGuarded
<1>6. Set(y) /\ turn' = t
    BY <1>1, <1>2, <1>4 DEF HelperFails, IsNow
<1> QED
    BY <1>5, <1>6, SetGuarded

LEMMA HelloAnsweredGuarded ==
    ASSUME IInv, GInv, NEW f \in Slots, HelloAnswered(f) PROVE GInv'
<1>1. PICK n, t : IsNow(n, t) /\ Good(n, None, t) /\ t \in 1..MaxTurns + 1 /\ Guarded(n, t)
    BY NowIsGuarded
<1> DEFINE waiting == {g \in Slots : n.flows[g].pc = "readiness" /\ n.s.flight = f}
<1>2. PICK x : x = Settled(n, waiting, "kept")
    OBVIOUS
<1>3. "kept" \in Promises /\ \A g \in Slots : g \in waiting => n.flows[g].pc # "act"
    BY DEF Promises
<1>4. Guarded(x, t)
    <2> HIDE DEF waiting
    <2> QED
        BY <1>1, <1>2, <1>3, SettledGuarded
<1>5. PICK y : y = Released(x, f)
    OBVIOUS
<1>6. Guarded(y, t)
    BY <1>4, <1>5, ReleasedGuarded
<1>7. Set(y) /\ turn' = t
    BY <1>1, <1>2, <1>5 DEF HelloAnswered, Answer, IsNow
<1> QED
    BY <1>6, <1>7, SetGuarded

LEMMA ListAnsweredGuarded ==
    ASSUME IInv, GInv, NEW f \in Slots, ListAnswered(f) PROVE GInv'
<1>1. PICK n, t : IsNow(n, t) /\ Good(n, None, t) /\ t \in 1..MaxTurns + 1 /\ Guarded(n, t)
    BY NowIsGuarded
<1>2. /\ n.flows[f].pc = "list" /\ n \in World /\ n.flows[f] \in Flow /\ turn' = t
      /\ n.flows[f].pc \in Places[n.flows[f].kind] /\ n.flows \in [Slots -> Flow]
    BY <1>1, AnswerFacts DEF ListAnswered
<1>3. n.flows[f].kind = "list"
    BY <1>2, KindsOfPlaces
<1>4. PICK x : x = Moved(n, f, "thumbs", "none")
    OBVIOUS
<1>5. "thumbs" \in Awaits /\ "none" \in Promises /\ Can(n, t, f, "thumbs")
    BY <1>3, OtherCan DEF Awaits, Promises
<1>6. Guarded(x, t)
    BY <1>1, <1>4, <1>5, NothingKept, MovedGuarded
<1>7. x = [Now EXCEPT !.flows[f].pc = "thumbs", !.flows[f].req = "none"]
    BY <1>1, <1>2, <1>4 DEF IsNow, Moved, Called, At, World, Flow
<1>8. PICK y : y = IF Stands(n.flows[f]) THEN x ELSE Throw(n, f, "cancelled")
    OBVIOUS
<1>9. Set(y)
    BY <1>1, <1>7, <1>8 DEF ListAnswered, IsNow
<1>10. Guarded(y, t)
    BY <1>1, <1>6, <1>8, ThrowGuarded
<1> QED
    BY <1>2, <1>9, <1>10, SetGuarded

LEMMA ThumbsLoadedGuarded ==
    ASSUME IInv, GInv, NEW f \in Slots, ThumbsLoaded(f) PROVE GInv'
<1>1. PICK n, t : IsNow(n, t) /\ Good(n, None, t) /\ t \in 1..MaxTurns + 1 /\ Guarded(n, t)
    BY NowIsGuarded
<1>2. n \in World /\ n.s \in Fields /\ turn' = t
    BY <1>1, Parts DEF ThumbsLoaded, IsNow, Good
<1>3. PICK d : d = [n.s EXCEPT !.listed = TRUE]
    OBVIOUS
<1>4. d \in Fields /\ d.access = n.s.access /\ d.control = n.s.control
    BY <1>2, <1>3 DEF Fields
<1>5. PICK x : x = Fielded(n, d)
    OBVIOUS
<1>6. Guarded(x, t)
    BY <1>1, <1>4, <1>5, FieldedGuarded DEF Running
<1>7. PICK y : y = IF Stands(n.flows[f]) THEN Released(x, f) ELSE Throw(n, f, "cancelled")
    OBVIOUS
<1>8. Guarded(y, t)
    BY <1>1, <1>6, <1>7, ReleasedGuarded, ThrowGuarded
<1>9. Set(y)
    <2>1. x = [Now EXCEPT !.s.listed = TRUE]
        BY <1>1, <1>2, <1>3, <1>5 DEF IsNow, Fielded, World
    <2> QED
        BY <1>1, <1>7, <2>1 DEF ThumbsLoaded, IsNow
<1> QED
    BY <1>2, <1>8, <1>9, SetGuarded

\* Input is off when a window is chosen: nothing that was sent for the window
\* before reaches it with the new access.
LEMMA SelectedGuarded ==
    ASSUME IInv, GInv, NEW f \in Slots, Selected(f) PROVE GInv'
<1>1. PICK n, t : IsNow(n, t) /\ Good(n, None, t) /\ t \in 1..MaxTurns + 1 /\ Guarded(n, t)
    BY NowIsGuarded
<1>2. /\ n.flows[f].pc = "select" /\ n \in World /\ n.s \in Fields /\ n.flows[f] \in Flow
      /\ n.flows[f].pc \in Places[n.flows[f].kind] /\ turn' = t
    BY <1>1, AnswerFacts DEF Selected
<1>3. n.flows[f].kind = "decide"
    BY <1>2, KindsOfPlaces
<1>4. PICK x : x = [n EXCEPT !.native = "idle"]
    OBVIOUS
<1>5. /\ Guarded(x, t) /\ x.s = n.s /\ x.flows = n.flows /\ x.native = "idle"
      /\ Timely(x, t) /\ x \in World
    BY <1>1, <1>4, IdleGuarded DEF Guarded
<1>6. PICK grant : grant = [turn |-> n.flows[f].turn, mode |-> n.flows[f].mode]
    OBVIOUS
<1>7. grant \in Grant /\ grant.mode = n.flows[f].mode
    BY <1>2, <1>6 DEF Flow, Grant
<1>8. PICK d : d = [x.s EXCEPT !.access = grant, !.target = TRUE]
    OBVIOUS
<1>9. d \in Fields /\ d.access = grant
    BY <1>2, <1>5, <1>7, <1>8 DEF Fields
<1>10. PICK y : y = Fielded(x, d)
    OBVIOUS
<1>11. y \in World /\ y.s = d /\ y.flows = x.flows /\ SameFrame(x, y)
    BY <1>5, <1>9, <1>10, WithFields DEF Fielded
<1>12. y.native # "active" /\ Cold(y) /\ Clear(y)
    BY <1>5, <1>11 DEF Cold, Clear, SameFrame
<1>13. ASSUME n.flows[f].mode # "control" PROVE Guarded(y, t)
    <2>1. ~Grants(y)
        BY <1>7, <1>9, <1>11, <1>13 DEF Grants
    <2>2. Timely(y, t)
        BY <1>5, <1>11, <2>1 DEF Timely
    <2> QED
        BY <1>11, <1>12, <2>2, OffGuarded
<1>14. PICK z : z = IF ~n.flows[f].fresh THEN Throw(x, f, "cancelled")
                    ELSE IF n.flows[f].mode = "control" THEN StartControl(y, f)
                    ELSE Granted(y, f)
    OBVIOUS
<1>15. Guarded(z, t)
    <2>1. Guarded(Throw(x, f, "cancelled"), t)
        BY <1>5, ThrowGuarded
    <2>2. Guarded(StartControl(y, f), t)
        BY <1>3, <1>5, <1>11, <1>12, StartControlGuarded
    <2>3. n.flows[f].mode # "control" => Guarded(Granted(y, f), t)
        BY <1>13, GrantedGuarded
    <2> QED
        BY <1>14, <2>1, <2>2, <2>3
<1>16. Set(z)
    <2>1. x = [Now EXCEPT !.native = "idle"]
        BY <1>1, <1>4 DEF IsNow
    <2>2. y = [x EXCEPT !.s.access = [turn |-> flows[f].turn, mode |-> flows[f].mode],
                        !.s.target = TRUE]
        BY <1>1, <1>5, <1>6, <1>8, <1>10 DEF IsNow, Fielded, World
    <2> QED
        BY <1>1, <1>14, <2>1, <2>2, Zenon DEF Selected, IsNow
<1> QED
    BY <1>2, <1>15, <1>16, SetGuarded

\* An action goes to the helper only with the access and a control that runs.
LEMMA ValidatedGuarded ==
    ASSUME IInv, GInv, NEW f \in Slots, NEW valid \in BOOLEAN, Validated(f, valid) PROVE GInv'
<1>1. PICK n, t : IsNow(n, t) /\ Good(n, None, t) /\ t \in 1..MaxTurns + 1 /\ Guarded(n, t)
    BY NowIsGuarded
<1>2. /\ n.flows[f].pc = "validate" /\ turn' = t /\ UnderWay(n.flows[f])
      /\ n \in World /\ n.s \in Fields /\ n.flows[f] \in Flow /\ n.flows \in [Slots -> Flow]
      /\ n.flows[f].pc \in Places[n.flows[f].kind]
    BY <1>1, AnswerFacts DEF Validated
<1>3. n.flows[f].kind \in {"trust", "observe", "act", "probe"}
    BY <1>2, KindsOfPlaces
<1>4. PICK r : r = Revoked(n)
    OBVIOUS
<1>5. Guarded(r, t)
    BY <1>2, <1>4, RevokedGuarded
<1>6. PICK m : m = IF ~valid /\ n.flows[f].fresh THEN r ELSE n
    OBVIOUS
<1>7. PICK a : a = Released(m, f)
    OBVIOUS
<1>8. Guarded(a, t)
    BY <1>1, <1>5, <1>6, <1>7, ReleasedGuarded
<1>9. PICK gone, late, bad : /\ gone = Throw(r, f, "refused")
                             /\ late = Throw(n, f, "cancelled")
                             /\ bad = Throw(n, f, "refused")
    OBVIOUS
<1>10. Guarded(gone, t) /\ Guarded(late, t) /\ Guarded(bad, t)
    BY <1>1, <1>5, <1>9, ThrowGuarded
<1>11. PICK grant : grant = [turn |-> n.flows[f].turn, mode |-> "control"]
    OBVIOUS
<1>12. PICK d : d = [n.s EXCEPT !.access = grant]
    OBVIOUS
<1>13. PICK k : k = Fielded(n, d)
    OBVIOUS
<1>14. PICK b : b = StartControl(k, f)
    OBVIOUS
<1>15. ASSUME n.flows[f].kind = "trust" PROVE Guarded(b, t)
    <2>1. grant \in Grant
        BY <1>2, <1>11 DEF Flow, Grant, Modes
    <2>2. d \in Fields
        BY <1>2, <1>12, <2>1 DEF Fields
    <2>3. k \in World /\ k.s = d /\ k.flows = n.flows /\ k.link = n.link /\ SameFrame(n, k)
        BY <1>2, <1>13, <2>2, WithFields DEF Fielded
    <2>4. \A g \in Slots : ~Sent(n.flows[g])
        BY <1>1, <1>2, <1>15, NothingSent
    <2>5. Cold(k) /\ Clear(k)
        BY <1>1, <2>3, <2>4 DEF Guarded, Cold, Clear, SameFrame
    <2> QED
        BY <1>14, <1>15, <2>3, <2>5, StartControlGuarded
<1>16. PICK q : q = Moved(n, f, "validate", "none")
    OBVIOUS
<1>17. /\ Guarded(q, t) /\ q.flows[f].kind = n.flows[f].kind /\ q.s = n.s
       /\ q.flows[f].pc = "validate" /\ q.flows[f].req = "none"
       /\ (q.flows[f].fresh <=> n.flows[f].fresh)
    <2>1. "validate" \in Awaits /\ "none" \in Promises
        BY DEF Awaits, Promises
    <2>2. Unsent(n.flows[f])
        BY <1>2 DEF Unsent
    <2>3. Can(n, t, f, "validate")
        BY <1>1, <1>2, <2>2, CanStay
    <2>4. Guarded(q, t) /\ StandsAt(n, f, "validate", "none", q)
        BY <1>1, <1>16, <2>1, <2>3, NothingKept, MovedGuarded
    <2> QED
        BY <2>4 DEF StandsAt
<1>18. PICK o, c : o = Ask(q, f, "observe") /\ c = Ask(q, f, "act")
    OBVIOUS
<1>19. n.flows[f].kind = "observe" => Guarded(o, t)
    <2>1. "observe" \in Methods
        BY DEF Methods
    <2>2. n.flows[f].kind = "observe" => Can(q, t, f, "observe")
        BY <1>17 DEF Can
    <2> QED
        BY <1>17, <1>18, <2>1, <2>2, AskGuarded
<1> DEFINE acts == /\ s.access # None /\ s.access.mode = "control"
                   /\ s.control # None /\ s.control.state = "running"
                   /\ s.frame /\ n.flows[f].latest
<1>20. ASSUME n.flows[f].kind = "act", n.flows[f].fresh, acts PROVE Guarded(c, t)
    <2>1. "act" \in Methods
        BY DEF Methods
    <2>2. Grants(q) /\ Running(q)
        BY <1>1, <1>17, <1>20 DEF IsNow, Grants, Running
    <2>3. q.s.access.turn = t /\ q.flows[f].turn = t
        BY <1>17, <1>20, <2>2 DEF Guarded, Timely, Acts
    <2>4. Can(q, t, f, "act")
        BY <1>17, <1>20, <2>2, <2>3 DEF Can, Covered
    <2> QED
        BY <1>17, <1>18, <2>1, <2>4, AskGuarded
<1>21. PICK y : y = IF n.flows[f].kind = "probe" THEN a
                    ELSE IF n.flows[f].kind = "trust"
                    THEN IF ~n.flows[f].fresh THEN late ELSE IF ~valid THEN gone ELSE b
                    ELSE IF ~valid THEN gone
                    ELSE IF ~n.flows[f].fresh THEN late
                    ELSE IF n.flows[f].kind = "observe" THEN o
                    ELSE IF acts THEN c ELSE bad
    OBVIOUS
<1>22. Guarded(y, t)
    <2> HIDE DEF acts
    <2> QED
        BY <1>3, <1>8, <1>10, <1>15, <1>19, <1>20, <1>21
<1>23. Set(y)
    <2>1. k = [Now EXCEPT !.s.access = [turn |-> n.flows[f].turn, mode |-> "control"]]
        BY <1>1, <1>2, <1>11, <1>12, <1>13 DEF IsNow, Fielded, World
    <2>2. q = [Now EXCEPT !.flows[f].req = "none"]
        BY ZenonT(60), <1>1, <1>2, <1>16 DEF IsNow, World, Flow, Moved, At, Called
    <2>3. b = StartControl([Now EXCEPT !.s.access = [turn |-> n.flows[f].turn,
                                                    mode |-> "control"]], f)
        BY <1>14, <2>1
    <2>4. /\ o = Ask([Now EXCEPT !.flows[f].req = "none"], f, "observe")
          /\ c = Ask([Now EXCEPT !.flows[f].req = "none"], f, "act")
        BY <1>18, <2>2
    <2>5. a = Released(IF ~valid /\ n.flows[f].fresh THEN Revoked(Now) ELSE Now, f)
        BY <1>1, <1>4, <1>6, <1>7 DEF IsNow
    <2>6. /\ gone = Throw(Revoked(Now), f, "refused") /\ late = Throw(Now, f, "cancelled")
          /\ bad = Throw(Now, f, "refused")
        BY <1>1, <1>4, <1>9 DEF IsNow
    <2>7. n.flows[f] = flows[f]
        BY <1>1 DEF IsNow
    <2> QED
        BY <1>21, <2>3, <2>4, <2>5, <2>6, <2>7, Zenon DEF Validated
<1> QED
    BY <1>2, <1>22, <1>23, SetGuarded

LEMMA TargetAnsweredGuarded ==
    ASSUME IInv, GInv, NEW f \in Slots, TargetAnswered(f) PROVE GInv'
<1>1. PICK n, t : IsNow(n, t) /\ Good(n, None, t) /\ t \in 1..MaxTurns + 1 /\ Guarded(n, t)
    BY NowIsGuarded
<1>2. /\ n.flows[f].pc = "target" /\ n \in World /\ turn' = t
      /\ n.flows[f] \in Flow /\ n.flows \in [Slots -> Flow]
      /\ n.flows[f].pc \in Places[n.flows[f].kind]
    BY <1>1, AnswerFacts DEF TargetAnswered
<1>3. n.flows[f].kind # "act"
    BY <1>2, KindsOfPlaces DEF Starting
<1>4. PICK r : r = IF n.overlay = "open" THEN "kept" ELSE "none"
    OBVIOUS
<1>5. PICK e : e = At(n.flows[f], "overlay", r)
    OBVIOUS
<1>6. "overlay" \in Awaits /\ r \in Promises
    BY <1>4 DEF Awaits, Promises
<1>7. e \in Flow /\ e.pc = "overlay" /\ e.kind = n.flows[f].kind
    BY <1>2, <1>5, <1>6, MovedFacts
<1>8. Fitting(n, t, e)
    BY <1>3, <1>7 DEF Fitting, Acts, Sent
<1>9. PICK x : x = Called(n, f, e)
    OBVIOUS
<1>10. Guarded(x, t) /\ x.flows[f] = e /\ x.s = n.s /\ SameFrame(n, x)
    BY <1>1, <1>7, <1>8, <1>9, CalledGuarded
<1>11. PICK y : y = [x EXCEPT !.overlay = IF @ = "closed" THEN "opening" ELSE @]
    OBVIOUS
<1>12. /\ y \in World /\ y.s = x.s /\ y.flows = x.flows /\ y.native = x.native
       /\ y.link = x.link
    BY <1>10, <1>11 DEF Guarded, World, Overlays
<1>13. Guarded(y, t)
    BY <1>10, <1>12, SameGuarded
<1>14. y = [Now EXCEPT !.flows[f].pc = "overlay",
                       !.flows[f].req = IF overlay = "open" THEN "kept" ELSE "none",
                       !.overlay = IF @ = "closed" THEN "opening" ELSE @]
    <2>1. x = [n EXCEPT !.flows[f].pc = "overlay", !.flows[f].req = r]
        BY <1>2, <1>5, <1>9 DEF World, Flow, At, Called
    <2> QED
        BY <1>1, <1>2, <1>4, <1>10, <1>11, <2>1 DEF IsNow, World, SameFrame
<1>15. Set(y)
    BY <1>14 DEF TargetAnswered
<1> QED
    BY <1>2, <1>13, <1>15, SetGuarded

LEMMA ObserveAnsweredGuarded ==
    ASSUME IInv, GInv, NEW f \in Slots, ObserveAnswered(f) PROVE GInv'
<1>1. PICK n, t : IsNow(n, t) /\ Good(n, None, t) /\ t \in 1..MaxTurns + 1 /\ Guarded(n, t)
    BY NowIsGuarded
<1>2. turn' = t
    BY <1>1, AnswerFacts DEF ObserveAnswered
<1>3. CASE ~Stands(n.flows[f])
    <2>1. PICK y : y = Throw(n, f, "cancelled")
        OBVIOUS
    <2>2. Set(y)
        BY <1>1, <1>3, <2>1 DEF ObserveAnswered, IsNow
    <2> QED
        BY <1>1, <1>2, <2>1, <2>2, ThrowGuarded, SetGuarded
<1>4. CASE Stands(n.flows[f])
    <2>1. PICK x : x = Framed(n, TRUE)
        OBVIOUS
    <2>2. Guarded(x, t) /\ SameAccess(n.s, x.s)
        BY <1>1, <2>1, FramedGuarded
    <2>3. CASE n.flows[f].kind # "resume"
        <3>1. PICK y : y = Released(x, f)
            OBVIOUS
        <3>2. Set(y)
            BY <1>1, <1>4, <2>1, <2>3, <3>1 DEF ObserveAnswered, IsNow
        <3> QED
            BY <1>2, <2>2, <3>1, <3>2, ReleasedGuarded, SetGuarded
    <2>4. CASE n.flows[f].kind = "resume"
        <3>1. n.s.control # None
            BY <1>1, <1>4, <2>4 DEF Good, Resumes, Stands
        <3>2. x \in World /\ x.s \in Fields /\ x.s.control \in Control
            BY <2>2, <3>1, Parts DEF Guarded, SameAccess, Fields
        <3>3. PICK c : c = [x.s.control EXCEPT !.state = "running"]
            OBVIOUS
        <3>4. c \in Control /\ c # None /\ c.state = "running"
            BY <3>2, <3>3 DEF Control
        <3>5. PICK d : d = [x.s EXCEPT !.control = c]
            OBVIOUS
        <3>6. d \in Fields /\ d.access = x.s.access /\ d.control = c
            BY <3>2, <3>4, <3>5 DEF Fields
        <3>7. PICK u : u = Fielded(x, d)
            OBVIOUS
        <3>8. Guarded(u, t)
            BY <2>2, <3>4, <3>6, <3>7, FieldedGuarded
        <3>9. PICK y : y = Released(u, f)
            OBVIOUS
        <3>10. Guarded(y, t)
            BY <3>8, <3>9, ReleasedGuarded
        <3>11. u = [x EXCEPT !.s.control.state = "running"]
            BY <3>2, <3>3, <3>5, <3>7 DEF Fielded, World, Fields
        <3>12. Set(y)
            BY <1>1, <1>4, <2>1, <2>4, <3>9, <3>11 DEF ObserveAnswered, IsNow
        <3> QED
            BY <1>2, <3>10, <3>12, SetGuarded
    <2> QED
        BY <2>3, <2>4
<1> QED
    BY <1>3, <1>4

\* What the helper carries out has what input is to have behind it.
LEMMA InjectsHasBacking ==
    ASSUME NEW n, NEW t, NEW f \in Slots, IsNow(n, t), Good(n, None, t), Guarded(n, t),
           Injects(f)
    PROVE  /\ n.flows[f].kind = "act" /\ n.flows[f].pc = "act" /\ n.flows[f].req = "sent"
           /\ n.native = "active" /\ Covered(n, n.flows[f])
<1>1. /\ n.flows[f].pc = "act" /\ n.flows[f].req = "sent" /\ n.flows[f] \in Flow
      /\ n.flows[f].pc \in Places[n.flows[f].kind]
    BY AnswerFacts DEF Injects
<1>2. n.flows[f].kind = "act"
    BY <1>1, KindsOfPlaces
<1>3. n.native = "active"
    BY DEF Injects, IsNow
<1> QED
    BY <1>1, <1>2, <1>3 DEF Guarded, Backed, Sent

LEMMA InjectsGuarded ==
    ASSUME IInv, GInv, NEW f \in Slots, Injects(f) PROVE GInv'
<1>1. PICK n, t : IsNow(n, t) /\ Good(n, None, t) /\ t \in 1..MaxTurns + 1 /\ Guarded(n, t)
    BY NowIsGuarded
<1>2. /\ n.flows[f].kind = "act" /\ n.flows[f].pc = "act" /\ n.flows[f].req = "sent"
      /\ Covered(n, n.flows[f])
    BY <1>1, InjectsHasBacking
<1>3. n \in World /\ n.flows[f] \in Flow /\ n.flows \in [Slots -> Flow] /\ turn' = t
    BY <1>1, AnswerFacts DEF Injects
<1>4. PICK y : y = Moved(n, f, "act", "answered")
    OBVIOUS
<1>5. Can(n, t, f, "act")
    BY <1>1, <1>2 DEF Can, Guarded, Timely, Acts
<1>6. "act" \in Awaits /\ "answered" \in Promises
    BY DEF Awaits, Promises
<1>7. Guarded(y, t)
    BY <1>1, <1>4, <1>5, <1>6, NothingKept, MovedGuarded
<1>8. /\ y.s = n.s /\ y.link = n.link /\ SameFrame(n, y)
      /\ y.flows = [n.flows EXCEPT ![f].req = "answered"]
    BY <1>2, <1>3, <1>4 DEF World, Flow, Moved, At, Called, SameFrame
<1>9. Set(y)
    BY <1>1, <1>8 DEF Injects, IsNow, Set, SameFrame
<1> QED
    BY <1>3, <1>7, <1>9, SetGuarded

LEMMA ActAnsweredGuarded ==
    ASSUME IInv, GInv, NEW f \in Slots, ActAnswered(f) PROVE GInv'
<1>1. PICK n, t : IsNow(n, t) /\ Good(n, None, t) /\ t \in 1..MaxTurns + 1 /\ Guarded(n, t)
    BY NowIsGuarded
<1>2. PICK x : x = Framed(n, FALSE)
    OBVIOUS
<1>3. Guarded(x, t)
    BY <1>1, <1>2, FramedGuarded
<1>4. PICK y : y = IF ~n.flows[f].fresh THEN Throw(n, f, "refused") ELSE Released(x, f)
    OBVIOUS
<1>5. Guarded(y, t)
    BY <1>1, <1>3, <1>4, ThrowGuarded, ReleasedGuarded
<1>6. Set(y) /\ turn' = t
    BY <1>1, <1>2, <1>4 DEF ActAnswered, IsNow
<1> QED
    BY <1>5, <1>6, SetGuarded

---------------------------------------------------------------------------
(* The overlay and the input controller                                    *)

LEMMA OverlaySettlesGuarded ==
    ASSUME IInv, GInv, NEW ok \in BOOLEAN, OverlaySettles(ok) PROVE GInv'
<1>1. PICK n, t : IsNow(n, t) /\ Good(n, None, t) /\ t \in 1..MaxTurns + 1 /\ Guarded(n, t)
    BY NowIsGuarded
<1> DEFINE waiting == {f \in Slots : n.flows[f].pc = "overlay"}
<1>2. PICK how : how = IF ok THEN "kept" ELSE "broken"
    OBVIOUS
<1>3. PICK x : x = Settled(n, waiting, how)
    OBVIOUS
<1>4. how \in Promises /\ how # "sent" /\ \A g \in Slots : g \in waiting => n.flows[g].pc # "act"
    BY <1>2 DEF Promises
<1>5. Guarded(x, t)
    <2> HIDE DEF waiting
    <2> QED
        BY <1>1, <1>3, <1>4, SettledGuarded
<1>6. PICK y : y = [x EXCEPT !.overlay = IF ok THEN "open" ELSE "closed"]
    OBVIOUS
<1>7. /\ y \in World /\ y.s = x.s /\ y.flows = x.flows /\ y.native = x.native
      /\ y.link = x.link
    BY <1>5, <1>6 DEF Guarded, World, Overlays
<1>8. Guarded(y, t)
    BY <1>5, <1>7, SameGuarded
<1>9. Set(y) /\ turn' = t
    BY <1>1, <1>2, <1>3, <1>6 DEF OverlaySettles, IsNow
<1> QED
    BY <1>8, <1>9, SetGuarded

LEMMA NativeGuarded ==
    ASSUME IInv, GInv, NEW value \in Natives \ {"active"}, Native(value), UNCHANGED <<s, flows>>
    PROVE  GInv'
<1>1. PICK n, t : IsNow(n, t) /\ Good(n, None, t) /\ t \in 1..MaxTurns + 1 /\ Guarded(n, t)
    BY NowIsGuarded
<1>2. PICK y : y = [n EXCEPT !.native = value]
    OBVIOUS
<1>3. /\ y \in World /\ y.s = n.s /\ y.flows = n.flows /\ y.link = n.link
      /\ y.native = value /\ y.overlay = n.overlay /\ y.consent = n.consent
    BY <1>1, <1>2 DEF Good, World
<1>4. Timely(y, t)
    BY <1>1, <1>3 DEF Guarded, Timely, Grants
<1>5. Guarded(y, t)
    BY <1>3, <1>4, OffGuarded
<1>6. Set(y) /\ turn' = t
    BY <1>1, <1>3 DEF Native, IsNow, Set
<1> QED
    BY <1>5, <1>6, SetGuarded

\* While control.start is under way, no action is: input goes on for none that
\* was sent before.
LEMMA NativeActivatesGuarded ==
    ASSUME IInv, GInv, NEW f \in Slots, NativeActivates(f) PROVE GInv'
<1>1. PICK n, t : IsNow(n, t) /\ Good(n, None, t) /\ t \in 1..MaxTurns + 1 /\ Guarded(n, t)
    BY NowIsGuarded
<1>2. /\ n.flows[f].pc = "start" /\ n \in World /\ UnderWay(n.flows[f]) /\ turn' = t /\ Quiet
      /\ n.flows[f] \in Flow /\ n.flows \in [Slots -> Flow]
      /\ n.flows[f].pc \in Places[n.flows[f].kind]
    BY <1>1, AnswerFacts DEF NativeActivates
<1>3. n.flows[f].kind # "act"
    BY <1>2, KindsOfPlaces DEF Starting
<1>4. \A g \in Slots : ~Sent(n.flows[g])
    BY <1>1, <1>2, <1>3, NothingSent
<1>5. \A g \in Slots : n.flows[g].req # "kept"
    BY <1>1, <1>2 DEF Quiet, Ready, IsNow
<1>6. n.link.proc = "up"
    BY <1>1, <1>2 DEF Good, OneRequest
<1>7. PICK x : x = Moved(n, f, "start", "answered")
    OBVIOUS
<1>8. "start" \in Awaits /\ "answered" \in Promises /\ Can(n, t, f, "start")
    BY <1>3, OtherCan DEF Awaits, Promises
<1>9. /\ Guarded(x, t) /\ x.s = n.s /\ x.link = n.link /\ SameFrame(n, x)
      /\ \A g \in Slots : g # f => x.flows[g] = n.flows[g]
      /\ x.flows[f].pc = "start"
    <2>1. Guarded(x, t)
        BY <1>1, <1>7, <1>8, NothingKept, MovedGuarded
    <2>2. x.s = n.s /\ x.link = n.link /\ SameFrame(n, x)
        BY <1>2, <1>7 DEF World, Moved, Called, SameFrame
    <2>3. /\ \A g \in Slots : g # f => x.flows[g] = n.flows[g]
          /\ x.flows[f].pc = "start"
        BY <1>2, <1>7 DEF World, Flow, Moved, At, Called
    <2> QED
        BY <2>1, <2>2, <2>3
<1>10. PICK y : y = [x EXCEPT !.native = "active"]
    OBVIOUS
<1>11. /\ y \in World /\ y.s = x.s /\ y.flows = x.flows /\ y.link = x.link
       /\ y.native = "active" /\ y.overlay = x.overlay /\ y.consent = x.consent
    BY <1>9, <1>10 DEF Guarded, World, Natives
<1>12. Timely(y, t)
    BY <1>9, <1>11 DEF Guarded, Timely, Grants
<1>13. Cold(y)
    BY <1>5, <1>6, <1>9, <1>11 DEF Cold
<1>14. Clear(y)
    BY <1>4, <1>9, <1>11 DEF Clear, Sent
<1>15. Guarded(y, t)
    BY <1>11, <1>12, <1>13, <1>14, ClearGuarded
<1>16. x.flows = [n.flows EXCEPT ![f].req = "answered"]
    BY <1>2, <1>7 DEF World, Flow, Moved, At, Called
<1>17. Set(y)
    BY <1>1, <1>9, <1>11, <1>16 DEF NativeActivates, Native, IsNow, Set, SameFrame
<1> QED
    BY <1>2, <1>15, <1>17, SetGuarded

\* After a pause of the input controller input is off, whatever is under way.
LEMMA NativePausesGuarded ==
    ASSUME NEW w \in World, NEW t, Timely(w, t), NEW y, y = NativePauses(w)
    PROVE  Guarded(y, t)
<1>1. PICK x : x = [w EXCEPT !.native = IF @ = "active" THEN "idle" ELSE "paused"]
    OBVIOUS
<1>2. /\ x \in World /\ x.s = w.s /\ x.flows = w.flows /\ x.native # "active"
      /\ w.s \in Fields
    BY <1>1, Parts DEF World, Natives
<1>3. Timely(x, t)
    BY <1>2 DEF Timely, Grants
<1>4. Guarded(x, t)
    BY <1>2, <1>3, OffGuarded
<1>5. CASE w.native \notin {"arming", "active"}
    <2>1. y = w
        BY <1>5 DEF NativePauses
    <2> QED
        BY <1>5, <2>1, OffGuarded
<1>6. CASE w.native \in {"arming", "active"} /\ w.s.early = "open"
    <2>1. PICK d : d = [x.s EXCEPT !.early = "paused"]
        OBVIOUS
    <2>2. d \in Fields /\ d.access = x.s.access /\ d.control = x.s.control
        BY <1>2, <2>1 DEF Fields
    <2>3. PICK z : z = Fielded(x, d)
        OBVIOUS
    <2>4. Guarded(z, t)
        BY <1>4, <2>2, <2>3, FieldedGuarded DEF Running
    <2>5. z = [x EXCEPT !.s.early = "paused"]
        BY <1>2, <2>1, <2>3 DEF Fielded, World
    <2>6. y = z
        BY <1>1, <1>6, <2>5 DEF NativePauses
    <2> QED
        BY <2>4, <2>6
<1>7. CASE w.native \in {"arming", "active"} /\ w.s.early # "open"
    <2>1. y = IF Heard THEN Paused(x) ELSE x
        BY <1>1, <1>7 DEF NativePauses
    <2>2. Guarded(Paused(x), t)
        BY <1>4, PausedGuarded
    <2> QED
        BY <1>4, <2>1, <2>2
<1> QED
    BY <1>5, <1>6, <1>7

LEMMA UserTakesOverGuarded ==
    ASSUME IInv, GInv, UserTakesOver PROVE GInv'
<1>1. PICK n, t : IsNow(n, t) /\ Good(n, None, t) /\ t \in 1..MaxTurns + 1 /\ Guarded(n, t)
    BY NowIsGuarded
<1>2. PICK y : y = NativePauses(n)
    OBVIOUS
<1>3. Set(y) /\ turn' = t
    BY <1>1, <1>2 DEF UserTakesOver, IsNow
<1>4. Guarded(y, t)
    BY <1>1, <1>2, NativePausesGuarded DEF Guarded
<1> QED
    BY <1>3, <1>4, SetGuarded

\* The helper hears of a pause or a stop: the input that was to end has ended.
LEMMA SignalArrivesGuarded ==
    ASSUME IInv, GInv, NEW g \in Signals, SignalArrives(g) PROVE GInv'
<1>1. PICK n, t : IsNow(n, t) /\ Good(n, None, t) /\ t \in 1..MaxTurns + 1 /\ Guarded(n, t)
    BY NowIsGuarded
<1>2. PICK l : l = [n.link EXCEPT ![g] = "none"]
    OBVIOUS
<1>3. PICK x : x = [n EXCEPT !.link = l]
    OBVIOUS
<1>4. n \in World /\ n.link \in Links /\ turn' = t
    BY <1>1, Parts DEF Good, SignalArrives, IsNow
<1>5. l \in Links
    BY <1>2, <1>4 DEF Links, Way, Signals
<1>6. x \in World /\ x.s = n.s /\ x.flows = n.flows /\ x.link = l /\ SameFrame(n, x)
    BY <1>3, <1>4, <1>5, WithLink
<1>7. Timely(x, t)
    BY <1>1, <1>6 DEF Guarded, Timely, Grants
<1>8. x = [Now EXCEPT !.link[g] = "none"]
    BY <1>1, <1>2, <1>3 DEF IsNow
<1>9. CASE g = "pause"
    <2>1. PICK y : y = NativePauses(x)
        OBVIOUS
    <2>2. Set(y)
        BY <1>8, <1>9, <2>1 DEF SignalArrives
    <2>3. Guarded(y, t)
        BY <1>6, <1>7, <2>1, NativePausesGuarded
    <2> QED
        BY <1>4, <2>2, <2>3, SetGuarded
<1>10. CASE g = "stop"
    <2> DEFINE stopped == [idle |-> "idle", begun |-> "cancelled", arming |-> "paused",
                           active |-> "idle", cancelled |-> "cancelled", paused |-> "paused"]
    <2>1. PICK z : z = [x EXCEPT !.native = stopped[@]]
        OBVIOUS
    <2>2. Set(z)
        BY <1>8, <1>10, <2>1 DEF SignalArrives
    <2>3. stopped[x.native] \in Natives /\ stopped[x.native] # "active"
        BY <1>6 DEF World, Natives
    <2> HIDE DEF stopped
    <2>4. z \in World /\ z.s = x.s /\ z.flows = x.flows /\ z.native # "active"
        BY <1>6, <2>1, <2>3 DEF World
    <2>5. Timely(z, t)
        BY <1>7, <2>4 DEF Timely, Grants
    <2>6. Guarded(z, t)
        BY <2>4, <2>5, OffGuarded
    <2> QED
        BY <1>4, <2>2, <2>6, SetGuarded
<1>11. CASE g = "beat"
    <2>1. Set(x)
        BY <1>8, <1>11 DEF SignalArrives
    <2>2. /\ x.link.proc = n.link.proc
          /\ x.link.pause = n.link.pause /\ x.link.stop = n.link.stop
        BY <1>2, <1>4, <1>6, <1>11 DEF Links
    <2>3. Dimmed(n, x)
        BY <1>6 DEF Dimmed, Dimmer
    <2>4. Guarded(x, t)
        BY <1>1, <1>6, <2>2, <2>3, DimmedGuarded DEF SameFrame, Halting
    <2> QED
        BY <1>4, <2>1, <2>4, SetGuarded
<1> QED
    BY <1>9, <1>10, <1>11 DEF Signals

LEMMA StartAnsweredGuarded ==
    ASSUME IInv, GInv, NEW f \in Slots, NEW active \in BOOLEAN, StartAnswered(f, active)
    PROVE  GInv'
<1>1. PICK n, t : IsNow(n, t) /\ Good(n, None, t) /\ t \in 1..MaxTurns + 1 /\ Guarded(n, t)
    BY NowIsGuarded
<1>2. /\ n.flows[f].pc = "start" /\ n \in World /\ turn' = t /\ UnderWay(n.flows[f])
      /\ n.flows[f] \in Flow /\ n.flows[f].pc \in Places[n.flows[f].kind]
    BY <1>1, Parts DEF StartAnswered, IsNow, Good, Placed, UnderWay
<1>3. n.flows[f].kind \in {"decide", "trust", "resume"}
    BY <1>2, KindsOfPlaces DEF Starting
<1>4. PICK x : x = IF active THEN n ELSE [n EXCEPT !.native = "idle"]
    OBVIOUS
<1>5. Guarded(x, t) /\ x.s = n.s /\ x.flows = n.flows
    BY <1>1, <1>4, IdleGuarded
<1>6. Clear(x)
    <2>1. \A g \in Slots : ~Sent(n.flows[g])
        BY <1>1, <1>2, <1>3, NothingSent
    <2> QED
        BY <1>5, <2>1 DEF Clear
<1>7. PICK running : running = (active /\ n.s.early # "paused")
    OBVIOUS
<1>8. PICK y : y = IF ~n.flows[f].fresh \/ n.s.access = None THEN Throw(x, f, "cancelled")
                   ELSE Controlled(x, f, running)
    OBVIOUS
<1>9. Guarded(y, t)
    <2>1. Guarded(Throw(x, f, "cancelled"), t)
        BY <1>5, ThrowGuarded
    <2>2. running \in BOOLEAN /\ (running => x.s.early # "paused")
        BY <1>5, <1>7
    <2>3. n.s.access # None => Guarded(Controlled(x, f, running), t)
        BY <1>2, <1>3, <1>5, <1>6, <2>2, ControlledGuarded
    <2> QED
        BY <1>8, <2>1, <2>3
<1>10. Set(y)
    <2>1. x = IF active THEN Now ELSE [Now EXCEPT !.native = "idle"]
        BY <1>1, <1>4 DEF IsNow
    <2>2. y = IF ~flows[f].fresh \/ s.access = None THEN Throw(x, f, "cancelled")
              ELSE Controlled(x, f, active /\ s.early # "paused")
        BY <1>1, <1>7, <1>8, Zenon DEF IsNow
    <2> QED
        BY <2>1, <2>2, Zenon DEF StartAnswered
<1> QED
    BY <1>2, <1>9, <1>10, SetGuarded

---------------------------------------------------------------------------
(* The invariant holds, and what follows from it                           *)

LEMMA InitGuarded == Init => GInv
<1> SUFFICES ASSUME Init PROVE GInv
    OBVIOUS
<1>1. PICK n : n = Now
    OBVIOUS
<1>2. n \in World
    BY <1>1, InitGood DEF IInv, Good
<1>3. n.native # "active" /\ \A f \in Slots : n.flows[f] = Idle
    BY <1>1 DEF Now, Init
<1>4. Timely(n, turn)
    BY <1>3, IdleFacts DEF Timely, Acts
<1> QED
    BY <1>1, <1>2, <1>3, <1>4, OffGuarded DEF GInv

LEMMA StepGuarded == IInv /\ GInv /\ [Next]_vars => GInv'
<1> SUFFICES ASSUME IInv, GInv, [Next]_vars PROVE GInv'
    OBVIOUS
<1>1. CASE UNCHANGED vars
    <2>1. Now' = Now /\ turn' = turn
        BY <1>1 DEF vars, Now
    <2> QED
        BY <2>1 DEF GInv
<1>2. CASE Tool
    BY <1>2, ExecuteGuarded, ObserveGuarded DEF Tool
<1>3. CASE User
    BY <1>3, ListGuarded, DecideGuarded, ResumeGuarded, RevokeGuarded, AllowGuarded,
       UserTakesOverGuarded, DisplayChangedGuarded DEF User, Revoke
<1>4. CASE TurnEnds \/ Acknowledge \/ ConsentExpires \/ HeartbeatLost \/ Heartbeat \/ HelperDies
    BY <1>4, TurnEndsGuarded, AcknowledgeGuarded, RevokeGuarded, HeartbeatGuarded,
       HelperDiesGuarded DEF ConsentExpires, HeartbeatLost
<1>5. CASE \E ok \in BOOLEAN : HelperStarts(ok) \/ OverlaySettles(ok)
    BY <1>5, HelperStartsGuarded, OverlaySettlesGuarded
<1>6. CASE \E g \in Signals : SignalArrives(g)
    BY <1>6, SignalArrivesGuarded
<1>7. ASSUME NEW f \in Slots, Reaction(f) PROVE GInv'
    BY <1>7, AdmittedGuarded, HealthOverGuarded, LinkedGuarded, PreparedGuarded DEF Reaction
<1>8. ASSUME NEW f \in Slots, HelperStep(f) PROVE GInv'
    <2>1. CASE \E code \in {"refused", "native"} : HelperFails(f, code)
        BY <2>1, HelperFailsGuarded
    <2>2. CASE HelloAnswered(f) \/ ListAnswered(f) \/ Selected(f)
        BY <2>2, HelloAnsweredGuarded, ListAnsweredGuarded, SelectedGuarded
    <2>3. CASE \E valid \in BOOLEAN : Validated(f, valid)
        BY <2>3, ValidatedGuarded
    <2>4. CASE TargetAnswered(f) \/ ObserveAnswered(f) \/ Injects(f) \/ ActAnswered(f)
        BY <2>4, TargetAnsweredGuarded, ObserveAnsweredGuarded, InjectsGuarded,
           ActAnsweredGuarded
    <2>5. CASE NativeBegins(f)
        BY <2>5, NativeGuarded DEF NativeBegins, Natives
    <2>6. CASE NativeArms(f)
        BY <2>6, NativeGuarded DEF NativeArms, Natives
    <2>7. CASE NativeActivates(f)
        BY <2>7, NativeActivatesGuarded
    <2>8. CASE \E active \in BOOLEAN : StartAnswered(f, active)
        BY <2>8, StartAnsweredGuarded
    <2> QED
        BY <1>8, <2>1, <2>2, <2>3, <2>4, <2>5, <2>6, <2>7, <2>8 DEF HelperStep
<1>9. ASSUME NEW f \in Slots, ThumbsLoaded(f) \/ Deadline(f) \/ Probe(f) PROVE GInv'
    BY <1>9, ThumbsLoadedGuarded, RevokeGuarded, ProbeGuarded DEF Deadline
<1> QED
    BY <1>1, <1>2, <1>3, <1>4, <1>5, <1>6, <1>7, <1>8, <1>9 DEF Next

LEMMA AlwaysGuarded == Spec => [](IInv /\ GInv)
BY InitGood, StepGood, InitGuarded, StepGuarded, PTL DEF Spec

LEMMA InjectionHasAuthority ==
    ASSUME IInv, GInv, NEW f \in Slots, Injects(f)
    PROVE  \/ /\ s.access = [turn |-> flows[f].turn, mode |-> "control"]
              /\ s.control # None /\ s.control.state = "running" /\ flows[f].fresh
           \/ \E g \in {"pause", "stop"} : link[g] # "none"
<1>1. PICK n, t : IsNow(n, t) /\ Good(n, None, t) /\ t \in 1..MaxTurns + 1 /\ Guarded(n, t)
    BY NowIsGuarded
<1>2. /\ n.flows[f].kind = "act" /\ n.flows[f].pc = "act"
      /\ n.native = "active" /\ Covered(n, n.flows[f])
    BY <1>1, InjectsHasBacking
<1>3. CASE Halting(n)
    BY <1>1, <1>3 DEF Halting, IsNow
<1>4. CASE n.flows[f].fresh /\ Grants(n) /\ Running(n)
    <2>1. n.s.access.turn = t /\ n.flows[f].turn = t
        BY <1>1, <1>2, <1>4 DEF Guarded, Timely, Acts
    <2>2. n.s.access \in Grant
        BY <1>1, <1>4, Parts DEF Good, Fields, Grants
    <2>3. n.s.access = [turn |-> n.flows[f].turn, mode |-> "control"]
        BY <1>4, <2>1, <2>2 DEF Grant, Grants
    <2> QED
        BY <1>1, <1>4, <2>3 DEF IsNow, Running
<1> QED
    BY <1>2, <1>3, <1>4 DEF Covered

\* Validated action after validated action, turn after turn, whatever answers late:
\* what the helper carries out (act() of ComputerService, the input controller of
\* control.cpp) is for the turn that holds the control, and for an action that
\* nothing has overtaken, unless a pause or a stop is on its way to the helper.
THEOREM InputIsAuthorized == Spec => InputHasAuthority
<1>1. IInv /\ GInv =>
          \A f \in Slots : Injects(f) =>
              \/ /\ s.access = [turn |-> flows[f].turn, mode |-> "control"]
                 /\ s.control # None /\ s.control.state = "running" /\ flows[f].fresh
              \/ \E g \in {"pause", "stop"} : link[g] # "none"
    BY InjectionHasAuthority
<1> QED
    BY <1>1, AlwaysGuarded, PTL DEF InputHasAuthority

=============================================================================

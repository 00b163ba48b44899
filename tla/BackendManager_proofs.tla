------------------------ MODULE BackendManager_proofs ------------------------
(***************************************************************************)
(* Proofs about BackendManager, for any callers, restart timers, crashes and *)
(* failures.                                                                *)
(***************************************************************************)
EXTENDS BackendManager, FiniteSetTheorems, TLAPS

---------------------------------------------------------------------------
(* The inductive invariant, of a pair w = [m, calls] of fields and calls    *)

State == [m : Manager, calls : [Ids -> Call]]

Typed(w) == w \in State /\ w.m.attempts <= MaxAttempts

\* Where calls of each kind can be.
Shaped(w) ==
    \A k \in Ids :
        /\ w.calls[k].kind = "none" => w.calls[k].pc = "idle"
        /\ w.calls[k].pc \in {"checking", "joined", "checked", "handing"}
             => w.calls[k].kind = "ready"
        /\ k \in Respawns => /\ w.calls[k].kind \in {"none", "respawn"}
                             /\ w.calls[k].pc \in {"idle", "acquiring", "leasing"}
        /\ k \in Callers => w.calls[k].kind # "respawn"

\* The awaits of a recovery that others may wait for.
Busy == {"stopping", "acquiring", "leasing", "polling", "handing"}

\* connectionInfoPromise has an owner at work, but for those of K, which are in
\* the middle of a step, and whoever waits for it waits for an owner.
Owned(w, K) ==
    /\ w.m.info # Nobody =>
         /\ w.m.info \in Callers /\ w.calls[w.m.info].kind = "ready"
         /\ w.m.info \in K \/ w.calls[w.m.info].pc \in Busy
    /\ \A k \in Ids : w.calls[k].pc = "joined" => w.m.info # Nobody

\* A lease needs the runtime's token.
Tokened(w) == w.m.lease # "none" => w.m.token

\* No lease once everything but K is through with stopping.
Free(w, K) ==
    w.m.shutting /\ (\A k \in Ids \ K : w.calls[k].pc # "stopping")
      => w.m.lease = "none"

\* What holds in the middle of a step of the calls K.
Mid(w, K) == Typed(w) /\ Shaped(w) /\ Owned(w, K) /\ Tokened(w)

Sound(w) == Mid(w, {}) /\ Free(w, {})

IInv == Sound(Now) /\ tick \in Answers /\ server \in {"up", "down"}

\* The calls of getReadyConnectionInfo that return between w and t do so with
\* the lease, or while the application lets go of the backend.
Handed(w, t) ==
    \A k \in Callers :
        w.calls[k].kind = "ready" /\ w.calls[k].pc # "ok" /\ t.calls[k].pc = "ok" =>
            t.m.shutting \/ (t.m.token /\ t.m.lease = "open")

---------------------------------------------------------------------------
(* What the parts of the methods do                                        *)

\* handleProcessCrash() leaves alone what the token, the lease and the callers
\* depend on, and stays within the limit on restarts.
LEMMA CrashedFacts ==
    ASSUME NEW mm \in Manager, mm.attempts <= MaxAttempts, NEW n \in Nat
    PROVE  /\ Crashed(mm, n) \in Manager /\ Crashed(mm, n).attempts <= MaxAttempts
           /\ Crashed(mm, n).shutting = mm.shutting
           /\ Crashed(mm, n).token = mm.token
           /\ Crashed(mm, n).lease = mm.lease
           /\ Crashed(mm, n).info = mm.info
<1> DEFINE left  == MaxAttempts - mm.attempts
           again == IF n <= left THEN n ELSE left
           t == [mm EXCEPT !.attempts = @ + again,
                   !.status = IF again < n THEN "unhealthy" ELSE "starting",
                   !.timer = @ \/ again > 0,
                   !.leaked = IF mm.timer \/ again = 0 THEN @ + again
                                                       ELSE @ + again - 1]
<1>1. CASE n = 0
  BY <1>1 DEF Crashed
<1>2. CASE n # 0
  <2>1. /\ mm.attempts \in Nat /\ MaxAttempts \in Nat /\ mm.leaked \in Nat
        /\ mm.timer \in BOOLEAN
    BY BackendAssumption DEF Manager
  <2>2. /\ left \in Nat /\ again \in Nat /\ mm.attempts + again \in Nat
        /\ mm.attempts + again <= MaxAttempts
    BY <2>1
  <2>3. (IF mm.timer \/ again = 0 THEN mm.leaked + again
                                  ELSE mm.leaked + again - 1) \in Nat
    <3>1. mm.leaked + again \in Nat /\ (again # 0 => mm.leaked + again - 1 \in Nat)
      <4> HIDE DEF again
      <4> QED  BY <2>1, <2>2
    <3> HIDE DEF again
    <3> QED  BY <3>1
  <2>4. (mm.timer \/ again > 0) \in BOOLEAN
    OBVIOUS
  <2>5. (IF again < n THEN "unhealthy" ELSE "starting") \in {"unhealthy", "starting"}
    OBVIOUS
  <2> HIDE DEF again, left
  <2>6. t \in Manager /\ t.attempts <= MaxAttempts
    BY <2>2, <2>3, <2>4, <2>5 DEF Manager
  <2>7. /\ t.shutting = mm.shutting /\ t.token = mm.token
        /\ t.lease = mm.lease /\ t.info = mm.info
    BY DEF Manager
  <2>8. Crashed(mm, n) = t
    BY <1>2 DEF Crashed, again, left
  <2> QED  BY <2>6, <2>7, <2>8
<1> QED  BY <1>1, <1>2

\* The states of a call at rest or waiting.
Pcs == {"idle", "checking", "joined", "stopping", "acquiring", "leasing",
        "checked", "polling", "handing", "ok", "threw"}

\* t is w but for the calls K, which have come to pc.
MovedTo(w, K, pc, t) ==
    /\ t \in State /\ t.m = w.m
    /\ \A j \in K : t.calls[j].kind = w.calls[j].kind /\ t.calls[j].pc = pc
    /\ \A j \in Ids \ K : t.calls[j] = w.calls[j]

LEMMA ToFacts ==
    ASSUME NEW w \in State, NEW K \in SUBSET Ids,
           NEW pc \in Pcs, NEW answer \in Answers
    PROVE  MovedTo(w, K, pc, To(w, K, pc, answer))
<1> DEFINE t == To(w, K, pc, answer)
           f == [j \in Ids |-> IF j \in K
                   THEN [w.calls[j] EXCEPT !.pc = pc, !.answer = answer] ELSE w.calls[j]]
<1>1. t = [w EXCEPT !.calls = f]
  BY DEF To
<1>2. t.m = w.m /\ t.calls = f
  BY <1>1 DEF State
<1>3. f \in [Ids -> Call]
  <2> SUFFICES ASSUME NEW j \in Ids PROVE f[j] \in Call
    OBVIOUS
  <2>1. w.calls[j] \in Call
    BY DEF State
  <2> QED  BY <2>1 DEF Call, Pcs
<1>4. t \in State
  BY <1>1, <1>3 DEF State
<1>5. ASSUME NEW j \in K
      PROVE  f[j].kind = w.calls[j].kind /\ f[j].pc = pc
  <2>1. w.calls[j] \in Call
    BY DEF State
  <2> QED  BY <2>1 DEF Call
<1>6. \A j \in Ids \ K : f[j] = w.calls[j]
  OBVIOUS
<1> HIDE DEF t, f
<1> QED  BY <1>2, <1>4, <1>5, <1>6 DEF MovedTo, t

LEMMA PollFacts ==
    ASSUME NEW w \in State, NEW K \in SUBSET Ids
    PROVE  MovedTo(w, K, "polling", Poll(w, K))
<1> DEFINE t == Poll(w, K)
           f == [j \in Ids |-> IF j \in K
                   THEN [w.calls[j] EXCEPT !.pc = "polling", !.answer = Ask(w.m), !.polls = 1]
                   ELSE w.calls[j]]
<1>1. t = [w EXCEPT !.calls = f]
  BY DEF Poll
<1>2. t.m = w.m /\ t.calls = f
  BY <1>1 DEF State
<1>3. f \in [Ids -> Call]
  <2> SUFFICES ASSUME NEW j \in Ids PROVE f[j] \in Call
    OBVIOUS
  <2>1. w.calls[j] \in Call
    BY DEF State
  <2>2. Ask(w.m) \in Answers
    BY DEF Ask, Answers
  <2> QED  BY <2>1, <2>2 DEF Call
<1>4. t \in State
  BY <1>1, <1>3 DEF State
<1>5. ASSUME NEW j \in K
      PROVE  f[j].kind = w.calls[j].kind /\ f[j].pc = "polling"
  <2>1. w.calls[j] \in Call
    BY DEF State
  <2> QED  BY <2>1 DEF Call
<1>6. \A j \in Ids \ K : f[j] = w.calls[j]
  OBVIOUS
<1> HIDE DEF t, f
<1> QED  BY <1>2, <1>4, <1>5, <1>6 DEF MovedTo, t

SameHold(w, t) ==
    t.m.shutting = w.m.shutting /\ t.m.token = w.m.token /\ t.m.lease = w.m.lease

\* t is w with the calls K, and those that joined them, done.
DoneWith(w, K, outcome, t) ==
    /\ t \in State /\ SameHold(w, t) /\ t.m.attempts = w.m.attempts
    /\ t.m.info = IF w.m.info \in K THEN Nobody ELSE w.m.info
    /\ Joined(w, K) \subseteq Ids
    /\ \A j \in Joined(w, K) : /\ t.calls[j].kind = w.calls[j].kind
                              /\ t.calls[j].pc = Done(j, outcome)
    /\ \A j \in Ids \ Joined(w, K) : t.calls[j] = w.calls[j]

LEMMA FinishFacts ==
    ASSUME NEW w \in State, NEW K \in SUBSET Ids, NEW outcome \in {"ok", "threw"}
    PROVE  DoneWith(w, K, outcome, Finish(w, K, outcome))
<1> DEFINE t == Finish(w, K, outcome)
           D == Joined(w, K)
           i == IF w.m.info \in K THEN Nobody ELSE w.m.info
           f == [j \in Ids |-> IF j \in D
                   THEN [w.calls[j] EXCEPT !.pc = Done(j, outcome), !.answer = "none"]
                   ELSE w.calls[j]]
<1>1. t = [w EXCEPT !.m.info = i, !.calls = f]
  BY DEF Finish
<1>2. t.m = [w.m EXCEPT !.info = i] /\ t.calls = f
  BY <1>1 DEF State
<1>3. D \in SUBSET Ids
  BY DEF Joined
<1>4. \A j \in Ids : Done(j, outcome) \in Pcs
  BY DEF Done, Pcs
<1>5. f \in [Ids -> Call]
  <2> SUFFICES ASSUME NEW j \in Ids PROVE f[j] \in Call
    OBVIOUS
  <2>1. w.calls[j] \in Call
    BY DEF State
  <2> QED  BY <1>4, <2>1 DEF Call, Pcs, Answers
<1>6. [w.m EXCEPT !.info = i] \in Manager
  BY DEF State, Manager
<1>7. t = [m |-> [w.m EXCEPT !.info = i], calls |-> f]
  BY <1>1 DEF State
<1>8. t \in State
  <2> HIDE DEF f, i, t, D
  <2> QED  BY <1>5, <1>6, <1>7 DEF State
<1>9. ASSUME NEW j \in D
      PROVE  f[j].kind = w.calls[j].kind /\ f[j].pc = Done(j, outcome)
  <2>1. w.calls[j] \in Call /\ j \in Ids
    BY <1>3 DEF State
  <2> QED  BY <2>1 DEF Call
<1>10. \A j \in Ids \ D : f[j] = w.calls[j]
  OBVIOUS
<1>11. w.m \in Manager
  BY DEF State
<1> HIDE DEF f, t, D
<1>12. SameHold(w, t) /\ t.m.attempts = w.m.attempts /\ t.m.info = i
  BY <1>2, <1>11 DEF Manager, SameHold
<1> QED  BY <1>2, <1>3, <1>8, <1>9, <1>10, <1>12 DEF DoneWith, t, D

---------------------------------------------------------------------------
(* The parts of the methods keep what holds in the middle of a step         *)

\* What held in the middle of a step, where the calls L are under way, holds
\* on at t, where those of K are through.
Leaves(w, L, K, t) ==
    Mid(t, L \ K) /\ SameHold(w, t) /\ (Free(w, L) => Free(t, L \ K))

Returned(w, L, K, outcome, t) ==
    /\ Leaves(w, L, K, t)
    /\ \A j \in Ids \ Joined(w, K) : t.calls[j] = w.calls[j]
    /\ \A j \in Joined(w, K) \cap Callers : t.calls[j].pc = outcome

\* The calls K of the step return or throw; what holds goes on to hold for the
\* others.
LEMMA FinishMid ==
    ASSUME NEW w, NEW L \in SUBSET Ids, Mid(w, L), NEW K \in SUBSET L,
           NEW outcome \in {"ok", "threw"}, \A k \in K : w.calls[k].kind # "none"
    PROVE  Returned(w, L, K, outcome, Finish(w, K, outcome))
<1> DEFINE t == Finish(w, K, outcome)
           D == Joined(w, K)
<1>w. w \in State /\ K \in SUBSET Ids
  BY DEF Mid, Typed
<1>d. DoneWith(w, K, outcome, t)
  BY <1>w, FinishFacts
<1> HIDE DEF t
<1>1. /\ t \in State /\ D \in SUBSET Ids
      /\ \A j \in D : /\ t.calls[j].kind = w.calls[j].kind
                      /\ t.calls[j].pc = Done(j, outcome)
      /\ \A j \in Ids \ D : t.calls[j] = w.calls[j]
  BY <1>d DEF DoneWith
<1>2. /\ D = (IF w.m.info \in K THEN K \cup {j \in Ids : w.calls[j].pc = "joined"} ELSE K)
  BY DEF Joined
<1> HIDE DEF D
<1>3. /\ t.m.shutting = w.m.shutting /\ t.m.token = w.m.token /\ t.m.lease = w.m.lease
      /\ t.m.attempts = w.m.attempts
      /\ t.m.info = IF w.m.info \in K THEN Nobody ELSE w.m.info
  BY <1>d DEF DoneWith, SameHold
<1>4. \A j \in D : w.calls[j].kind # "none"
  BY <1>w, <1>2 DEF Mid, Shaped
<1>5. \A j \in D : Done(j, outcome) = IF j \in Respawns THEN "idle" ELSE outcome
  BY DEF Done
<1>6. Typed(t)
  BY <1>1, <1>3 DEF Typed, Mid
<1>7. Shaped(t)
  <2> SUFFICES ASSUME NEW k \in Ids
               PROVE  /\ t.calls[k].kind = "none" => t.calls[k].pc = "idle"
                      /\ t.calls[k].pc \in {"checking", "joined", "checked", "handing"}
                           => t.calls[k].kind = "ready"
                      /\ k \in Respawns => /\ t.calls[k].kind \in {"none", "respawn"}
                                           /\ t.calls[k].pc \in {"idle", "acquiring", "leasing"}
                      /\ k \in Callers => t.calls[k].kind # "respawn"
    BY DEF Shaped
  <2>1. CASE k \in D
    BY <2>1, <1>1, <1>4, <1>5 DEF Mid, Shaped
  <2>2. CASE k \notin D
    BY <2>2, <1>1 DEF Mid, Shaped
  <2> QED  BY <2>1, <2>2
<1>8. Owned(t, L \ K)
  <2>1. ASSUME t.m.info # Nobody
        PROVE  /\ t.m.info \in Callers /\ t.calls[t.m.info].kind = "ready"
               /\ t.m.info \in L \ K \/ t.calls[t.m.info].pc \in Busy
    <3>1. t.m.info = w.m.info /\ w.m.info \notin K /\ D = K
      BY <2>1, <1>2, <1>3
    <3>2. w.m.info \in Callers /\ w.m.info \in Ids
      BY <2>1, <3>1 DEF Mid, Owned, Ids
    <3>3. t.calls[t.m.info] = w.calls[w.m.info]
      BY <3>1, <3>2, <1>1
    <3> QED  BY <2>1, <3>1, <3>2, <3>3 DEF Mid, Owned
  <2>2. ASSUME NEW k \in Ids, t.calls[k].pc = "joined"
        PROVE  t.m.info # Nobody
    <3>1. k \notin D
      BY <2>2, <1>1, <1>5
    <3>2. w.calls[k].pc = "joined"
      BY <3>1, <2>2, <1>1
    <3> QED  BY <3>1, <3>2, <1>2, <1>3 DEF Mid, Owned
  <2> QED  BY <2>1, <2>2 DEF Owned
<1>9. Tokened(t)
  BY <1>3 DEF Tokened, Mid
<1>10. ASSUME Free(w, L)
       PROVE  Free(t, L \ K)
  <2> SUFFICES ASSUME t.m.shutting, \A k \in Ids \ (L \ K) : t.calls[k].pc # "stopping"
               PROVE  t.m.lease = "none"
    BY DEF Free
  <2>1. ASSUME NEW k \in Ids \ L PROVE w.calls[k].pc # "stopping"
    <3>1. CASE k \in D
      BY <3>1, <2>1, <1>2
    <3>2. CASE k \notin D
      BY <3>2, <2>1, <1>1
    <3> QED  BY <3>1, <3>2
  <2> QED  BY <2>1, <1>3, <1>10 DEF Free
<1>11. \A j \in D \cap Callers : t.calls[j].pc = outcome
  BY <1>1, <1>5, BackendAssumption
<1>12. Leaves(w, L, K, t)
  BY <1>3, <1>6, <1>7, <1>8, <1>9, <1>10 DEF Leaves, Mid, SameHold
<1> QED  BY <1>1, <1>11, <1>12 DEF Returned, t, D

\* The calls K of the step begin to wait for a healthy backend.
LEMMA PollMid ==
    ASSUME NEW w, NEW L \in SUBSET Ids, Mid(w, L), NEW K \in SUBSET L,
           K \subseteq Callers, \A k \in K : w.calls[k].kind # "none"
    PROVE  Leaves(w, L, K, Poll(w, K)) /\ MovedTo(w, K, "polling", Poll(w, K))
<1> DEFINE t == Poll(w, K)
<1>w. w \in State /\ K \in SUBSET Ids
  BY DEF Mid, Typed
<1>m. MovedTo(w, K, "polling", t)
  BY <1>w, PollFacts
<1> HIDE DEF t
<1>1. /\ t \in State /\ t.m = w.m
      /\ \A j \in K : t.calls[j].kind = w.calls[j].kind /\ t.calls[j].pc = "polling"
      /\ \A j \in Ids \ K : t.calls[j] = w.calls[j]
  BY <1>m DEF MovedTo
<1>2. Typed(t) /\ Tokened(t)
  BY <1>1 DEF Typed, Mid, Tokened
<1>3. Shaped(t)
  <2> SUFFICES ASSUME NEW k \in Ids
               PROVE  /\ t.calls[k].kind = "none" => t.calls[k].pc = "idle"
                      /\ t.calls[k].pc \in {"checking", "joined", "checked", "handing"}
                           => t.calls[k].kind = "ready"
                      /\ k \in Respawns => /\ t.calls[k].kind \in {"none", "respawn"}
                                           /\ t.calls[k].pc \in {"idle", "acquiring", "leasing"}
                      /\ k \in Callers => t.calls[k].kind # "respawn"
    BY DEF Shaped
  <2>1. CASE k \in K
    BY <2>1, <1>1, BackendAssumption DEF Mid, Shaped
  <2>2. CASE k \notin K
    BY <2>2, <1>1 DEF Mid, Shaped
  <2> QED  BY <2>1, <2>2
<1>4. Owned(t, L \ K)
  <2>1. ASSUME t.m.info # Nobody
        PROVE  /\ t.m.info \in Callers /\ t.calls[t.m.info].kind = "ready"
               /\ t.m.info \in L \ K \/ t.calls[t.m.info].pc \in Busy
    <3>1. w.m.info \in Callers /\ w.m.info \in Ids /\ w.calls[w.m.info].kind = "ready"
          /\ (w.m.info \in L \/ w.calls[w.m.info].pc \in Busy)
      BY <1>1, <2>1 DEF Mid, Owned, Ids
    <3>2. CASE w.m.info \in K
      BY <3>1, <3>2, <1>1 DEF Busy
    <3>3. CASE w.m.info \notin K
      BY <3>1, <3>3, <1>1
    <3> QED  BY <3>2, <3>3
  <2>2. ASSUME NEW k \in Ids, t.calls[k].pc = "joined"
        PROVE  t.m.info # Nobody
    BY <2>2, <1>1 DEF Mid, Owned
  <2> QED  BY <2>1, <2>2 DEF Owned
<1>5. ASSUME Free(w, L)
      PROVE  Free(t, L \ K)
  <2> SUFFICES ASSUME t.m.shutting, \A k \in Ids \ (L \ K) : t.calls[k].pc # "stopping"
               PROVE  t.m.lease = "none"
    BY DEF Free
  <2> QED  BY <1>1, <1>5 DEF Free
<1>6. Leaves(w, L, K, t)
  BY <1>1, <1>2, <1>3, <1>4, <1>5 DEF Leaves, Mid, SameHold
<1> QED  BY <1>6, <1>m DEF t

\* A change of fields that are not the callers' keeps what holds.
LEMMA FieldsMid ==
    ASSUME NEW w, NEW L, Mid(w, L), NEW v, v \in State, v.calls = w.calls,
           v.m.info = w.m.info, v.m.attempts <= MaxAttempts,
           v.m.lease # "none" => v.m.token
    PROVE  Mid(v, L)
<1>1. Typed(v) /\ Tokened(v)
  BY DEF Typed, Tokened
<1>2. Shaped(v)
  BY DEF Shaped, Mid
<1>3. Owned(v, L)
  BY DEF Owned, Mid
<1> QED  BY <1>1, <1>2, <1>3 DEF Mid

\* No call of getReadyConnectionInfo, or any other, returns between w and t.
NoneReturns(w, t) == \A j \in Callers : t.calls[j].pc = "ok" => w.calls[j].pc = "ok"

Thrown(w, L, K, t) ==
    /\ Leaves(w, L, K, t) /\ NoneReturns(w, t)
    /\ \A j \in Ids \ Joined(w, K) : t.calls[j] = w.calls[j]

LEMMA ThrowMid ==
    ASSUME NEW w, NEW L \in SUBSET Ids, Mid(w, L), NEW K \in SUBSET L,
           \A k \in K : w.calls[k].kind # "none"
    PROVE  Thrown(w, L, K, Throw(w, K))
<1> DEFINE n == Cardinality(K \cap Respawns)
           c == Crashed(w.m, n)
           v == [w EXCEPT !.m = Crashed(@, n)]
           t == Finish(v, K, "threw")
<1>1. n \in Nat
  <2>1. IsFiniteSet(K \cap Respawns)
    BY BackendAssumption, FS_Subset
  <2> QED  BY <2>1, FS_CardinalityType
<1>2. w \in State /\ w.m \in Manager /\ w.m.attempts <= MaxAttempts
  BY DEF Mid, Typed, State
<1>3. /\ c \in Manager /\ c.attempts <= MaxAttempts
      /\ c.shutting = w.m.shutting /\ c.token = w.m.token
      /\ c.lease = w.m.lease /\ c.info = w.m.info
  <2> HIDE DEF n
  <2> QED  BY <1>1, <1>2, CrashedFacts
<1>4. v = [w EXCEPT !.m = c]
  OBVIOUS
<1>5. v \in State /\ v.m = c /\ v.calls = w.calls
  <2> HIDE DEF c, v
  <2> QED  BY <1>2, <1>3, <1>4 DEF State
<1> HIDE DEF n, c, v
<1>6. Mid(v, L)
  BY <1>3, <1>5, FieldsMid DEF Mid, Tokened
<1>7. Joined(v, K) = Joined(w, K)
  BY <1>3, <1>5 DEF Joined
<1>8. Free(w, L) => Free(v, L)
  BY <1>3, <1>5 DEF Free
<1>8a. \A k \in K : v.calls[k].kind # "none"
  BY <1>5
<1>8b. Returned(v, L, K, "threw", t)
  BY <1>6, <1>8a, FinishMid
<1>10. Throw(w, K) = t
  BY DEF Throw, v, n
<1> HIDE DEF t
<1>9. /\ Mid(t, L \ K) /\ SameHold(v, t)
      /\ Free(v, L) => Free(t, L \ K)
      /\ \A j \in Ids \ Joined(v, K) : t.calls[j] = v.calls[j]
      /\ \A j \in Joined(v, K) \cap Callers : t.calls[j].pc = "threw"
  BY <1>8b DEF Returned, Leaves
<1>11. SameHold(w, t)
  BY <1>3, <1>5, <1>9 DEF SameHold
<1>12. NoneReturns(w, t)
  BY <1>5, <1>9 DEF NoneReturns, Ids
<1>13. Leaves(w, L, K, t)
  BY <1>8, <1>9, <1>11 DEF Leaves
<1> QED  BY <1>5, <1>7, <1>9, <1>10, <1>12, <1>13 DEF Thrown

LEMMA LeasedMid ==
    ASSUME NEW w, NEW L \in SUBSET Ids, Mid(w, L), NEW K \in SUBSET L,
           \A k \in K : w.calls[k].kind # "none"
    PROVE  Leaves(w, L, K, Leased(w, K))
<1> DEFINE A == {k \in K \ Respawns : w.calls[k].pc = "leasing"}
           i == w.m.interval \/ A # {}
           v == [w EXCEPT !.m.interval = @ \/ A # {}]
           u == Finish(v, K \ A, "ok")
           t == Poll(u, A)
<1>1. w \in State /\ w.m \in Manager /\ w.m.attempts <= MaxAttempts
  BY DEF Mid, Typed, State
<1>2. A \in SUBSET K /\ A \subseteq Callers /\ K \ A \in SUBSET L
      /\ L \ (K \ A) \in SUBSET Ids /\ A \in SUBSET (L \ (K \ A))
      /\ (L \ (K \ A)) \ A = L \ K
  BY DEF Ids
<1>3. v = [w EXCEPT !.m.interval = i] /\ i \in BOOLEAN
  OBVIOUS
<1>4. Leased(w, K) = t
  BY DEF Leased
<1> HIDE DEF i, v, u, t, A
<1>5. v \in State /\ v.m = [w.m EXCEPT !.interval = i] /\ v.calls = w.calls
  BY <1>1, <1>3 DEF State, Manager
<1>6. /\ v.m.info = w.m.info /\ v.m.attempts = w.m.attempts
      /\ v.m.shutting = w.m.shutting /\ v.m.token = w.m.token /\ v.m.lease = w.m.lease
  BY <1>1, <1>5 DEF Manager
<1>7. Mid(v, L)
  BY <1>1, <1>5, <1>6, FieldsMid DEF Mid, Tokened
<1>8. Free(w, L) => Free(v, L)
  BY <1>5, <1>6 DEF Free
<1>9. /\ Mid(u, L \ (K \ A)) /\ SameHold(v, u)
      /\ Free(v, L) => Free(u, L \ (K \ A))
      /\ \A j \in Ids \ Joined(v, K \ A) : u.calls[j] = v.calls[j]
  <2>1. \A k \in K \ A : v.calls[k].kind # "none"
    BY <1>5
  <2> DEFINE B == K \ A
  <2>2. B \in SUBSET L /\ \A k \in B : v.calls[k].kind # "none"
    BY <1>2, <2>1
  <2> HIDE DEF B
  <2>3. Returned(v, L, B, "ok", Finish(v, B, "ok"))
    BY <1>7, <2>2, FinishMid
  <2>4. Returned(v, L, K \ A, "ok", u)
    BY <2>3 DEF u, B
  <2> QED  BY <2>4 DEF Returned, Leaves
<1>10. \A k \in A : u.calls[k].kind # "none"
  <2>1. \A k \in A : v.calls[k].pc = "leasing"
    BY <1>5 DEF A
  <2>2. \A k \in A : k \in Ids \ Joined(v, K \ A)
    BY <2>1, <1>2 DEF Joined
  <2> QED  BY <2>2, <1>2, <1>5, <1>9
<1>11. /\ Mid(t, L \ K) /\ SameHold(u, t)
       /\ Free(u, L \ (K \ A)) => Free(t, L \ K)
  <2> DEFINE M == L \ (K \ A)
  <2>1. M \in SUBSET Ids /\ A \in SUBSET M /\ M \ A = L \ K /\ Mid(u, M)
    BY <1>2, <1>9
  <2> HIDE DEF M
  <2>2. Leaves(u, M, A, Poll(u, A))
    BY <2>1, <1>2, <1>10, PollMid
  <2> QED  BY <2>1, <2>2 DEF Leaves, t, M
<1>12. SameHold(w, t)
  BY <1>6, <1>9, <1>11 DEF SameHold
<1> QED  BY <1>4, <1>8, <1>9, <1>11, <1>12 DEF Leaves

\* The lease socket opens or fails: those who wait for it go on.
LEMMA SettlesSound ==
    ASSUME NEW w, Sound(w), w.m.lease = "opening", NEW opened \in BOOLEAN
    PROVE  LET t == LeaseSettles(w, opened) IN Sound(t) /\ Handed(w, t)
<1> DEFINE K == Leasing(w)
<1>1. /\ w \in State /\ w.m \in Manager /\ w.m.attempts <= MaxAttempts
      /\ w.m.token
  BY DEF Sound, Mid, Typed, State, Tokened
<1>2. /\ K \in SUBSET Ids /\ K \in SUBSET K /\ K \ K = {}
      /\ \A k \in K : w.calls[k].kind # "none"
  BY DEF Leasing, Sound, Mid, Shaped
<1>3. ~(w.m.shutting /\ \A k \in Ids \ K : w.calls[k].pc # "stopping")
  <2>1. \A k \in K : w.calls[k].pc # "stopping"
    BY DEF Leasing
  <2> QED  BY <2>1 DEF Sound, Free
<1>4. CASE opened
  <2> DEFINE v == [w EXCEPT !.m.lease = "open"]
             t == Leased(v, K)
  <2>1. v \in State /\ v.m = [w.m EXCEPT !.lease = "open"] /\ v.calls = w.calls
    BY <1>1 DEF State, Manager
  <2> HIDE DEF v, K
  <2>2. /\ v.m.info = w.m.info /\ v.m.attempts = w.m.attempts
        /\ v.m.shutting = w.m.shutting /\ v.m.token /\ v.m.lease = "open"
    BY <1>1, <2>1 DEF Manager
  <2>3. Mid(v, {}) /\ (Mid(v, {}) => Mid(v, K))
    BY <1>1, <2>1, <2>2, FieldsMid DEF Sound, Mid, Owned
  <2>4. Free(v, K)
    BY <1>3, <2>1, <2>2 DEF Free
  <2>5. Mid(t, {}) /\ SameHold(v, t) /\ Free(t, {})
    <3>1. Leaves(v, K, K, t)
      BY <1>2, <2>1, <2>3, LeasedMid
    <3> QED  BY <1>2, <2>4, <3>1 DEF Leaves
  <2>6. Handed(w, t)
    BY <2>2, <2>5 DEF Handed, SameHold
  <2>7. LeaseSettles(w, opened) = t
    BY <1>4 DEF LeaseSettles, v, K
  <2> QED  BY <2>5, <2>6, <2>7 DEF Sound
<1>5. CASE ~opened
  <2> DEFINE v == [w EXCEPT !.m.lease = "none"]
             t == Throw(v, K)
  <2>1. v \in State /\ v.m = [w.m EXCEPT !.lease = "none"] /\ v.calls = w.calls
    BY <1>1 DEF State, Manager
  <2> HIDE DEF v, K
  <2>2. /\ v.m.info = w.m.info /\ v.m.attempts = w.m.attempts
        /\ v.m.shutting = w.m.shutting /\ v.m.lease = "none"
    BY <1>1, <2>1 DEF Manager
  <2>3. Mid(v, {}) /\ (Mid(v, {}) => Mid(v, K))
    BY <1>1, <2>1, <2>2, FieldsMid DEF Sound, Mid, Owned
  <2>4. Free(v, K)
    BY <2>2 DEF Free
  <2>5. Mid(t, {}) /\ Free(t, {}) /\ NoneReturns(v, t)
    <3>1. Thrown(v, K, K, t)
      BY <1>2, <2>1, <2>3, ThrowMid
    <3> QED  BY <1>2, <2>4, <3>1 DEF Thrown, Leaves
  <2>6. Handed(w, t)
    BY <2>1, <2>5 DEF Handed, NoneReturns
  <2>7. LeaseSettles(w, opened) = t
    BY <1>5 DEF LeaseSettles, v, K
  <2> QED  BY <2>5, <2>6, <2>7 DEF Sound
<1> QED  BY <1>4, <1>5

\* Releasing leaves neither a lease nor anyone who waits for one, and does not
\* touch a call k that does not wait.
LEMMA ReleaseMid ==
    ASSUME NEW w, NEW L \in SUBSET Ids, Mid(w, L),
           \A k \in L : w.calls[k].pc \notin {"leasing", "checked", "handing", "joined"}
    PROVE  LET t == Release(w) IN
           /\ Mid(t, L) /\ t.m.lease = "none" /\ t.m.shutting = w.m.shutting
           /\ \A k \in L : t.calls[k] = w.calls[k]
           /\ NoneReturns(w, t)
<1> DEFINE K == Leasing(w)
           v == [w EXCEPT !.m.token = FALSE, !.m.status = "stopped", !.m.lease = "none"]
           t == Throw(v, K)
<1>1. w \in State /\ w.m \in Manager /\ w.m.attempts <= MaxAttempts
  BY DEF Mid, Typed, State
<1>2. /\ v \in State /\ v.calls = w.calls
      /\ v.m = [w.m EXCEPT !.token = FALSE, !.status = "stopped", !.lease = "none"]
  BY <1>1 DEF State, Manager
<1>3. K \in SUBSET Ids /\ L \cap K = {} /\ (L \cup K) \ K = L /\ K \in SUBSET (L \cup K)
      /\ L \cup K \in SUBSET Ids /\ \A k \in K : w.calls[k].kind # "none"
  BY DEF Leasing, Mid, Shaped
<1>4. Release(w) = IF w.m.lease = "opening" THEN Throw([v EXCEPT !.m.lease = "none"], K) ELSE v
  <2>1. Leasing(v) = K
    BY <1>2 DEF Leasing
  <2> HIDE DEF K
  <2> QED  BY <2>1 DEF Release, LeaseSettles
<1>5. [v EXCEPT !.m.lease = "none"] = v
  <2> HIDE DEF v
  <2>1. v.m \in Manager /\ v.m.lease = "none"
    BY <1>1, <1>2 DEF State, Manager
  <2>2. [v.m EXCEPT !.lease = "none"] = v.m
    BY <2>1 DEF Manager
  <2>3. [v EXCEPT !.m.lease = "none"] = [v EXCEPT !.m = [v.m EXCEPT !.lease = "none"]]
    OBVIOUS
  <2> QED  BY <1>2, <2>2, <2>3 DEF State
<1> HIDE DEF v, K, t
<1>6. /\ v.m.info = w.m.info /\ v.m.attempts = w.m.attempts
      /\ v.m.shutting = w.m.shutting /\ v.m.lease = "none"
  BY <1>1, <1>2 DEF Manager
<1>7. Mid(v, L)
  BY <1>1, <1>2, <1>6, FieldsMid
<1>8. NoneReturns(w, v)
  BY <1>2 DEF NoneReturns
<1>9. CASE w.m.lease # "opening"
  BY <1>2, <1>4, <1>6, <1>7, <1>8, <1>9
<1>10. CASE w.m.lease = "opening"
  <2>1. Release(w) = t
    BY <1>4, <1>5, <1>10 DEF t
  <2>2. Mid(v, L \cup K)
    BY <1>7 DEF Mid, Owned
  <2>3. /\ Mid(t, L) /\ SameHold(v, t) /\ NoneReturns(v, t)
        /\ \A j \in Ids \ Joined(v, K) : t.calls[j] = v.calls[j]
    <3>1. \A k \in K : v.calls[k].kind # "none"
      BY <1>2, <1>3
    <3>2. Thrown(v, L \cup K, K, Throw(v, K))
      <4> DEFINE M == L \cup K
      <4>1. M \in SUBSET Ids /\ K \in SUBSET M /\ Mid(v, M)
        BY <1>3, <2>2
      <4> HIDE DEF M
      <4>2. Thrown(v, M, K, Throw(v, K))
        BY <3>1, <4>1, ThrowMid
      <4> QED  BY <4>2 DEF M
    <3> QED  BY <1>3, <3>2 DEF Thrown, Leaves, t
  <2>4. \A k \in L : k \in Ids \ Joined(v, K)
    BY <1>2, <1>3 DEF Joined
  <2> QED  BY <1>2, <1>6, <2>1, <2>3, <2>4 DEF SameHold, NoneReturns
<1> QED  BY <1>9, <1>10

---------------------------------------------------------------------------
(* What a step ends in                                                     *)

\* A call k in the middle of a step, that some method awaits.
Amid(w, k) == Mid(w, {k}) /\ Free(w, {k}) /\ w.calls[k].kind # "none"

LEMMA ThrowSound ==
    ASSUME NEW w, NEW k \in Ids, Amid(w, k)
    PROVE  Sound(Throw(w, {k})) /\ NoneReturns(w, Throw(w, {k}))
<1>1. {k} \in SUBSET Ids /\ {k} \in SUBSET {k} /\ {k} \ {k} = {}
      /\ \A j \in {k} : w.calls[j].kind # "none"
  BY DEF Amid
<1>2. Thrown(w, {k}, {k}, Throw(w, {k}))
  BY <1>1, ThrowMid DEF Amid
<1> QED  BY <1>1, <1>2 DEF Amid, Sound, Thrown, Leaves

\* A call that does not own connectionInfoPromise returns: nobody else does.
LEMMA FinishSound ==
    ASSUME NEW w, NEW k \in Ids, Amid(w, k), w.calls[k].kind # "ready"
    PROVE  LET t == Finish(w, {k}, "ok") IN
           /\ Sound(t) /\ Handed(w, t)
           /\ \A j \in Ids \ {k} : t.calls[j] = w.calls[j]
<1> DEFINE t == Finish(w, {k}, "ok")
<1>1. {k} \in SUBSET Ids /\ {k} \in SUBSET {k} /\ {k} \ {k} = {}
      /\ \A j \in {k} : w.calls[j].kind # "none"
  BY DEF Amid
<1>r. Returned(w, {k}, {k}, "ok", t)
  BY <1>1, FinishMid DEF Amid
<1> HIDE DEF t
<1>2. /\ Mid(t, {k} \ {k})
      /\ Free(w, {k}) => Free(t, {k} \ {k})
      /\ \A j \in Ids \ Joined(w, {k}) : t.calls[j] = w.calls[j]
  BY <1>r DEF Returned, Leaves
<1>3. w.m.info # k
  BY BackendAssumption DEF Amid, Mid, Owned, Ids
<1>4. Joined(w, {k}) = {k}
  BY <1>3 DEF Joined
<1>5. Handed(w, t)
  BY <1>2, <1>4 DEF Handed, Ids
<1> QED  BY <1>1, <1>2, <1>4, <1>5 DEF Amid, Sound, t

LEMMA PollSound ==
    ASSUME NEW w, NEW k \in Callers, Amid(w, k)
    PROVE  Sound(Poll(w, {k})) /\ NoneReturns(w, Poll(w, {k}))
<1>1. {k} \in SUBSET Ids /\ {k} \in SUBSET {k} /\ {k} \ {k} = {} /\ {k} \subseteq Callers
      /\ \A j \in {k} : w.calls[j].kind # "none"
  BY DEF Amid, Ids
<1>2. Leaves(w, {k}, {k}, Poll(w, {k})) /\ MovedTo(w, {k}, "polling", Poll(w, {k}))
  BY <1>1, PollMid DEF Amid
<1>3. NoneReturns(w, Poll(w, {k}))
  BY <1>2 DEF NoneReturns, Ids, MovedTo
<1> QED  BY <1>1, <1>2, <1>3 DEF Amid, Sound, Leaves

\* Where k may go on to wait.
Awaitable(w, k, pc) ==
    /\ pc \in {"joined", "stopping", "acquiring", "leasing", "checked", "polling", "handing",
              "checking"}
    /\ pc \in {"checking", "joined", "checked", "handing"} => w.calls[k].kind = "ready"
    /\ k \in Respawns => pc \in {"acquiring", "leasing"}
    /\ pc = "joined" => w.m.info # Nobody

\* What holds when k has gone on to wait at pc.
WaitsAt(w, k, pc, t) ==
    /\ Mid(t, {k}) /\ NoneReturns(w, t)
    /\ pc \in Busy \/ w.m.info # k => Mid(t, {})
    /\ Free(w, {k}) => Free(t, {k}) /\ Free(t, {})
    /\ pc = "stopping" => Free(t, {})
    /\ MovedTo(w, {k}, pc, t)

LEMMA ToMid ==
    ASSUME NEW w, NEW k \in Ids, Mid(w, {k}), w.calls[k].kind # "none",
           NEW pc, Awaitable(w, k, pc), NEW answer \in Answers
    PROVE  WaitsAt(w, k, pc, To(w, {k}, pc, answer))
<1> DEFINE t == To(w, {k}, pc, answer)
<1>1. w \in State /\ {k} \in SUBSET Ids /\ pc \in Pcs
  BY DEF Mid, Typed, Awaitable, Pcs
<1>m. MovedTo(w, {k}, pc, t)
  BY <1>1, ToFacts
<1> HIDE DEF t
<1>2. /\ t \in State /\ t.m = w.m
      /\ t.calls[k].kind = w.calls[k].kind /\ t.calls[k].pc = pc
      /\ \A j \in Ids \ {k} : t.calls[j] = w.calls[j]
  BY <1>m DEF MovedTo
<1>3. Typed(t) /\ Tokened(t)
  BY <1>2 DEF Typed, Tokened, Mid
<1>4. Shaped(t)
  <2> SUFFICES ASSUME NEW j \in Ids
               PROVE  /\ t.calls[j].kind = "none" => t.calls[j].pc = "idle"
                      /\ t.calls[j].pc \in {"checking", "joined", "checked", "handing"}
                           => t.calls[j].kind = "ready"
                      /\ j \in Respawns => /\ t.calls[j].kind \in {"none", "respawn"}
                                           /\ t.calls[j].pc \in {"idle", "acquiring", "leasing"}
                      /\ j \in Callers => t.calls[j].kind # "respawn"
    BY DEF Shaped
  <2>1. CASE j = k
    BY <2>1, <1>2 DEF Mid, Shaped, Awaitable
  <2>2. CASE j # k
    BY <2>2, <1>2 DEF Mid, Shaped
  <2> QED  BY <2>1, <2>2
<1>5. w.m.info # Nobody => /\ w.m.info \in Callers /\ w.m.info \in Ids
                           /\ w.calls[w.m.info].kind = "ready"
                           /\ w.m.info = k \/ w.calls[w.m.info].pc \in Busy
  BY DEF Mid, Owned, Ids
<1>6. \A j \in Ids : t.calls[j].pc = "joined" => t.m.info # Nobody
  <2> TAKE j \in Ids
  <2>1. CASE j = k
    BY <2>1, <1>2 DEF Awaitable
  <2>2. CASE j # k
    BY <2>2, <1>2 DEF Mid, Owned
  <2> QED  BY <2>1, <2>2
<1>7. Owned(t, {k})
  BY <1>2, <1>5, <1>6 DEF Owned
<1>8. pc \in Busy \/ w.m.info # k => Owned(t, {})
  BY <1>2, <1>5, <1>6 DEF Owned
<1>9. /\ Free(w, {k}) => Free(t, {k}) /\ Free(t, {})
      /\ pc = "stopping" => Free(t, {})
  BY <1>2 DEF Free, Awaitable
<1>10. NoneReturns(w, t)
  BY <1>2 DEF NoneReturns, Ids, Awaitable
<1> QED  BY <1>m, <1>3, <1>4, <1>7, <1>8, <1>9, <1>10 DEF Mid, WaitsAt, t

LEMMA SpawnSound ==
    ASSUME NEW w, NEW k \in Ids, Amid(w, k), NEW found \in BOOLEAN
    PROVE  Sound(Spawn(w, k, found)) /\ NoneReturns(w, Spawn(w, k, found))
<1>1. CASE found
  <2>1. Awaitable(w, k, "acquiring") /\ "acquiring" \in Busy /\ "asked" \in Answers
    BY DEF Awaitable, Busy, Answers
  <2>2. WaitsAt(w, k, "acquiring", To(w, {k}, "acquiring", "asked"))
    BY <2>1, ToMid DEF Amid
  <2> QED  BY <1>1, <2>1, <2>2 DEF Spawn, Sound, WaitsAt, Amid
<1>2. CASE ~found
  <2> DEFINE v == [w EXCEPT !.m.status = "unhealthy"]
  <2>1. w \in State /\ w.m \in Manager /\ w.m.attempts <= MaxAttempts
    BY DEF Amid, Mid, Typed, State
  <2>2. v \in State /\ v.m = [w.m EXCEPT !.status = "unhealthy"] /\ v.calls = w.calls
    BY <2>1 DEF State, Manager
  <2> HIDE DEF v
  <2>3. /\ v.m.info = w.m.info /\ v.m.attempts = w.m.attempts
        /\ v.m.shutting = w.m.shutting /\ v.m.token = w.m.token /\ v.m.lease = w.m.lease
    BY <2>1, <2>2 DEF Manager
  <2>4. Mid(v, {k})
    BY <2>1, <2>2, <2>3, FieldsMid DEF Amid, Mid, Tokened
  <2>5. Amid(v, k)
    BY <2>2, <2>3, <2>4 DEF Amid, Free
  <2>6. Sound(Throw(v, {k})) /\ NoneReturns(v, Throw(v, {k}))
    BY <2>5, ThrowSound
  <2> QED  BY <1>2, <2>2, <2>6 DEF Spawn, NoneReturns, v
<1> QED  BY <1>1, <1>2

\* stopAndWait() is through.
LEMMA StoppedSound ==
    ASSUME NEW w, NEW k \in Callers, Mid(w, {k}), w.calls[k].kind # "none",
           w.calls[k].pc \in {"idle", "checking", "stopping"}, NEW found \in BOOLEAN
    PROVE  Sound(Stopped(w, k, found)) /\ Handed(w, Stopped(w, k, found))
<1> DEFINE t == Release(w)
<1>0. k \in Ids /\ {k} \in SUBSET Ids
  BY DEF Ids
<1>1. /\ Mid(t, {k}) /\ t.m.lease = "none" /\ t.calls[k] = w.calls[k]
      /\ NoneReturns(w, t)
  BY <1>0, ReleaseMid
<1> HIDE DEF t
<1>2. CASE w.calls[k].kind = "stop"
  <2> DEFINE f == Finish(t, {k}, "ok")
  <2>1. Amid(t, k)
    BY <1>1 DEF Amid, Free
  <2>2. Sound(f) /\ \A j \in Ids \ {k} : f.calls[j] = t.calls[j]
    BY <1>0, <1>1, <1>2, <2>1, FinishSound
  <2>3. Stopped(w, k, found) = f
    BY <1>2 DEF Stopped, t
  <2> HIDE DEF f
  <2>4. Handed(w, f)
    BY <1>1, <1>2, <2>2 DEF Handed, NoneReturns, Ids
  <2> QED  BY <2>2, <2>3, <2>4
<1>3. CASE w.calls[k].kind # "stop"
  <2> DEFINE v == [t EXCEPT !.m.shutting = FALSE, !.m.status = "starting"]
  <2>1. t \in State /\ t.m \in Manager /\ t.m.attempts <= MaxAttempts
    BY <1>1 DEF Mid, Typed, State
  <2>2. /\ v \in State /\ v.calls = t.calls
        /\ v.m = [t.m EXCEPT !.shutting = FALSE, !.status = "starting"]
    BY <2>1 DEF State, Manager
  <2>3. Stopped(w, k, found) = Spawn(v, k, found)
    BY <1>3 DEF Stopped, t
  <2> HIDE DEF v
  <2>4. /\ v.m.info = t.m.info /\ v.m.attempts = t.m.attempts
        /\ v.m.lease = "none" /\ ~v.m.shutting
    BY <1>1, <2>1, <2>2 DEF Manager
  <2>5. Amid(v, k)
    BY <1>1, <2>1, <2>2, <2>4, FieldsMid DEF Amid, Free
  <2>6. Sound(Spawn(v, k, found)) /\ NoneReturns(v, Spawn(v, k, found))
    BY <1>0, <2>5, SpawnSound
  <2> QED  BY <1>1, <2>2, <2>3, <2>6 DEF NoneReturns, Handed
<1> QED  BY <1>2, <1>3

LEMMA StopAndWaitSound ==
    ASSUME NEW w, NEW k \in Callers, Mid(w, {k}), w.calls[k].kind # "none",
           w.calls[k].pc \in {"idle", "checking"}, NEW found \in BOOLEAN
    PROVE  Sound(StopAndWait(w, k, found)) /\ Handed(w, StopAndWait(w, k, found))
<1> DEFINE v == [w EXCEPT !.m.shutting = TRUE, !.m.interval = FALSE,
                          !.m.timer = FALSE, !.m.attempts = 0]
<1>0. k \in Ids /\ k \notin Respawns /\ MaxAttempts \in Nat
  BY BackendAssumption DEF Ids
<1>1. w \in State /\ w.m \in Manager
  BY DEF Mid, Typed, State
<1>2. /\ v \in State /\ v.calls = w.calls
      /\ v.m = [w.m EXCEPT !.shutting = TRUE, !.interval = FALSE,
                           !.timer = FALSE, !.attempts = 0]
  BY <1>1 DEF State, Manager
<1>3. StopAndWait(w, k, found) =
        IF w.m.token THEN To(v, {k}, "stopping", "asked") ELSE Stopped(v, k, found)
  BY DEF StopAndWait
<1> HIDE DEF v
<1>4. /\ v.m.info = w.m.info /\ v.m.attempts <= MaxAttempts
      /\ v.m.token = w.m.token /\ v.m.lease = w.m.lease
  BY <1>0, <1>1, <1>2 DEF Manager
<1>5. Mid(v, {k})
  BY <1>2, <1>4, FieldsMid DEF Mid, Tokened
<1>6. CASE w.m.token
  <2>1. Awaitable(v, k, "stopping") /\ "stopping" \in Busy /\ "asked" \in Answers
    BY <1>0 DEF Awaitable, Busy, Answers
  <2> DEFINE t == To(v, {k}, "stopping", "asked")
  <2>2. v.calls[k].kind # "none"
    BY <1>0, <1>2
  <2>3. WaitsAt(v, k, "stopping", t)
    BY <1>0, <1>5, <2>1, <2>2, ToMid
  <2> HIDE DEF t
  <2>4. Mid(t, {}) /\ Free(t, {}) /\ NoneReturns(v, t)
    BY <2>1, <2>3 DEF WaitsAt
  <2>5. StopAndWait(w, k, found) = t
    BY <1>3, <1>6 DEF t
  <2> QED  BY <1>2, <2>4, <2>5 DEF Sound, NoneReturns, Handed
<1>7. CASE ~w.m.token
  <2>1. Sound(Stopped(v, k, found)) /\ Handed(v, Stopped(v, k, found))
    BY <1>2, <1>5, StoppedSound
  <2> QED  BY <1>2, <1>3, <1>7, <2>1 DEF Handed
<1> QED  BY <1>6, <1>7

\* ensureRuntimeLease(): whoever goes on at once has the lease, or finds the
\* application letting go of the backend.
LEMMA LeaseSound ==
    ASSUME NEW w, NEW k \in Ids, Amid(w, k), NEW pc \in {"leasing", "checked", "handing"},
           pc \in {"checked", "handing"} => w.calls[k].kind = "ready",
           pc = "checked" => w.m.info # k
    PROVE  Sound(Lease(w, k, pc)) /\ Handed(w, Lease(w, k, pc))
<1> DEFINE t == To(w, {k}, pc, "none")
<1>1. k \in Respawns => w.calls[k].kind # "ready"
  BY DEF Amid, Mid, Shaped
<1>2. Awaitable(w, k, pc) /\ "none" \in Answers
  BY <1>1 DEF Awaitable, Answers
<1>w. WaitsAt(w, k, pc, t)
  BY <1>2, ToMid DEF Amid
<1> HIDE DEF t
<1>3. /\ Mid(t, {k}) /\ NoneReturns(w, t) /\ Mid(t, {})
      /\ Free(t, {k}) /\ Free(t, {})
      /\ t.m = w.m /\ t.calls[k].kind = w.calls[k].kind
  BY <1>w DEF Amid, Busy, WaitsAt, MovedTo
<1>4. Amid(t, k)
  BY <1>3 DEF Amid
<1>5. t \in State /\ t.m \in Manager /\ t.m.attempts <= MaxAttempts
  BY <1>3 DEF Mid, Typed, State
<1>6. CASE w.m.shutting \/ w.m.lease = "open"
  <2>1. Lease(w, k, pc) = Leased(t, {k})
    BY <1>6 DEF Lease, t
  <2>2. {k} \in SUBSET Ids /\ {k} \in SUBSET {k} /\ {k} \ {k} = {}
        /\ \A j \in {k} : t.calls[j].kind # "none"
    BY <1>4 DEF Amid
  <2>3. Leaves(t, {k}, {k}, Leased(t, {k}))
    BY <1>3, <2>2, LeasedMid
  <2>4. w.m.lease = "open" => w.m.token
    BY DEF Amid, Mid, Tokened
  <2>5. Handed(w, Leased(t, {k}))
    BY <1>3, <1>6, <2>3, <2>4 DEF Handed, Leaves, SameHold
  <2> QED  BY <1>3, <2>1, <2>2, <2>3, <2>5 DEF Sound, Leaves
<1>7. CASE ~w.m.shutting /\ w.m.lease = "opening"
  <2>1. Lease(w, k, pc) = t
    BY <1>7 DEF Lease, t
  <2> QED  BY <1>3, <2>1 DEF Sound, NoneReturns, Handed
<1>8. CASE ~w.m.shutting /\ w.m.lease \notin {"open", "opening"} /\ w.m.token
  <2> DEFINE v == [t EXCEPT !.m.lease = "opening"]
  <2>1. Lease(w, k, pc) = v
    BY <1>8 DEF Lease, t
  <2>2. v \in State /\ v.calls = t.calls /\ v.m = [t.m EXCEPT !.lease = "opening"]
    BY <1>5 DEF State, Manager
  <2> HIDE DEF v
  <2>3. /\ v.m.info = t.m.info /\ v.m.attempts = t.m.attempts
        /\ v.m.token /\ ~v.m.shutting
    BY <1>3, <1>5, <1>8, <2>2 DEF Manager
  <2>4. Mid(v, {}) /\ Free(v, {})
    BY <1>3, <1>5, <2>2, <2>3, FieldsMid DEF Free
  <2> QED  BY <1>3, <2>1, <2>2, <2>4 DEF Sound, NoneReturns, Handed
<1>9. CASE ~w.m.shutting /\ w.m.lease \notin {"open", "opening"} /\ ~w.m.token
  <2>1. Lease(w, k, pc) = Throw(t, {k})
    BY <1>9 DEF Lease, t
  <2>2. Sound(Throw(t, {k})) /\ NoneReturns(t, Throw(t, {k}))
    BY <1>4, ThrowSound
  <2> QED  BY <1>3, <2>1, <2>2 DEF NoneReturns, Handed
<1> QED  BY <1>6, <1>7, <1>8, <1>9

---------------------------------------------------------------------------
(* The actions                                                             *)

\* What every step does: the invariant goes on, and calls of
\* getReadyConnectionInfo return with what they promise.
Keeps == Sound(Now') /\ Handed(Now, Now')

LEMMA SetKeeps ==
    ASSUME NEW w, Sound(w), Handed(Now, w), Set(w)
    PROVE  Keeps
<1>1. w \in State
  BY DEF Sound, Mid, Typed
<1>2. Now' = [m |-> w.m, calls |-> w.calls]
  BY DEF Now, Set
<1>3. Now' = w
  BY <1>1, <1>2 DEF State
<1> QED  BY <1>3 DEF Keeps

LEMMA NowFacts ==
    ASSUME Sound(Now)
    PROVE  /\ Now \in State /\ Now.m = m /\ Now.calls = calls
           /\ m \in Manager /\ m.attempts <= MaxAttempts /\ calls \in [Ids -> Call]
           /\ MaxAttempts \in Nat
  BY BackendAssumption DEF Sound, Mid, Typed, State, Now

\* The call that a step is of.
LEMMA NowAmid ==
    ASSUME Sound(Now), NEW k \in Ids, calls[k].pc \notin {"idle", "stopping"}
    PROVE  Amid(Now, k)
<1>1. Now.calls = calls
  BY NowFacts
<1>2. Mid(Now, {k})
  BY DEF Sound, Mid, Owned
<1>3. Free(Now, {k})
  BY <1>1 DEF Sound, Free
<1>4. calls[k].kind # "none"
  BY <1>1 DEF Sound, Mid, Shaped
<1> QED  BY <1>1, <1>2, <1>3, <1>4 DEF Amid

\* A step on fields that concern no caller.
LEMMA FieldsAmid ==
    ASSUME NEW w, NEW k, Amid(w, k), NEW v, v \in State, v.calls = w.calls,
           v.m.info = w.m.info, v.m.attempts <= MaxAttempts,
           v.m.lease = w.m.lease, w.m.token => v.m.token,
           v.m.shutting => w.m.shutting
    PROVE  Amid(v, k)
<1>1. Mid(v, {k})
  BY FieldsMid DEF Amid, Mid, Tokened
<1>2. Free(v, {k})
  BY DEF Amid, Free
<1> QED  BY <1>1, <1>2 DEF Amid

LEMMA CallerStates ==
    ASSUME Sound(Now), NEW k \in Ids
    PROVE  /\ calls[k].kind = "none" => calls[k].pc = "idle"
           /\ calls[k].pc \in {"checking", "joined", "checked", "handing"}
                => calls[k].kind = "ready"
           /\ calls[k].pc \notin {"idle", "acquiring", "leasing"} => k \in Callers
  BY NowFacts DEF Sound, Mid, Shaped, Ids

\* A call begins.
LEMMA AsAmid ==
    ASSUME Sound(Now), NEW k \in Callers, NEW kind \in {"start", "restart", "ready", "stop"},
           Begins(k, kind)
    PROVE  LET v == As(k, kind) IN
           /\ v \in State /\ v.m = m /\ Amid(v, k) /\ m.info # k
           /\ v.calls[k].kind = kind /\ v.calls[k].pc = "idle"
           /\ \A t : Handed(v, t) => Handed(Now, t)
<1> DEFINE v == As(k, kind)
           c == [calls EXCEPT ![k].kind = kind]
<1>1. /\ Now \in State /\ Now.m = m /\ Now.calls = calls /\ k \in Ids
      /\ m \in Manager /\ m.attempts <= MaxAttempts /\ calls \in [Ids -> Call]
  BY NowFacts DEF Ids
<1>2. v.m = m /\ v.calls = c /\ v = [m |-> m, calls |-> c]
  BY DEF As
<1>3. calls[k] \in Call /\ calls[k].kind = "none" /\ calls[k].pc = "idle" /\ kind \in Kinds
  BY <1>1, CallerStates DEF Begins
<1>4. [calls[k] EXCEPT !.kind = kind] \in Call
  BY <1>3 DEF Call
<1>5. c \in [Ids -> Call] /\ c[k].kind = kind /\ c[k].pc = "idle"
      /\ \A j \in Ids \ {k} : c[j] = calls[j]
  BY <1>1, <1>3, <1>4 DEF Call
<1> HIDE DEF v, c
<1>6. v \in State
  BY <1>1, <1>2, <1>5 DEF State
<1>7. m.info # k
  BY <1>1, <1>3, BackendAssumption DEF Sound, Mid, Owned, Ids
<1>8. Typed(v) /\ Tokened(v)
  BY <1>1, <1>2, <1>6 DEF Typed, Tokened, Sound, Mid
<1>9. Shaped(v)
  <2> SUFFICES ASSUME NEW j \in Ids
               PROVE  /\ c[j].kind = "none" => c[j].pc = "idle"
                      /\ c[j].pc \in {"checking", "joined", "checked", "handing"}
                           => c[j].kind = "ready"
                      /\ j \in Respawns => /\ c[j].kind \in {"none", "respawn"}
                                           /\ c[j].pc \in {"idle", "acquiring", "leasing"}
                      /\ j \in Callers => c[j].kind # "respawn"
    BY <1>2 DEF Shaped
  <2>1. CASE j = k
    BY <2>1, <1>5, BackendAssumption
  <2>2. CASE j # k
    BY <2>2, <1>1, <1>5 DEF Sound, Mid, Shaped
  <2> QED  BY <2>1, <2>2
<1>10. Owned(v, {k})
  BY <1>1, <1>2, <1>5, <1>7 DEF Sound, Mid, Owned, Ids
<1>11. Free(v, {k})
  BY <1>1, <1>2, <1>3, <1>5 DEF Sound, Free
<1>12. \A t : Handed(v, t) => Handed(Now, t)
  BY <1>1, <1>2, <1>3, <1>5 DEF Handed, Ids
<1> QED  BY <1>2, <1>5, <1>6, <1>7, <1>8, <1>9, <1>10, <1>11, <1>12 DEF Amid, Mid, v

LEMMA StartKeeps ==
    ASSUME Sound(Now), NEW k \in Callers, NEW found \in BOOLEAN, Start(k, found)
    PROVE  Keeps
<1> DEFINE v == As(k, "start")
           s == [v EXCEPT !.m.shutting = FALSE]
<1>0. k \in Ids
  BY DEF Ids
<1>1. /\ v \in State /\ v.m = m /\ Amid(v, k)
      /\ \A t : Handed(v, t) => Handed(Now, t)
  BY AsAmid DEF Start
<1>2. m \in Manager /\ m.attempts <= MaxAttempts
  BY NowFacts
<1> HIDE DEF v
<1>3. CASE m.status \in {"starting", "healthy"}
  <2> DEFINE x == [s EXCEPT !.m.interval = TRUE]
  <2>1. /\ x \in State /\ x.calls = v.calls
        /\ x.m = [m EXCEPT !.shutting = FALSE, !.interval = TRUE]
    BY <1>1, <1>2 DEF State, Manager
  <2>2. Set(Poll(x, {k}))
    BY <1>3 DEF Start, v
  <2> HIDE DEF x
  <2>3. x.m.info = m.info /\ x.m.attempts = m.attempts /\ x.m.token = m.token
        /\ x.m.lease = m.lease /\ ~x.m.shutting
    BY <1>2, <2>1 DEF Manager
  <2>4. Amid(x, k)
    BY <1>1, <1>2, <2>1, <2>3, FieldsAmid
  <2>5. Sound(Poll(x, {k})) /\ NoneReturns(x, Poll(x, {k}))
    BY <2>4, PollSound
  <2>6. Handed(v, Poll(x, {k}))
    BY <2>1, <2>5 DEF NoneReturns, Handed
  <2>7. Handed(Now, Poll(x, {k}))
    BY <1>1, <2>6
  <2> QED  BY <2>2, <2>5, <2>7, SetKeeps
<1>4. CASE m.status \notin {"starting", "healthy"}
  <2> DEFINE x == [s EXCEPT !.m.status = "starting"]
  <2>1. /\ x \in State /\ x.calls = v.calls
        /\ x.m = [m EXCEPT !.shutting = FALSE, !.status = "starting"]
    BY <1>1, <1>2 DEF State, Manager
  <2>2. Set(Spawn(x, k, found))
    BY <1>4 DEF Start, v
  <2> HIDE DEF x
  <2>3. x.m.info = m.info /\ x.m.attempts = m.attempts /\ x.m.token = m.token
        /\ x.m.lease = m.lease /\ ~x.m.shutting
    BY <1>2, <2>1 DEF Manager
  <2>4. Amid(x, k)
    BY <1>1, <1>2, <2>1, <2>3, FieldsAmid
  <2>5. Sound(Spawn(x, k, found)) /\ NoneReturns(x, Spawn(x, k, found))
    BY <1>0, <2>4, SpawnSound
  <2>6. Handed(v, Spawn(x, k, found))
    BY <2>1, <2>5 DEF NoneReturns, Handed
  <2>7. Handed(Now, Spawn(x, k, found))
    BY <1>1, <2>6
  <2> QED  BY <2>2, <2>5, <2>7, SetKeeps
<1> QED  BY <1>3, <1>4

LEMMA StopKeeps ==
    ASSUME Sound(Now), NEW k \in Callers, NEW kind \in {"stop", "restart"},
           NEW found \in BOOLEAN, Stop(k, kind, found)
    PROVE  Keeps
<1> DEFINE v == As(k, kind)
<1>1. /\ Amid(v, k) /\ v.calls[k].pc = "idle"
      /\ \A t : Handed(v, t) => Handed(Now, t)
  BY AsAmid DEF Stop
<1>2. Set(StopAndWait(v, k, found))
  BY DEF Stop
<1> HIDE DEF v
<1>3. Sound(StopAndWait(v, k, found)) /\ Handed(v, StopAndWait(v, k, found))
  BY <1>1, StopAndWaitSound DEF Amid
<1> QED  BY <1>1, <1>2, <1>3, SetKeeps

LEMMA ReadyKeeps ==
    ASSUME Sound(Now), NEW k \in Callers, Ready(k)
    PROVE  Keeps
<1> DEFINE v == As(k, "ready")
           t == To(v, {k}, "checking", Ask(m))
<1>0. k \in Ids /\ k \notin Respawns
  BY BackendAssumption DEF Ids
<1>1. /\ v.m = m /\ Amid(v, k) /\ m.info # k /\ v.calls[k].kind = "ready"
      /\ \A u : Handed(v, u) => Handed(Now, u)
  BY AsAmid DEF Ready
<1>2. Set(t)
  BY DEF Ready
<1>3. Ask(m) \in Answers
  BY DEF Ask, Answers
<1> HIDE DEF v
<1>4. Awaitable(v, k, "checking")
  BY <1>0, <1>1 DEF Awaitable
<1>w. WaitsAt(v, k, "checking", t)
  BY <1>0, <1>1, <1>3, <1>4, ToMid DEF Amid
<1>5. Mid(t, {}) /\ Free(t, {}) /\ NoneReturns(v, t)
  BY <1>1, <1>w DEF Amid, WaitsAt
<1> HIDE DEF t
<1>6. Handed(v, t)
  BY <1>5 DEF NoneReturns, Handed
<1>7. Handed(Now, t)
  BY <1>1, <1>6
<1> QED  BY <1>2, <1>5, <1>7, SetKeeps DEF Sound

LEMMA DetachKeeps ==
    ASSUME Sound(Now), Detach
    PROVE  Keeps
<1> DEFINE f == [m EXCEPT !.shutting = TRUE, !.interval = FALSE, !.timer = FALSE]
           v == [m |-> f, calls |-> calls]
           t == Release(v)
<1>1. /\ Now.m = m /\ Now.calls = calls
      /\ m \in Manager /\ m.attempts <= MaxAttempts /\ calls \in [Ids -> Call]
  BY NowFacts
<1>2. f \in Manager /\ f.info = m.info /\ f.attempts = m.attempts
      /\ f.token = m.token /\ f.lease = m.lease
  BY <1>1 DEF Manager
<1> HIDE DEF f
<1>3. v \in State /\ v.calls = Now.calls /\ v.m = f
  BY <1>1, <1>2 DEF State
<1>4. Set(t)
  BY DEF Detach, f
<1> HIDE DEF v
<1>5. Mid(v, {})
  BY <1>1, <1>2, <1>3, FieldsMid DEF Sound, Mid, Tokened
<1>6. Mid(t, {}) /\ t.m.lease = "none" /\ NoneReturns(v, t)
  BY <1>5, ReleaseMid
<1> HIDE DEF t
<1>7. Sound(t) /\ Handed(Now, t)
  BY <1>3, <1>6 DEF Sound, Free, NoneReturns, Handed
<1> QED  BY <1>4, <1>7, SetKeeps

LEMMA CheckedKeeps ==
    ASSUME Sound(Now), NEW k \in Ids, NEW found \in BOOLEAN, Checked(k, found)
    PROVE  Keeps
<1> DEFINE own == [Now EXCEPT !.m.info = k]
<1>1. /\ Now \in State /\ Now.m = m /\ Now.calls = calls
      /\ m \in Manager /\ m.attempts <= MaxAttempts /\ calls \in [Ids -> Call]
  BY NowFacts
<1>2. /\ calls[k].pc = "checking" /\ calls[k].kind = "ready" /\ k \in Callers
      /\ k \notin Respawns
  BY CallerStates, BackendAssumption DEF Checked, Answered
<1>3. Amid(Now, k)
  BY <1>2, NowAmid
<1>4. m.info # k
  BY <1>1, <1>2, BackendAssumption DEF Sound, Mid, Owned, Busy
<1>5. CASE calls[k].answer = "ok"
  <2> DEFINE v == [Now EXCEPT !.m.status = "healthy"]
  <2>1. v \in State /\ v.calls = Now.calls /\ v.m = [m EXCEPT !.status = "healthy"]
    BY <1>1 DEF State, Manager
  <2>2. Set(Lease(v, k, "checked"))
    BY <1>5 DEF Checked
  <2> HIDE DEF v
  <2>3. /\ v.m.info = m.info /\ v.m.attempts = m.attempts /\ v.m.token = m.token
        /\ v.m.lease = m.lease /\ v.m.shutting = m.shutting
    BY <1>1, <2>1 DEF Manager
  <2>4. Amid(v, k)
    BY <1>1, <1>3, <2>1, <2>3, FieldsAmid
  <2>5. Sound(Lease(v, k, "checked")) /\ Handed(v, Lease(v, k, "checked"))
    BY <1>1, <1>2, <1>4, <2>1, <2>3, <2>4, LeaseSound
  <2>6. Handed(Now, Lease(v, k, "checked"))
    BY <2>1, <2>5 DEF Handed
  <2> QED  BY <2>2, <2>5, <2>6, SetKeeps
<1>6. CASE calls[k].answer # "ok" /\ m.info # Nobody
  <2> DEFINE t == To(Now, {k}, "joined", "none")
  <2>1. Set(t)
    BY <1>6 DEF Checked
  <2>2. Awaitable(Now, k, "joined") /\ "none" \in Answers
    BY <1>1, <1>2, <1>6 DEF Awaitable, Answers
  <2>w. WaitsAt(Now, k, "joined", t)
    BY <1>1, <1>3, <1>4, <2>2, ToMid DEF Amid
  <2>3. Mid(t, {}) /\ Free(t, {}) /\ NoneReturns(Now, t)
    BY <1>1, <1>3, <1>4, <2>w DEF Amid, WaitsAt
  <2> HIDE DEF t
  <2> QED  BY <2>1, <2>3, SetKeeps DEF Sound, NoneReturns, Handed
<1>7. CASE calls[k].answer # "ok" /\ m.info = Nobody
  <2>1. own \in State /\ own.calls = calls /\ own.m = [m EXCEPT !.info = k]
    BY <1>1 DEF State, Manager
  <2> HIDE DEF own
  <2>2. /\ own.m.info = k /\ own.m.attempts = m.attempts /\ own.m.token = m.token
        /\ own.m.lease = m.lease /\ own.m.shutting = m.shutting
    BY <1>1, <2>1 DEF Manager
  <2>3. Typed(own) /\ Shaped(own) /\ Tokened(own)
    BY <1>1, <2>1, <2>2 DEF Typed, Shaped, Tokened, Sound, Mid
  <2>4. Owned(own, {k})
    BY <1>2, <2>1, <2>2, BackendAssumption DEF Owned
  <2>5. Free(own, {k})
    BY <1>1, <1>3, <2>1, <2>2 DEF Free, Amid
  <2>6. Amid(own, k)
    BY <1>2, <2>1, <2>3, <2>4, <2>5 DEF Amid, Mid
  <2>7. CASE m.status = "starting"
    <3>1. Set(Poll(own, {k}))
      BY <1>7, <2>7 DEF Checked, own
    <3>2. Sound(Poll(own, {k})) /\ NoneReturns(own, Poll(own, {k}))
      BY <1>2, <2>6, PollSound
    <3> DEFINE t == Poll(own, {k})
    <3> HIDE DEF t
    <3>3. Handed(Now, t)
      <4>1. NoneReturns(own, t)
        BY <3>2 DEF t
      <4>2. \A j \in Callers : t.calls[j].pc = "ok" => calls[j].pc = "ok"
        BY <2>1, <4>1 DEF NoneReturns
      <4> QED  BY <1>1, <4>2 DEF Handed
    <3> QED  BY <3>1, <3>2, <3>3, SetKeeps DEF t
  <2>8. CASE m.status # "starting"
    <3>1. Set(StopAndWait(own, k, found))
      BY <1>7, <2>8 DEF Checked, own
    <3>2. Sound(StopAndWait(own, k, found)) /\ Handed(own, StopAndWait(own, k, found))
      BY <1>2, <2>1, <2>6, StopAndWaitSound DEF Amid
    <3>3. Handed(Now, StopAndWait(own, k, found))
      BY <1>1, <2>1, <3>2 DEF Handed
    <3> QED  BY <3>1, <3>2, <3>3, SetKeeps
  <2> QED  BY <2>7, <2>8
<1> QED  BY <1>5, <1>6, <1>7

LEMMA StopReturnsKeeps ==
    ASSUME Sound(Now), NEW k \in Ids, NEW found \in BOOLEAN, StopReturns(k, found)
    PROVE  Keeps
<1>1. Now.m = m /\ Now.calls = calls
  BY NowFacts
<1>2. calls[k].pc = "stopping" /\ k \in Callers
  BY CallerStates DEF StopReturns, Answered
<1>3. Mid(Now, {k}) /\ Now.calls[k].kind # "none"
  BY <1>1, <1>2, CallerStates DEF Sound, Mid, Owned
<1>4. Sound(Stopped(Now, k, found)) /\ Handed(Now, Stopped(Now, k, found))
  BY <1>1, <1>2, <1>3, StoppedSound
<1> QED  BY <1>4, SetKeeps DEF StopReturns

LEMMA AcquiredKeeps ==
    ASSUME Sound(Now), NEW k \in Ids, Acquired(k)
    PROVE  Keeps
<1> DEFINE v == [Now EXCEPT !.m.token = TRUE]
<1>1. /\ Now \in State /\ Now.m = m /\ Now.calls = calls
      /\ m \in Manager /\ m.attempts <= MaxAttempts
  BY NowFacts
<1>2. Amid(Now, k)
  BY NowAmid DEF Acquired
<1>3. v \in State /\ v.calls = Now.calls /\ v.m = [m EXCEPT !.token = TRUE]
  BY <1>1 DEF State, Manager
<1>4. Set(Lease(v, k, "leasing"))
  BY DEF Acquired
<1> HIDE DEF v
<1>5. /\ v.m.info = m.info /\ v.m.attempts = m.attempts /\ v.m.token
      /\ v.m.lease = m.lease /\ v.m.shutting = m.shutting
  BY <1>1, <1>3 DEF Manager
<1>6. Amid(v, k)
  BY <1>1, <1>2, <1>3, <1>5, FieldsAmid
<1>7. Sound(Lease(v, k, "leasing")) /\ Handed(v, Lease(v, k, "leasing"))
  BY <1>6, LeaseSound
<1>8. Handed(Now, Lease(v, k, "leasing"))
  BY <1>3, <1>7 DEF Handed
<1> QED  BY <1>4, <1>7, <1>8, SetKeeps

LEMMA AcquireFailsKeeps ==
    ASSUME Sound(Now), NEW k \in Ids, AcquireFails(k)
    PROVE  Keeps
<1>1. Amid(Now, k)
  BY NowAmid DEF AcquireFails
<1>2. Sound(Throw(Now, {k})) /\ NoneReturns(Now, Throw(Now, {k}))
  BY <1>1, ThrowSound
<1>3. Handed(Now, Throw(Now, {k}))
  BY <1>2 DEF Handed, NoneReturns
<1> QED  BY <1>2, <1>3, SetKeeps DEF AcquireFails

\* A change of answers and of the count of pings concerns nothing that holds.
LEMMA AlikeSound ==
    ASSUME NEW w, Sound(w), NEW v, v \in State, v.m = w.m,
           \A j \in Ids : v.calls[j].kind = w.calls[j].kind /\ v.calls[j].pc = w.calls[j].pc
    PROVE  Sound(v) /\ NoneReturns(w, v)
<1>1. Typed(v) /\ Tokened(v)
  BY DEF Sound, Mid, Typed, Tokened
<1>2. Shaped(v)
  BY DEF Sound, Mid, Shaped
<1>3. Owned(v, {})
  BY DEF Sound, Mid, Owned, Ids
<1>4. Free(v, {})
  BY DEF Sound, Free
<1>5. NoneReturns(w, v)
  BY DEF NoneReturns, Ids
<1> QED  BY <1>1, <1>2, <1>3, <1>4, <1>5 DEF Sound, Mid

LEMMA PolledKeeps ==
    ASSUME Sound(Now), NEW k \in Ids, Polled(k)
    PROVE  Keeps
<1>1. /\ Now \in State /\ Now.m = m /\ Now.calls = calls
      /\ m \in Manager /\ m.attempts <= MaxAttempts /\ MaxAttempts \in Nat
      /\ calls \in [Ids -> Call]
  BY NowFacts
<1>2. /\ calls[k].pc = "polling" /\ calls[k].answer \in {"ok", "bad"} /\ k \in Callers
      /\ k \notin Respawns
  BY CallerStates, BackendAssumption DEF Polled, Answered
<1>3. Amid(Now, k)
  BY <1>2, NowAmid
<1>4. CASE calls[k].answer = "ok"
  <2> DEFINE s == [Now EXCEPT !.m.status = "healthy", !.m.attempts = 0]
  <2>1. /\ s \in State /\ s.calls = Now.calls
        /\ s.m = [m EXCEPT !.status = "healthy", !.attempts = 0]
    BY <1>1 DEF State, Manager
  <2>2. Set(IF calls[k].kind = "ready" THEN Lease(s, k, "handing") ELSE Finish(s, {k}, "ok"))
    BY <1>4 DEF Polled
  <2> HIDE DEF s
  <2>3. /\ s.m.info = m.info /\ s.m.attempts <= MaxAttempts /\ s.m.token = m.token
        /\ s.m.lease = m.lease /\ s.m.shutting = m.shutting
    BY <1>1, <2>1 DEF Manager
  <2>4. Amid(s, k)
    BY <1>1, <1>3, <2>1, <2>3, FieldsAmid
  <2>5. CASE calls[k].kind = "ready"
    <3>1. Sound(Lease(s, k, "handing")) /\ Handed(s, Lease(s, k, "handing"))
      BY <1>1, <2>1, <2>4, <2>5, LeaseSound
    <3>2. Handed(Now, Lease(s, k, "handing"))
      BY <2>1, <3>1 DEF Handed
    <3> QED  BY <2>2, <2>5, <3>1, <3>2, SetKeeps
  <2>6. CASE calls[k].kind # "ready"
    <3> DEFINE t == Finish(s, {k}, "ok")
    <3>1. Sound(t) /\ Handed(s, t)
      BY <1>1, <2>1, <2>4, <2>6, FinishSound
    <3>2. Set(t)
      BY <2>2, <2>6
    <3> HIDE DEF t
    <3>3. Handed(Now, t)
      BY <2>1, <3>1 DEF Handed
    <3> QED  BY <3>1, <3>2, <3>3, SetKeeps
  <2> QED  BY <2>5, <2>6
<1>5. CASE calls[k].answer # "ok" /\ calls[k].polls < MaxPolls
  <2> DEFINE t == To(Now, {k}, "polling", Ask(m))
             u == [t EXCEPT !.calls[k].polls = @ + 1]
             f == [t.calls EXCEPT ![k].polls = @ + 1]
  <2>1. Set(u)
    BY <1>2, <1>5 DEF Polled
  <2>2. Awaitable(Now, k, "polling") /\ Ask(m) \in Answers /\ "polling" \in Busy
    BY <1>2 DEF Awaitable, Answers, Ask, Busy
  <2>w. WaitsAt(Now, k, "polling", t)
    BY <1>3, <2>2, ToMid DEF Amid
  <2>3. Mid(t, {}) /\ Free(t, {}) /\ NoneReturns(Now, t)
    BY <1>3, <2>2, <2>w DEF Amid, WaitsAt
  <2> HIDE DEF t
  <2>4. Sound(t) /\ t \in State /\ t.calls \in [Ids -> Call] /\ t.calls[k] \in Call
    BY <2>3 DEF Sound, Mid, Typed, State
  <2>5. /\ [t.calls[k] EXCEPT !.polls = @ + 1] \in Call
        /\ [t.calls[k] EXCEPT !.polls = @ + 1].kind = t.calls[k].kind
        /\ [t.calls[k] EXCEPT !.polls = @ + 1].pc = t.calls[k].pc
    BY <2>4 DEF Call
  <2>6. f \in [Ids -> Call] /\ \A j \in Ids : f[j].kind = t.calls[j].kind /\ f[j].pc = t.calls[j].pc
    BY <2>4, <2>5
  <2>7. u \in State /\ u.m = t.m /\ u.calls = f
    <3> HIDE DEF f
    <3>1. u = [t EXCEPT !.calls = f]
      BY DEF f
    <3> HIDE DEF u
    <3> QED  BY <2>4, <2>6, <3>1 DEF State
  <2> HIDE DEF u, f
  <2>8. Sound(u) /\ NoneReturns(t, u)
    BY <2>4, <2>6, <2>7, AlikeSound
  <2>9. Handed(Now, u)
    BY <2>3, <2>8 DEF NoneReturns, Handed
  <2> QED  BY <2>1, <2>8, <2>9, SetKeeps
<1>6. CASE calls[k].answer # "ok" /\ ~(calls[k].polls < MaxPolls)
  <2> DEFINE v == [Now EXCEPT !.m.status = "unhealthy"]
  <2>1. v \in State /\ v.calls = Now.calls /\ v.m = [m EXCEPT !.status = "unhealthy"]
    BY <1>1 DEF State, Manager
  <2>2. Set(Throw(v, {k}))
    BY <1>2, <1>6 DEF Polled
  <2> HIDE DEF v
  <2>3. /\ v.m.info = m.info /\ v.m.attempts = m.attempts /\ v.m.token = m.token
        /\ v.m.lease = m.lease /\ v.m.shutting = m.shutting
    BY <1>1, <2>1 DEF Manager
  <2>4. Amid(v, k)
    BY <1>1, <1>3, <2>1, <2>3, FieldsAmid
  <2>5. Sound(Throw(v, {k})) /\ NoneReturns(v, Throw(v, {k}))
    BY <2>4, ThrowSound
  <2>6. Handed(Now, Throw(v, {k}))
    BY <2>1, <2>5 DEF NoneReturns, Handed
  <2> QED  BY <2>2, <2>5, <2>6, SetKeeps
<1> QED  BY <1>4, <1>5, <1>6

\* Steps that change fields of no caller.
LEMMA FieldsKeep ==
    ASSUME Sound(Now), calls' = calls, m' \in Manager, m'.attempts <= MaxAttempts,
           m'.info = m.info, m'.token = m.token, m'.shutting = m.shutting,
           m'.lease = m.lease \/ m'.lease = "none"
             \/ (m.token /\ ~m.shutting)
    PROVE  Keeps
<1>1. Now.m = m /\ Now.calls = calls /\ calls \in [Ids -> Call]
  BY NowFacts
<1>2. Now'.m = m' /\ Now'.calls = calls /\ Now' = [m |-> m', calls |-> calls]
  BY DEF Now
<1>3. Now' \in State
  BY <1>1, <1>2 DEF State
<1>4. Mid(Now', {})
  <2>1. Mid(Now, {}) /\ Tokened(Now)
    BY DEF Sound, Mid
  <2>2. m'.lease # "none" => m'.token
    BY <1>1, <2>1 DEF Tokened
  <2> QED  BY <1>1, <1>2, <1>3, <2>1, <2>2, FieldsMid
<1>5. Free(Now', {})
  BY <1>1, <1>2 DEF Sound, Free
<1>6. Handed(Now, Now')
  BY <1>1, <1>2 DEF Handed
<1> QED  BY <1>4, <1>5, <1>6 DEF Keeps, Sound

LEMMA TickedKeeps ==
    ASSUME Sound(Now), Ticked
    PROVE  Keeps
<1>1. m \in Manager /\ m.attempts <= MaxAttempts /\ MaxAttempts \in Nat
  BY NowFacts
<1>2. CASE tick = "ok"
  <2> DEFINE f == [m EXCEPT !.status = "healthy", !.attempts = 0]
  <2>1. m' = Restored(f)
    BY <1>2 DEF Ticked
  <2>2. /\ f \in Manager /\ f.attempts <= MaxAttempts /\ f.info = m.info
        /\ f.token = m.token /\ f.shutting = m.shutting /\ f.lease = m.lease
    <3>1. f \in Manager
      BY <1>1 DEF Manager
    <3>2. f.attempts = 0 /\ 0 <= MaxAttempts
      BY <1>1 DEF Manager
    <3>3. f.info = m.info /\ f.token = m.token /\ f.shutting = m.shutting /\ f.lease = m.lease
      BY <1>1 DEF Manager
    <3> QED  BY <3>1, <3>2, <3>3
  <2> HIDE DEF f
  <2>3. CASE ~f.shutting /\ f.lease = "none" /\ f.token
    <3>1. m' = [f EXCEPT !.lease = "opening"]
      BY <2>1, <2>3 DEF Restored
    <3>2. /\ m' \in Manager /\ m'.attempts <= MaxAttempts /\ m'.info = m.info
          /\ m'.token = m.token /\ m'.shutting = m.shutting
      BY <2>2, <3>1 DEF Manager
    <3>3. calls' = calls /\ m.token /\ ~m.shutting
      BY <2>2, <2>3 DEF Ticked
    <3> QED  BY <3>2, <3>3, FieldsKeep
  <2>4. CASE ~(~f.shutting /\ f.lease = "none" /\ f.token)
    <3>1. m' = f
      BY <2>1, <2>4 DEF Restored
    <3>2. calls' = calls
      BY DEF Ticked
    <3> QED  BY <2>2, <3>1, <3>2, FieldsKeep
  <2> QED  BY <2>3, <2>4
<1>3. CASE tick = "bad" /\ m.status = "healthy" /\ ~m.shutting
  <2>1. m' = Crashed(m, 1) /\ calls' = calls
    BY <1>3 DEF Ticked
  <2>2. /\ m' \in Manager /\ m'.attempts <= MaxAttempts
        /\ m'.info = m.info /\ m'.token = m.token /\ m'.shutting = m.shutting
        /\ m'.lease = m.lease
    BY <1>1, <2>1, CrashedFacts
  <2> QED  BY <2>1, <2>2, FieldsKeep
<1>4. CASE tick = "bad" /\ ~(m.status = "healthy" /\ ~m.shutting)
  <2>1. m' = [m EXCEPT !.status = "unhealthy"] /\ calls' = calls
    BY <1>4 DEF Ticked
  <2>2. /\ m' \in Manager /\ m'.attempts <= MaxAttempts
        /\ m'.info = m.info /\ m'.token = m.token /\ m'.shutting = m.shutting
        /\ m'.lease = m.lease
    BY <1>1, <2>1 DEF Manager
  <2> QED  BY <2>1, <2>2, FieldsKeep
<1> QED  BY <1>2, <1>3, <1>4 DEF Ticked

LEMMA FireKeeps ==
    ASSUME Sound(Now), NEW k \in Respawns, NEW found \in BOOLEAN, Fire(k, found)
    PROVE  Keeps
<1> DEFINE f == IF m.timer THEN [m EXCEPT !.timer = FALSE] ELSE [m EXCEPT !.leaked = @ - 1]
           c == [calls EXCEPT ![k].kind = "respawn"]
           v == [m |-> f, calls |-> c]
<1>0. k \in Ids /\ k \notin Callers
  BY BackendAssumption DEF Ids
<1>1. /\ Now \in State /\ Now.m = m /\ Now.calls = calls
      /\ m \in Manager /\ m.attempts <= MaxAttempts /\ calls \in [Ids -> Call]
  BY NowFacts
<1>2. /\ calls[k].pc = "idle"
      /\ m.timer \/ m.leaked > 0
      /\ IF m.shutting THEN m' = f /\ calls' = calls
         ELSE IF found THEN Set(Spawn(v, k, TRUE))
         ELSE m' = [f EXCEPT !.status = "unhealthy"] /\ calls' = calls
  BY DEF Fire
<1>3. f \in Manager /\ f.attempts = m.attempts /\ f.info = m.info
      /\ f.token = m.token /\ f.shutting = m.shutting /\ f.lease = m.lease
  <2>1. CASE m.timer
    BY <1>1, <2>1 DEF Manager
  <2>2. CASE ~m.timer
    <3>1. m.leaked \in Nat /\ m.leaked - 1 \in Nat
      BY <1>1, <1>2, <2>2 DEF Manager
    <3>2. f = [m EXCEPT !.leaked = m.leaked - 1]
      BY <2>2
    <3> QED  BY <1>1, <3>1, <3>2 DEF Manager
  <2> QED  BY <2>1, <2>2
<1> HIDE DEF f
<1>4. CASE m.shutting
  BY <1>1, <1>2, <1>3, <1>4, FieldsKeep
<1>5. CASE ~m.shutting /\ ~found
  <2>1. m' = [f EXCEPT !.status = "unhealthy"] /\ calls' = calls
    BY <1>2, <1>5
  <2>2. /\ m' \in Manager /\ m'.attempts = m.attempts /\ m'.info = m.info
        /\ m'.token = m.token /\ m'.shutting = m.shutting /\ m'.lease = m.lease
    BY <1>3, <2>1 DEF Manager
  <2> QED  BY <1>1, <2>1, <2>2, FieldsKeep
<1>6. CASE ~m.shutting /\ found
  <2>1. /\ [calls[k] EXCEPT !.kind = "respawn"] \in Call
        /\ [calls[k] EXCEPT !.kind = "respawn"].kind = "respawn"
        /\ [calls[k] EXCEPT !.kind = "respawn"].pc = "idle"
    <3>1. calls[k] \in Call /\ calls[k].pc = "idle"
      BY <1>0, <1>1, <1>2
    <3> QED  BY <3>1 DEF Call
  <2>2. c \in [Ids -> Call] /\ c[k].kind = "respawn" /\ c[k].pc = "idle"
        /\ \A j \in Ids \ {k} : c[j] = calls[j]
    BY <1>0, <1>1, <2>1
  <2>3. v \in State /\ v.m = f /\ v.calls = c /\ Set(Spawn(v, k, TRUE))
    BY <1>2, <1>3, <1>6, <2>2 DEF State
  <2> HIDE DEF v, c
  <2>4. Typed(v) /\ Tokened(v)
    BY <1>1, <1>3, <2>3 DEF Typed, Tokened, Sound, Mid
  <2>5. Shaped(v)
    <3> SUFFICES ASSUME NEW j \in Ids
                 PROVE  /\ c[j].kind = "none" => c[j].pc = "idle"
                        /\ c[j].pc \in {"checking", "joined", "checked", "handing"}
                             => c[j].kind = "ready"
                        /\ j \in Respawns => /\ c[j].kind \in {"none", "respawn"}
                                             /\ c[j].pc \in {"idle", "acquiring", "leasing"}
                        /\ j \in Callers => c[j].kind # "respawn"
      BY <2>3 DEF Shaped
    <3>1. CASE j = k
      BY <1>0, <2>2, <3>1
    <3>2. CASE j # k
      BY <1>1, <2>2, <3>2 DEF Sound, Mid, Shaped
    <3> QED  BY <3>1, <3>2
  <2>6. Owned(v, {k})
    BY <1>0, <1>1, <1>2, <1>3, <2>2, <2>3 DEF Sound, Mid, Owned, Ids
  <2>7. Free(v, {k})
    BY <1>3, <1>6, <2>3 DEF Free
  <2>8. Amid(v, k)
    BY <2>2, <2>3, <2>4, <2>5, <2>6, <2>7 DEF Amid, Mid
  <2>9. Sound(Spawn(v, k, TRUE)) /\ NoneReturns(v, Spawn(v, k, TRUE))
    BY <1>0, <2>8, SpawnSound
  <2>10. Handed(Now, Spawn(v, k, TRUE))
    BY <1>0, <1>1, <2>2, <2>3, <2>9 DEF Handed, NoneReturns, Ids
  <2> QED  BY <2>3, <2>9, <2>10, SetKeeps
<1> QED  BY <1>4, <1>5, <1>6

LEMMA AnswerKeeps ==
    ASSUME Sound(Now), NEW k \in Ids, NEW up \in BOOLEAN, m' = m,
           calls' = [calls EXCEPT ![k].answer = AnswerTo(up)]
    PROVE  Keeps
<1>1. /\ Now \in State /\ Now.m = m /\ Now.calls = calls
      /\ m \in Manager /\ calls \in [Ids -> Call] /\ calls[k] \in Call
  BY NowFacts
<1>2. AnswerTo(up) \in Answers
  BY DEF AnswerTo, Answers
<1>3. /\ [calls[k] EXCEPT !.answer = AnswerTo(up)] \in Call
      /\ [calls[k] EXCEPT !.answer = AnswerTo(up)].kind = calls[k].kind
      /\ [calls[k] EXCEPT !.answer = AnswerTo(up)].pc = calls[k].pc
  BY <1>1, <1>2 DEF Call
<1>4. /\ calls' \in [Ids -> Call]
      /\ \A j \in Ids : calls'[j].kind = calls[j].kind /\ calls'[j].pc = calls[j].pc
  BY <1>1, <1>3
<1>5. Now' \in State /\ Now'.m = Now.m /\ Now'.calls = calls'
  BY <1>1, <1>4 DEF Now, State
<1>6. Sound(Now') /\ NoneReturns(Now, Now')
  BY <1>1, <1>4, <1>5, AlikeSound
<1> QED  BY <1>6 DEF Keeps, Handed, NoneReturns

LEMMA LeaseKeeps ==
    ASSUME Sound(Now), LeaseStep
    PROVE  Keeps
<1>1. /\ Now \in State /\ Now.m = m /\ Now.calls = calls
      /\ m \in Manager /\ m.attempts <= MaxAttempts
  BY NowFacts
<1>2. CASE LeaseOpens
  BY <1>1, <1>2, SettlesSound, SetKeeps DEF LeaseOpens
<1>3. CASE LeaseFails
  BY <1>1, <1>3, SettlesSound, SetKeeps DEF LeaseFails
<1>4. CASE LeaseCloses
  <2>1. m' = [m EXCEPT !.lease = "none"] /\ calls' = calls
    BY <1>4 DEF LeaseCloses
  <2>2. /\ m' \in Manager /\ m'.attempts <= MaxAttempts /\ m'.info = m.info
        /\ m'.token = m.token /\ m'.shutting = m.shutting /\ m'.lease = "none"
    BY <1>1, <2>1 DEF Manager
  <2> QED  BY <2>1, <2>2, FieldsKeep
<1> QED  BY <1>2, <1>3, <1>4 DEF LeaseStep

---------------------------------------------------------------------------
(* The theorems                                                            *)

LEMMA InitSound == Init => IInv
<1> SUFFICES ASSUME Init PROVE IInv
  OBVIOUS
<1> DEFINE r == [status |-> "stopped", shutting |-> FALSE, interval |-> FALSE,
                 timer |-> FALSE, leaked |-> 0, attempts |-> 0, token |-> FALSE,
                 lease |-> "none", info |-> Nobody]
           c == [kind |-> "none", pc |-> "idle", answer |-> "none", polls |-> 0]
<1>1. m = r /\ calls = [k \in Ids |-> c]
  BY DEF Init
<1>2. r \in Manager /\ r.attempts <= MaxAttempts
  BY BackendAssumption DEF Manager
<1>3. c \in Call
  BY DEF Call, Answers
<1>4. Now.m = m /\ Now.calls = calls /\ Now = [m |-> m, calls |-> calls]
  BY DEF Now
<1>5. \A k \in Ids : calls[k].kind = "none" /\ calls[k].pc = "idle"
  BY <1>1
<1>6. m.info = Nobody /\ m.lease = "none"
  BY <1>1
<1>7. Typed(Now)
  BY <1>1, <1>2, <1>3, <1>4 DEF Typed, State
<1>8. Shaped(Now) /\ Owned(Now, {}) /\ Tokened(Now) /\ Free(Now, {})
  BY <1>4, <1>5, <1>6 DEF Shaped, Owned, Tokened, Free
<1>9. tick \in Answers /\ server \in {"up", "down"}
  BY DEF Init, Answers
<1> QED  BY <1>7, <1>8, <1>9 DEF IInv, Sound, Mid

\* The requests of the health check and the backend keep their types.
LEMMA TypesKeep ==
    ASSUME tick \in Answers, server \in {"up", "down"}, Next
    PROVE  tick' \in Answers /\ server' \in {"up", "down"}
<1>1. ASSUME NEW k \in Callers, NEW found \in BOOLEAN,
             Start(k, found) \/ Stop(k, "stop", found) \/ Stop(k, "restart", found)
      PROVE  tick' = tick /\ server' = server
  BY <1>1 DEF Start, Stop
<1>2. ASSUME NEW k \in Callers, Ready(k)
      PROVE  tick' = tick /\ server' = server
  BY <1>2 DEF Ready
<1>3. CASE Detach
  BY <1>3 DEF Detach
<1>4. ASSUME NEW k \in Ids, CallerStep(k)
      PROVE  tick' = tick /\ (server' = server \/ server' \in {"up", "down"})
  BY <1>4 DEF CallerStep, Checked, StopReturns, Acquired, AcquireFails, Polled,
              AnswerPing, AnswerStop
<1>5. CASE Tick
  BY <1>5 DEF Tick, Ask, Answers
<1>6. CASE TickStep
  BY <1>6 DEF TickStep, Ticked, AnswerTick, AnswerTo, Answers
<1>7. CASE FireStep
  BY <1>7 DEF FireStep, Fire
<1>8. CASE Crash
  BY <1>8 DEF Crash
<1>9. CASE LeaseStep
  BY <1>9 DEF LeaseStep, LeaseOpens, LeaseFails, LeaseCloses
<1> QED  BY <1>1, <1>2, <1>3, <1>4, <1>5, <1>6, <1>7, <1>8, <1>9 DEF Next

LEMMA StepKeeps ==
    ASSUME Sound(Now), [Next]_vars
    PROVE  Keeps
<1>1. ASSUME NEW k \in Callers, NEW found \in BOOLEAN,
             Start(k, found) \/ Stop(k, "stop", found) \/ Stop(k, "restart", found)
      PROVE  Keeps
  BY <1>1, StartKeeps, StopKeeps
<1>2. ASSUME NEW k \in Callers, Ready(k)
      PROVE  Keeps
  BY <1>2, ReadyKeeps
<1>3. CASE Detach
  BY <1>3, DetachKeeps
<1>4. ASSUME NEW k \in Ids, CallerStep(k)
      PROVE  Keeps
  <2>1. ASSUME NEW found \in BOOLEAN, Checked(k, found) PROVE Keeps
    BY <2>1, CheckedKeeps
  <2>2. ASSUME NEW found \in BOOLEAN, StopReturns(k, found) PROVE Keeps
    BY <2>2, StopReturnsKeeps
  <2>3. CASE Acquired(k)
    BY <2>3, AcquiredKeeps
  <2>4. CASE AcquireFails(k)
    BY <2>4, AcquireFailsKeeps
  <2>5. CASE Polled(k)
    BY <2>5, PolledKeeps
  <2>6. ASSUME NEW up \in BOOLEAN, AnswerPing(k, up) PROVE Keeps
    BY <2>6, AnswerKeeps DEF AnswerPing
  <2>7. ASSUME NEW up \in BOOLEAN, AnswerStop(k, up) PROVE Keeps
    BY <2>7, AnswerKeeps DEF AnswerStop
  <2> QED  BY <1>4, <2>1, <2>2, <2>3, <2>4, <2>5, <2>6, <2>7 DEF CallerStep
<1>5. ASSUME m' = m, calls' = calls
      PROVE  Keeps
  BY <1>5, NowFacts, FieldsKeep
<1>6. CASE Tick \/ Crash \/ UNCHANGED vars \/ \E up \in BOOLEAN : AnswerTick(up)
  BY <1>5, <1>6 DEF Tick, Crash, vars, AnswerTick
<1>7. CASE Ticked
  BY <1>7, TickedKeeps
<1>8. CASE FireStep
  BY <1>8, FireKeeps DEF FireStep
<1>9. CASE LeaseStep
  BY <1>9, LeaseKeeps
<1> QED  BY <1>1, <1>2, <1>3, <1>4, <1>6, <1>7, <1>8, <1>9 DEF Next, TickStep

LEMMA StepSound == IInv /\ [Next]_vars => IInv'
<1> SUFFICES ASSUME IInv, [Next]_vars PROVE IInv'
  OBVIOUS
<1>1. Sound(Now')
  BY StepKeeps DEF IInv, Keeps
<1>2. tick' \in Answers /\ server' \in {"up", "down"}
  <2>1. CASE Next
    BY <2>1, TypesKeep DEF IInv
  <2>2. CASE UNCHANGED vars
    BY <2>2 DEF IInv, vars
  <2> QED  BY <2>1, <2>2
<1> QED  BY <1>1, <1>2 DEF IInv

LEMMA Invariance == Spec => []IInv
  BY InitSound, StepSound, PTL DEF Spec

\* The fields of the manager, its calls and the requests under way keep their
\* types, and restartAttempts its limit, whatever fails when.
THEOREM TypeCorrect == Spec => []TypeOK
<1>1. IInv => TypeOK
  BY NowFacts DEF IInv, TypeOK
<1> QED  BY <1>1, Invariance, PTL

\* Once stop or detach is through, no lease is held and none is being opened,
\* whichever calls, timers and pings were under way (closeRuntimeLease and
\* ensureRuntimeLease in backend-manager.ts).
THEOREM NothingIsLeased == Spec => []NoLeaseAfterStop
<1>1. IInv => NoLeaseAfterStop
  BY NowFacts DEF IInv, Sound, Free, NoLeaseAfterStop, Released
<1> QED  BY <1>1, Invariance, PTL

\* Whoever waits for connectionInfoPromise waits for a recovery that goes on
\* (getReadyConnectionInfo in backend-manager.ts).
THEOREM NobodyJoinsInVain == Spec => []JoinedAreServed
<1>1. IInv => JoinedAreServed
  <2> SUFFICES ASSUME IInv, NEW k \in Ids, calls[k].pc = "joined"
               PROVE  /\ m.info \in Callers
                      /\ calls[m.info].kind = "ready"
                      /\ calls[m.info].pc \in {"stopping", "acquiring", "leasing",
                                               "polling", "handing"}
    BY DEF JoinedAreServed
  <2> QED  BY NowFacts DEF IInv, Sound, Mid, Owned, Busy
<1> QED  BY <1>1, Invariance, PTL

\* getReadyConnectionInfo returns connection details only with the token known
\* and the lease held, or while the application lets go of the backend.
THEOREM DetailsComeLeased == Spec => ReadyIsLeased
<1>1. IInv /\ [Next]_vars =>
        [\A k \in Callers :
           calls[k].kind = "ready" /\ calls[k].pc # "ok" /\ calls'[k].pc = "ok" =>
             m'.shutting \/ (m'.token /\ m'.lease = "open")]_vars
  <2> SUFFICES ASSUME IInv, [Next]_vars, NEW k \in Callers,
                      calls[k].kind = "ready", calls[k].pc # "ok", calls'[k].pc = "ok"
               PROVE  m'.shutting \/ (m'.token /\ m'.lease = "open")
    OBVIOUS
  <2>1. Handed(Now, Now')
    BY StepKeeps DEF IInv, Keeps
  <2>2. Now.calls = calls /\ Now'.calls = calls' /\ Now'.m = m'
    BY DEF Now
  <2> QED  BY <2>1, <2>2 DEF Handed
<1> QED  BY <1>1, Invariance, PTL DEF Spec, ReadyIsLeased

==============================================================================

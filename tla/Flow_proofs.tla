----------------------------- MODULE Flow_proofs -----------------------------
(***************************************************************************)
(* Proofs about FlowOutbox, for any Flows, edits, failures and crashes, and *)
(* about FlowEdits, for any nodes, layouts, configurations and number of    *)
(* operations.                                                              *)
(***************************************************************************)
EXTENDS FlowEdits, FlowOutbox, FiniteSetTheorems, WellFoundedInduction, TLAPS

---------------------------------------------------------------------------
(* Induction, and what is kept of a queue                                   *)

\* A set of numbers has a least one.
LEMMA LeastNumber ==
    ASSUME NEW T, T \subseteq Nat, T # {}
    PROVE  \E x \in T : \A y \in T : x <= y
<1> DEFINE R == OpToRel(<, Nat)
<1>1. IsWellFoundedOn(R, Nat)
  BY NatLessThanWellFounded
<1>2. R = {p \in Nat \X Nat : p[1] < p[2]}
  BY DEF OpToRel
<1> HIDE DEF R
<1>3. PICK x \in T : \A y \in T : ~(<<y, x>> \in R)
  BY <1>1, WFMin, Zenon
<1>4. ASSUME NEW y \in T PROVE x <= y
  <2> DEFINE p == <<y, x>>
  <2>1. p \notin R /\ p[1] = y /\ p[2] = x /\ p \in Nat \X Nat
    BY <1>3
  <2> HIDE DEF p
  <2>2. ~(y < x)
    BY <1>2, <2>1
  <2> QED  BY <2>2
<1> QED  BY <1>4

\* Induction up to n, of a set G of numbers.
LEMMA Upto ==
    ASSUME NEW n \in Nat, NEW G, 0 \in G,
           \A k \in 1..n : k - 1 \in G => k \in G
    PROVE  0..n \subseteq G
<1> SUFFICES ASSUME (0..n) \ G # {} PROVE FALSE
  OBVIOUS
<1>1. PICK k \in (0..n) \ G : \A y \in (0..n) \ G : k <= y
  <2>1. (0..n) \ G \subseteq Nat
    OBVIOUS
  <2> DEFINE T == (0..n) \ G
  <2> HIDE DEF T
  <2> QED  BY <2>1, LeastNumber DEF T
<1>2. k \in 1..n /\ k - 1 \in 0..n
  BY <1>1
<1>3. k - 1 \in G
  BY <1>1, <1>2
<1> QED  BY <1>1, <1>2, <1>3

\* What is kept of the first operations of a queue, those with an id in B left out.
Kept(queue, B, n, g) ==
    \A k \in 0..n :
        g[k] = IF k = 0 THEN <<>>
               ELSE IF queue[k].id \in B THEN g[k - 1] ELSE Append(g[k - 1], queue[k])

LEMMA KeptExists ==
    ASSUME NEW S, NEW queue \in Seq(S), NEW B
    PROVE  \E g \in [0..Len(queue) -> Seq(S)] : Kept(queue, B, Len(queue), g)
<1> DEFINE G == {n \in 0..Len(queue) : \E g \in [0..n -> Seq(S)] : Kept(queue, B, n, g)}
<1>1. 0 \in G
  <2> DEFINE g == [k \in 0..0 |-> <<>>]
  <2>1. g \in [0..0 -> Seq(S)] /\ Kept(queue, B, 0, g)
    BY DEF Kept
  <2> HIDE DEF g
  <2> QED  BY <2>1
<1>2. ASSUME NEW k \in 1..Len(queue), k - 1 \in G
      PROVE  k \in G
  <2>1. PICK g \in [0..k-1 -> Seq(S)] : Kept(queue, B, k - 1, g)
    BY <1>2
  <2> DEFINE last == IF queue[k].id \in B THEN g[k-1] ELSE Append(g[k-1], queue[k])
             h == [i \in 0..k |-> IF i = k THEN last ELSE g[i]]
  <2>2. k - 1 \in 0..k-1 /\ queue[k] \in S
    OBVIOUS
  <2>3. last \in Seq(S)
    BY <2>1, <2>2
  <2> HIDE DEF last
  <2>4. \A i \in 0..k-1 : i \in 0..k /\ i # k /\ h[i] = g[i]
    OBVIOUS
  <2>4a. \A i \in 0..k : i = k \/ i \in 0..k-1
    OBVIOUS
  <2>5. h \in [0..k -> Seq(S)]
    BY <2>1, <2>3, <2>4a
  <2>6. h[k] = last
    OBVIOUS
  <2> HIDE DEF h
  <2>7. ASSUME NEW i \in 0..k
        PROVE  h[i] = IF i = 0 THEN <<>>
               ELSE IF queue[i].id \in B THEN h[i - 1] ELSE Append(h[i - 1], queue[i])
    <3>1. CASE i = k
      BY <3>1, <2>2, <2>4, <2>6 DEF last
    <3>2. CASE i # k
      <4>1. i \in 0..k-1 /\ (i # 0 => i - 1 \in 0..k-1)
        BY <3>2
      <4> QED  BY <4>1, <2>1, <2>4 DEF Kept
    <3> QED  BY <3>1, <3>2
  <2>8. Kept(queue, B, k, h)
    BY <2>7 DEF Kept
  <2>9. \E f \in [0..k -> Seq(S)] : Kept(queue, B, k, f)
    BY <2>5, <2>8
  <2>10. k \in 0..Len(queue)
    OBVIOUS
  <2> HIDE DEF Kept
  <2> QED  BY <2>9, <2>10
<1> HIDE DEF G
<1>n. Len(queue) \in Nat
  OBVIOUS
<1>3. 0..Len(queue) \subseteq G
  BY <1>n, <1>1, <1>2, Upto
<1>4. Len(queue) \in G
  BY <1>n, <1>3
<1> QED  BY <1>4 DEF G

\* What is kept of the first k operations.
KeptOf(queue, B, k, rest) ==
    /\ \A j \in 1..Len(rest) : \E i \in 1..k : rest[j] = queue[i] /\ queue[i].id \notin B
    /\ \A i \in 1..k : queue[i].id \notin B => \E j \in 1..Len(rest) : rest[j] = queue[i]
    /\ \A j, l \in 1..Len(rest) : j < l =>
          \E i, m \in 1..k : i < m /\ rest[j] = queue[i] /\ rest[l] = queue[m]
    /\ (\A i \in 1..k : queue[i].id \notin B) =>
          Len(rest) = k /\ \A i \in 1..k : rest[i] = queue[i]
    /\ k > 0 /\ queue[k].id \notin B => Len(rest) > 0 /\ rest[Len(rest)] = queue[k]

LEMMA KeptIs ==
    ASSUME NEW S, NEW queue \in Seq(S), NEW B, NEW g, Kept(queue, B, Len(queue), g)
    PROVE  g[Len(queue)] \in Seq(S) /\ KeptOf(queue, B, Len(queue), g[Len(queue)])
<1> DEFINE G == {k \in 0..Len(queue) : g[k] \in Seq(S) /\ KeptOf(queue, B, k, g[k])}
<1>n. Len(queue) \in Nat
  OBVIOUS
<1>1. 0 \in G
  <2>1. g[0] = <<>> /\ 0 \in 0..Len(queue)
    BY <1>n DEF Kept
  <2>2. g[0] \in Seq(S) /\ Len(g[0]) = 0
    BY <2>1
  <2>3. KeptOf(queue, B, 0, g[0])
    BY <2>2 DEF KeptOf
  <2> QED  BY <2>1, <2>2, <2>3
<1>2. ASSUME NEW k \in 1..Len(queue), k - 1 \in G
      PROVE  k \in G
  <2>1. k \in 0..Len(queue) /\ k # 0 /\ k \in Nat /\ k - 1 \in Nat /\ queue[k] \in S
    OBVIOUS
  <2>2. g[k - 1] \in Seq(S) /\ KeptOf(queue, B, k - 1, g[k - 1])
    BY <1>2
  <2>3. g[k] = IF queue[k].id \in B THEN g[k - 1] ELSE Append(g[k - 1], queue[k])
    BY <2>1 DEF Kept
  <2>4. \A i \in 1..k : i = k \/ i \in 1..k-1
    BY <2>1
  <2>4a. \A i \in 1..k-1 : i \in 1..k
    BY <2>1
  <2> HIDE DEF G
  <2>5. CASE queue[k].id \in B
    <3>1. g[k] = g[k-1]
      BY <2>3, <2>5
    <3>2. k \in 1..k
      BY <2>1
    <3> DEFINE old == g[k-1]
    <3>3. KeptOf(queue, B, k - 1, old)
      BY <2>2
    <3> HIDE DEF old
    <3>4. KeptOf(queue, B, k, old)
      <4>1. \A i \in 1..k : queue[i].id \notin B => \E j \in 1..Len(old) : old[j] = queue[i]
        BY <3>3, <2>4, <2>5 DEF KeptOf
      <4>2. ~\A i \in 1..k : queue[i].id \notin B
        BY <3>2, <2>5
      <4>3. \A j \in 1..Len(old) : \E i \in 1..k : old[j] = queue[i] /\ queue[i].id \notin B
        BY <3>3, <2>4a DEF KeptOf
      <4>4. ASSUME NEW j \in 1..Len(old), NEW l \in 1..Len(old), j < l
            PROVE  \E i, m \in 1..k : i < m /\ old[j] = queue[i] /\ old[l] = queue[m]
        <5>1. PICK i \in 1..k-1, m \in 1..k-1 :
                i < m /\ old[j] = queue[i] /\ old[l] = queue[m]
          BY <4>4, <3>3 DEF KeptOf
        <5> QED  BY <5>1, <2>4a
      <4> QED  BY <4>1, <4>2, <4>3, <4>4, <2>5 DEF KeptOf
    <3> QED  BY <2>1, <2>2, <3>1, <3>4 DEF G, old
  <2>6. CASE queue[k].id \notin B
    <3> DEFINE old == g[k-1]
               new == g[k]
    <3>1. old \in Seq(S) /\ new = Append(old, queue[k])
      BY <2>2, <2>3, <2>6
    <3>2. KeptOf(queue, B, k - 1, old)
      BY <2>2
    <3> HIDE DEF old, new
    <3>3. /\ new \in Seq(S) /\ Len(old) \in Nat /\ Len(new) = Len(old) + 1
          /\ new[Len(old) + 1] = queue[k]
          /\ \A j \in 1..Len(old) : new[j] = old[j]
      BY <3>1, <2>1
    <3>4. /\ \A j \in 1..Len(new) : j = Len(old) + 1 \/ j \in 1..Len(old)
          /\ \A j \in 1..Len(old) : j \in 1..Len(new)
          /\ Len(old) + 1 \in 1..Len(new) /\ k \in 1..k
      BY <3>3, <2>1
    <3>5. ASSUME NEW j \in 1..Len(new)
          PROVE  \E i \in 1..k : new[j] = queue[i] /\ queue[i].id \notin B
      <4>1. CASE j = Len(old) + 1
        BY <4>1, <3>3, <3>4, <2>6
      <4>2. CASE j \in 1..Len(old)
        <5>1. PICK i \in 1..k-1 : old[j] = queue[i] /\ queue[i].id \notin B
          BY <4>2, <3>2 DEF KeptOf
        <5> QED  BY <5>1, <4>2, <3>3, <2>4a
      <4> QED  BY <4>1, <4>2, <3>4
    <3>6. ASSUME NEW i \in 1..k, queue[i].id \notin B
          PROVE  \E j \in 1..Len(new) : new[j] = queue[i]
      <4>1. CASE i = k
        BY <4>1, <3>3, <3>4
      <4>2. CASE i \in 1..k-1
        BY <4>2, <3>6, <3>2, <3>3, <3>4 DEF KeptOf
      <4> QED  BY <4>1, <4>2, <2>4
    <3>7. ASSUME \A i \in 1..k : queue[i].id \notin B
          PROVE  Len(new) = k /\ \A i \in 1..k : new[i] = queue[i]
      <4>1. Len(old) = k - 1 /\ \A i \in 1..k-1 : old[i] = queue[i]
        BY <3>7, <3>2, <2>4a DEF KeptOf
      <4> QED  BY <4>1, <3>3, <2>1, <2>4
    <3>7a. ASSUME NEW j \in 1..Len(new), NEW l \in 1..Len(new), j < l
           PROVE  \E i, m \in 1..k : i < m /\ new[j] = queue[i] /\ new[l] = queue[m]
      <4>1. CASE j \in 1..Len(old) /\ l \in 1..Len(old)
        <5>1. PICK i \in 1..k-1, m \in 1..k-1 :
                i < m /\ old[j] = queue[i] /\ old[l] = queue[m]
          BY <4>1, <3>7a, <3>2 DEF KeptOf
        <5> QED  BY <5>1, <4>1, <3>3, <2>4a
      <4>2. CASE j \in 1..Len(old) /\ l = Len(old) + 1
        <5>1. PICK i \in 1..k-1 : old[j] = queue[i]
          BY <4>2, <3>2 DEF KeptOf
        <5>2. i \in 1..k /\ i < k /\ new[j] = queue[i] /\ new[l] = queue[k]
          BY <5>1, <4>2, <3>3, <2>1, <2>4a
        <5> QED  BY <5>2, <3>4
      <4>3. j \in 1..Len(old)
        BY <3>3, <3>4, <3>7a
      <4> QED  BY <4>1, <4>2, <4>3, <3>4, <3>7a
    <3>8. KeptOf(queue, B, k, new)
      <4>1. Len(new) > 0 /\ new[Len(new)] = queue[k]
        BY <3>3
      <4>2. \A j \in 1..Len(new) : \E i \in 1..k : new[j] = queue[i] /\ queue[i].id \notin B
        BY <3>5
      <4>3. \A i \in 1..k : queue[i].id \notin B => \E j \in 1..Len(new) : new[j] = queue[i]
        BY <3>6
      <4>4. \A j, l \in 1..Len(new) : j < l =>
                \E i, m \in 1..k : i < m /\ new[j] = queue[i] /\ new[l] = queue[m]
        BY <3>7a
      <4>5. (\A i \in 1..k : queue[i].id \notin B) =>
                Len(new) = k /\ \A i \in 1..k : new[i] = queue[i]
        BY <3>7
      <4> QED  BY ONLY <4>1, <4>2, <4>3, <4>4, <4>5, Zenon DEF KeptOf
    <3> QED  BY <2>1, <3>3, <3>8 DEF G, new
  <2> QED  BY <2>5, <2>6
<1> HIDE DEF G
<1>3. 0..Len(queue) \subseteq G
  BY <1>n, <1>1, <1>2, Upto
<1>4. Len(queue) \in G
  BY <1>n, <1>3
<1> QED  BY <1>4 DEF G

---------------------------------------------------------------------------
(* FlowOutbox: the inductive invariant                                      *)

\* Operations and queues when n edits have been made.
Made(n) == [id : 0..n, kind : MergeKinds, covers : SUBSET (0..n)]
Queue(n) == {queue \in Seq(Made(n)) : Coalesced(queue)}
Documents(n) == [Flows -> Queue(n)]

Waiters == {W \in SUBSET Saves : IsFiniteSet(W)}
Writes(n) == [document : Documents(n), waiters : Waiters]
Replaces(n) == [kind : {"replace"}, flow : Flows, queue : Queue(n), save : Saves]
Flushes(n) == [phase : {"idle", "hydrate", "persist", "sent", "applied"},
               save : Nat, batch : Seq(Made(n))]

\* The types, with what TypeOK leaves open.
TypedQueues(n) ==
    /\ operations \in Documents(n) /\ document \in Documents(n) /\ disk \in Documents(n)
    /\ flushing \in [Flows -> Flushes(n)]
    /\ requests \in Seq({Load} \cup Replaces(n))
    /\ writes \in Seq(Writes(n))
    /\ applied \cup dropped \cup saved \cup lost \subseteq 0..n

TypedRest ==
    /\ timers \subseteq Flows /\ refetching \subseteq Flows /\ gone \subseteq Flows
    /\ persistence \in [Flows -> Nat]
    /\ waiters \in Waiters
    /\ mounted \in 0..MaxMounts /\ leaving \subseteq 1..MaxMounts
    /\ edits \in Edits /\ mounts \in 0..MaxMounts /\ crashes \in 0..MaxCrashes
    /\ faults \in 0..MaxFaults /\ writeFaults \in 0..MaxWriteFaults

\* Until the stored operations are loaded there is nothing but them.
Phased ==
    /\ hydrated \in {"no", "loading", "done"}
    /\ hydrated = "no" => requests = <<>> /\ loaded = <<>>
    /\ hydrated = "loading" => \/ requests = <<Load>> /\ loaded = <<>>
                               \/ requests = <<>> /\ loaded = <<document>>
    /\ hydrated = "done" => loaded = <<>> /\ \A i \in DOMAIN requests : requests[i] # Load
    /\ hydrated # "done" =>
         \A f \in Flows : operations[f] = <<>> /\ flushing[f].phase \in {"idle", "hydrate"}

\* An operation in the queue with the id of one in the batch stands for edits
\* of the batch.
Batched ==
    \A f \in Flows :
        /\ flushing[f].phase \in {"sent", "applied"} =>
             \A i \in DOMAIN operations[f] :
                 operations[f][i].id \in Ids(flushing[f].batch) =>
                     operations[f][i].covers \subseteq Covered(flushing[f].batch)
        /\ flushing[f].phase = "applied" => Covered(flushing[f].batch) \subseteq applied

\* The edits that nobody need keep.
Given == applied \cup dropped \cup lost

\* Of two versions of the queue of f the later one has the edits of the earlier.
Keeps(X, old, new) == Covered(old) \subseteq Covered(new) \cup X

WritesOnward(f, X) ==
    /\ Keeps(X, disk[f], document[f])
    /\ \A i \in DOMAIN writes :
         /\ Keeps(X, disk[f], writes[i].document[f])
         /\ Keeps(X, writes[i].document[f], document[f])
         /\ \A j \in DOMAIN writes :
              i < j => Keeps(X, writes[i].document[f], writes[j].document[f])

\* The requests that save a queue of f.
Of(f) == {i \in DOMAIN requests : requests[i] # Load /\ requests[i].flow = f}

RequestsOnward(f, X) ==
    /\ \A i \in Of(f) :
         /\ Keeps(X, document[f], requests[i].queue)
         /\ \A j \in Of(f) : i < j => Keeps(X, requests[i].queue, requests[j].queue)
    /\ hydrated = "done" =>
         /\ Keeps(X, document[f], operations[f])
         /\ \A i \in Of(f) : Keeps(X, requests[i].queue, operations[f])

Onward == \A f \in Flows : WritesOnward(f, Given) /\ RequestsOnward(f, Given)

\* What is known to be on disk, and what was made.
Secure ==
    /\ saved \subseteq Given \cup AllCovered(disk)
    /\ 0..edits \subseteq
         Given \cup (IF hydrated = "done" THEN AllCovered(operations)
                                          ELSE AllCovered(document))

\* The last version on its way is the present one.
Following ==
    /\ hydrated = "done" => \A f \in Flows :
         /\ Of(f) = {} => document[f] = operations[f]
         /\ \A i \in Of(f) : (\A j \in Of(f) : j <= i) => requests[i].queue = operations[f]
    /\ waiters = {} /\ writeFaults = 0 =>
         document = IF writes = <<>> THEN disk ELSE writes[Len(writes)].document

IInv ==
    /\ TypedQueues(edits) /\ TypedRest
    /\ Phased /\ Batched /\ Onward /\ Secure /\ Following

---------------------------------------------------------------------------
(* FlowOutbox: what Remaining computes                                      *)

LEMMA RemainingKept ==
    ASSUME NEW S, NEW queue \in Seq(S), NEW batch
    PROVE  \E g : /\ Kept(queue, Ids(batch), Len(queue), g)
                  /\ Remaining(queue, batch) = g[Len(queue)]
<1> DEFINE N == Len(queue)
           B == Ids(batch)
           Step(g) == [n \in 0..N |->
                         IF n = 0 THEN <<>>
                         ELSE IF queue[n].id \in B THEN g[n - 1]
                         ELSE Append(g[n - 1], queue[n])]
           kept == CHOOSE g : g = Step(g)
<1>1. PICK g \in [0..N -> Seq(S)] : Kept(queue, B, N, g)
  BY KeptExists
<1>2. g = Step(g)
  BY <1>1 DEF Kept
<1>3. kept = Step(kept)
  BY <1>2
<1>4. Remaining(queue, batch) = kept[N]
  BY SMTT(30) DEF Remaining
<1>5. Kept(queue, B, N, kept)
  BY <1>3 DEF Kept
<1> QED  BY <1>4, <1>5

\* Remaining takes the operations of the batch out of the queue, and no others.
LEMMA RemainingFacts ==
    ASSUME NEW S, NEW queue \in Seq(S), NEW batch
    PROVE  /\ Remaining(queue, batch) \in Seq(S)
           /\ KeptOf(queue, Ids(batch), Len(queue), Remaining(queue, batch))
BY RemainingKept, KeptIs

LEMMA RemainingAll ==
    ASSUME NEW S, NEW queue \in Seq(S), NEW batch, Ids(batch) = {}
    PROVE  Remaining(queue, batch) = queue
<1> DEFINE rest == Remaining(queue, batch)
<1>1. rest \in Seq(S) /\ KeptOf(queue, Ids(batch), Len(queue), rest)
  BY RemainingFacts
<1> HIDE DEF rest
<1>2. Len(rest) = Len(queue) /\ \A i \in 1..Len(queue) : rest[i] = queue[i]
  BY <1>1 DEF KeptOf
<1>3. rest = queue
  BY <1>1, <1>2
<1> QED  BY <1>3 DEF rest

---------------------------------------------------------------------------
(* FlowOutbox: queues and what they cover                                   *)

LEMMA InCovered ==
    ASSUME NEW queue, NEW e
    PROVE  e \in Covered(queue) <=> \E i \in DOMAIN queue : e \in queue[i].covers
BY DEF Covered

LEMMA InIds ==
    ASSUME NEW queue, NEW a
    PROVE  a \in Ids(queue) <=> \E i \in DOMAIN queue : queue[i].id = a
BY DEF Ids

LEMMA InAllCovered ==
    ASSUME NEW queues, NEW e
    PROVE  e \in AllCovered(queues) <=> \E f \in Flows : e \in Covered(queues[f])
BY DEF AllCovered

LEMMA EmptyQueue ==
    ASSUME NEW n \in Nat
    PROVE  <<>> \in Queue(n) /\ Covered(<<>>) = {} /\ Ids(<<>>) = {}
<1>1. <<>> \in Seq(Made(n)) /\ DOMAIN <<>> = {}
  OBVIOUS
<1> QED  BY <1>1 DEF Queue, Coalesced, Covered, Ids

\* What has been made stays typed when another edit is made.
LEMMA Widens ==
    ASSUME NEW n \in Nat
    PROVE  /\ Made(n) \subseteq Made(n + 1)
           /\ Seq(Made(n)) \subseteq Seq(Made(n + 1))
           /\ Queue(n) \subseteq Queue(n + 1)
           /\ Documents(n) \subseteq Documents(n + 1)
           /\ Seq(Writes(n)) \subseteq Seq(Writes(n + 1))
           /\ Seq({Load} \cup Replaces(n)) \subseteq Seq({Load} \cup Replaces(n + 1))
           /\ [Flows -> Flushes(n)] \subseteq [Flows -> Flushes(n + 1)]
<1>1. 0..n \subseteq 0..(n + 1)
  OBVIOUS
<1>2. Made(n) \subseteq Made(n + 1)
  BY <1>1 DEF Made
<1>3. ASSUME NEW S, NEW T, S \subseteq T PROVE Seq(S) \subseteq Seq(T)
  BY <1>3
<1>4. Seq(Made(n)) \subseteq Seq(Made(n + 1))
  BY <1>2, <1>3
<1>5. Queue(n) \subseteq Queue(n + 1)
  BY <1>4 DEF Queue
<1>6. Documents(n) \subseteq Documents(n + 1)
  BY <1>5 DEF Documents
<1>7. Writes(n) \subseteq Writes(n + 1)
  BY <1>6 DEF Writes
<1>8. Replaces(n) \subseteq Replaces(n + 1)
  BY <1>5 DEF Replaces
<1>9. Flushes(n) \subseteq Flushes(n + 1)
  BY <1>4 DEF Flushes
<1>10. Seq(Writes(n)) \subseteq Seq(Writes(n + 1))
  BY <1>7, <1>3
<1>11. Seq({Load} \cup Replaces(n)) \subseteq Seq({Load} \cup Replaces(n + 1))
  <2>1. {Load} \cup Replaces(n) \subseteq {Load} \cup Replaces(n + 1)
    BY <1>8
  <2> QED  BY <2>1, <1>3
<1>12. [Flows -> Flushes(n)] \subseteq [Flows -> Flushes(n + 1)]
  BY <1>9
<1> QED  BY <1>2, <1>4, <1>5, <1>6, <1>10, <1>11, <1>12

\* Remaining keeps the edits of the operations that are not in the batch.
LEMMA RemainingQueue ==
    ASSUME NEW n \in Nat, NEW queue \in Queue(n), NEW batch
    PROVE  LET rest == Remaining(queue, batch) IN
           /\ rest \in Queue(n)
           /\ \A i \in DOMAIN rest : \E j \in DOMAIN queue : rest[i] = queue[j]
           /\ \A e \in Covered(queue) :
                e \in Covered(rest) \/ \E j \in DOMAIN queue :
                                         queue[j].id \in Ids(batch) /\ e \in queue[j].covers
<1> DEFINE rest == Remaining(queue, batch)
<1>1. queue \in Seq(Made(n)) /\ Coalesced(queue)
  BY DEF Queue
<1>2. rest \in Seq(Made(n)) /\ KeptOf(queue, Ids(batch), Len(queue), rest)
  BY <1>1, RemainingFacts
<1> HIDE DEF rest
<1>3. DOMAIN rest = 1..Len(rest) /\ DOMAIN queue = 1..Len(queue)
  BY <1>1, <1>2
<1>4. Coalesced(rest)
  <2> SUFFICES ASSUME NEW i \in DOMAIN rest, NEW j \in DOMAIN rest, i # j
               PROVE  rest[i].id # rest[j].id /\ ~(rest[i].kind = "key" /\ rest[j].kind = "key")
    BY DEF Coalesced
  <2>1. PICK k \in DOMAIN queue, l \in DOMAIN queue :
          k # l /\ rest[i] = queue[k] /\ rest[j] = queue[l]
    <3>1. \A a, b \in 1..Len(rest) : a # b =>
            \E k, l \in 1..Len(queue) : k # l /\ rest[a] = queue[k] /\ rest[b] = queue[l]
      BY SMTT(30), <1>2 DEF KeptOf
    <3>2. i \in 1..Len(rest) /\ j \in 1..Len(rest)
      BY <1>3
    <3>3. \E k, l \in 1..Len(queue) : k # l /\ rest[i] = queue[k] /\ rest[j] = queue[l]
      BY <3>1, <3>2, Zenon
    <3> QED  BY <3>3, <1>3, Zenon
  <2> QED  BY <1>1, <2>1 DEF Coalesced
<1>5. \A i \in DOMAIN rest : \E j \in DOMAIN queue : rest[i] = queue[j]
  BY <1>2, <1>3 DEF KeptOf
<1>6. ASSUME NEW e \in Covered(queue)
      PROVE  e \in Covered(rest) \/ \E j \in DOMAIN queue :
                                      queue[j].id \in Ids(batch) /\ e \in queue[j].covers
  <2>1. PICK j \in DOMAIN queue : e \in queue[j].covers
    BY InCovered
  <2>2. CASE queue[j].id \notin Ids(batch)
    <3>1. PICK i \in DOMAIN rest : rest[i] = queue[j]
      BY <2>2, <1>2, <1>3 DEF KeptOf
    <3> QED  BY <2>1, <3>1, InCovered
  <2> QED  BY <2>1, <2>2
<1> QED  BY <1>2, <1>4, <1>5, <1>6 DEF rest, Queue

\* Merging keeps the edits of the queue and adds those of the operation.
LEMMA MergedQueue ==
    ASSUME NEW n \in Nat, NEW queue \in Queue(n),
           NEW op \in Made(n + 1), op.id = n + 1
    PROVE  LET new == Merged(queue, op) IN
           /\ new \in Queue(n + 1)
           /\ Covered(queue) \cup op.covers \subseteq Covered(new)
           /\ \A i \in DOMAIN new : new[i].id = n + 1 \/ \E j \in DOMAIN queue : new[i] = queue[j]
<1> DEFINE same == {i \in DOMAIN queue : op.kind = "key" /\ queue[i].kind = "key"}
           Onto(old) == [op EXCEPT !.covers = @ \cup old.covers]
           N == Len(queue)
<1>1. /\ queue \in Seq(Made(n)) /\ Coalesced(queue)
      /\ queue \in Seq(Made(n + 1)) /\ queue \in Queue(n + 1)
      /\ N \in Nat /\ DOMAIN queue = 1..N
  <2>1. queue \in Seq(Made(n)) /\ Coalesced(queue)
    BY DEF Queue
  <2>2. queue \in Seq(Made(n + 1)) /\ queue \in Queue(n + 1)
    BY <2>1, Widens
  <2> QED  BY <2>1, <2>2
<1>2. \A i \in DOMAIN queue : /\ queue[i] \in Made(n) /\ queue[i] \in Made(n + 1)
                              /\ queue[i].id \in 0..n /\ queue[i].id # n + 1
  <2> SUFFICES ASSUME NEW i \in DOMAIN queue
               PROVE  queue[i] \in Made(n) /\ queue[i] \in Made(n + 1) /\ queue[i].id \in 0..n
    OBVIOUS
  <2>1. queue[i] \in Made(n)
    BY <1>1
  <2> QED  BY <2>1, Widens DEF Made
<1>3. ASSUME NEW old \in Made(n + 1)
      PROVE  /\ Onto(old) \in Made(n + 1) /\ Onto(old).id = n + 1 /\ Onto(old).kind = op.kind
             /\ Onto(old).covers = op.covers \cup old.covers
  BY DEF Made
<1> HIDE DEF Onto
<1>4. CASE op.kind = "adjacent" /\ queue # <<>> /\ Last(queue).kind = "adjacent"
  <2> DEFINE new == Append(Front(queue), Onto(Last(queue)))
  <2>1. N \in DOMAIN queue /\ Last(queue) = queue[N] /\ Front(queue) = SubSeq(queue, 1, N - 1)
    BY <1>1, <1>4 DEF Last, Front
  <2>2. /\ Front(queue) \in Seq(Made(n + 1)) /\ Len(Front(queue)) = N - 1
        /\ \A i \in 1..N-1 : Front(queue)[i] = queue[i]
    BY <1>1, <2>1
  <2>3. /\ new \in Seq(Made(n + 1)) /\ DOMAIN new = 1..N
        /\ new[N] = Onto(queue[N]) /\ \A i \in 1..N-1 : new[i] = queue[i]
    BY <1>1, <1>2, <1>3, <2>1, <2>2
  <2>4. \A i \in 1..N : i = N \/ i \in 1..N-1
    <3> HIDE DEF N
    <3> QED  BY <1>1
  <2>5. Merged(queue, op) = new
    BY <1>4 DEF Merged, Onto
  <2> HIDE DEF new
  <2>6. Coalesced(new)
    <3> SUFFICES ASSUME NEW i \in 1..N, NEW j \in 1..N, i # j
                 PROVE  new[i].id # new[j].id /\ ~(new[i].kind = "key" /\ new[j].kind = "key")
      BY <2>3 DEF Coalesced
    <3>1. \A a, b \in 1..N : a # b =>
            queue[a].id # queue[b].id /\ ~(queue[a].kind = "key" /\ queue[b].kind = "key")
      BY <1>1 DEF Coalesced
    <3>2. new[N].id = n + 1 /\ new[N].kind = "adjacent"
      BY <1>1, <1>2, <1>3, <1>4, <2>1, <2>3
    <3>3. \A a \in 1..N-1 : a \in 1..N /\ new[a].id = queue[a].id /\ new[a].kind = queue[a].kind
      BY <2>3, <1>1
    <3>4. \A a \in 1..N : queue[a].id # n + 1
      BY <1>1, <1>2
    <3>5. "adjacent" # "key"
      OBVIOUS
    <3>6. CASE i = N
      BY <3>2, <3>3, <3>4, <3>5, <3>6, <2>4
    <3>7. CASE j = N
      BY <3>2, <3>3, <3>4, <3>5, <3>7, <2>4
    <3>8. CASE i # N /\ j # N
      BY <3>1, <3>3, <3>8, <2>4
    <3> QED  BY <3>6, <3>7, <3>8
  <2>7. ASSUME NEW e \in Covered(queue) \cup op.covers
        PROVE  e \in Covered(new)
    <3>1. new[N].covers = op.covers \cup queue[N].covers
      BY <1>2, <1>3, <2>1, <2>3
    <3>2. CASE e \in op.covers
      BY <3>1, <3>2, <2>1, <2>3, <1>1, InCovered
    <3>3. CASE e \in Covered(queue)
      <4>1. PICK i \in 1..N : e \in queue[i].covers
        BY <3>3, <1>1, InCovered
      <4>2. e \in new[i].covers
        BY <3>1, <4>1, <2>3, <2>4
      <4> QED  BY <4>1, <4>2, <2>3, InCovered
    <3> QED  BY <3>2, <3>3
  <2>8. \A i \in DOMAIN new : new[i].id = n + 1 \/ \E j \in DOMAIN queue : new[i] = queue[j]
    <3>1. new[N].id = n + 1
      BY <1>2, <1>3, <2>1, <2>3
    <3>2. \A i \in 1..N-1 : i \in DOMAIN queue /\ new[i] = queue[i]
      BY <1>1, <2>3
    <3> QED  BY <3>1, <3>2, <2>3, <2>4
  <2> QED  BY <2>3, <2>5, <2>6, <2>7, <2>8 DEF Queue
<1>5. CASE ~(op.kind = "adjacent" /\ queue # <<>> /\ Last(queue).kind = "adjacent") /\ same # {}
  <2> DEFINE k == CHOOSE i \in same : TRUE
             new == [queue EXCEPT ![k] = Onto(@)]
  <2>1. k \in same
    BY <1>5
  <2>1a. k \in 1..N /\ op.kind = "key" /\ queue[k].kind = "key"
    BY <2>1, <1>1
  <2>2. Merged(queue, op) = new
    BY <1>5 DEF Merged, Onto
  <2> HIDE DEF k
  <2>3. /\ new \in Seq(Made(n + 1)) /\ DOMAIN new = 1..N
        /\ new[k] = Onto(queue[k]) /\ \A i \in 1..N : i # k => new[i] = queue[i]
    BY <1>1, <1>2, <1>3, <2>1a
  <2> HIDE DEF new
  <2>4. Coalesced(new)
    <3> SUFFICES ASSUME NEW i \in 1..N, NEW j \in 1..N, i # j
                 PROVE  new[i].id # new[j].id /\ ~(new[i].kind = "key" /\ new[j].kind = "key")
      BY <2>3 DEF Coalesced
    <3>1. \A a, b \in 1..N : a # b =>
            queue[a].id # queue[b].id /\ ~(queue[a].kind = "key" /\ queue[b].kind = "key")
      BY <1>1 DEF Coalesced
    <3>2. new[k].id = n + 1 /\ new[k].kind = queue[k].kind
      BY <1>1, <1>2, <1>3, <2>1a, <2>3
    <3>3. \A a \in 1..N : a # k => new[a].id = queue[a].id /\ new[a].kind = queue[a].kind
      BY <2>3
    <3>4. \A a \in 1..N : queue[a].id # n + 1
      BY <1>1, <1>2
    <3> QED  BY <3>1, <3>2, <3>3, <3>4, <2>1a
  <2>5. ASSUME NEW e \in Covered(queue) \cup op.covers
        PROVE  e \in Covered(new)
    <3>1. new[k].covers = op.covers \cup queue[k].covers
      BY <1>1, <1>2, <1>3, <2>1a, <2>3
    <3>2. CASE e \in op.covers
      BY <3>1, <3>2, <2>1a, <2>3, InCovered
    <3>3. CASE e \in Covered(queue)
      <4>1. PICK i \in 1..N : e \in queue[i].covers
        BY <3>3, <1>1, InCovered
      <4>2. e \in new[i].covers
        BY <3>1, <4>1, <2>3
      <4> QED  BY <4>1, <4>2, <2>3, InCovered
    <3> QED  BY <3>2, <3>3
  <2>6. \A i \in DOMAIN new : new[i].id = n + 1 \/ \E j \in DOMAIN queue : new[i] = queue[j]
    BY <1>1, <1>2, <1>3, <2>1a, <2>3
  <2> QED  BY <2>2, <2>3, <2>4, <2>5, <2>6 DEF Queue
<1>6. CASE ~(op.kind = "adjacent" /\ queue # <<>> /\ Last(queue).kind = "adjacent") /\ same = {}
  <2> DEFINE new == Append(queue, op)
  <2>1. Merged(queue, op) = new
    BY <1>6 DEF Merged
  <2>2. /\ new \in Seq(Made(n + 1)) /\ DOMAIN new = 1..(N + 1)
        /\ new[N + 1] = op /\ \A i \in 1..N : new[i] = queue[i]
    BY <1>1
  <2>3. \A i \in 1..(N + 1) : i = N + 1 \/ i \in 1..N
    BY <1>1
  <2>3a. N + 1 \in 1..(N + 1) /\ \A i \in 1..N : i \in 1..(N + 1)
    BY <1>1
  <2> HIDE DEF new
  <2>4. \A i \in 1..N : ~(op.kind = "key" /\ queue[i].kind = "key")
    BY <1>1, <1>6
  <2>5. Coalesced(new)
    <3> SUFFICES ASSUME NEW i \in 1..(N + 1), NEW j \in 1..(N + 1), i # j
                 PROVE  new[i].id # new[j].id /\ ~(new[i].kind = "key" /\ new[j].kind = "key")
      BY <2>2 DEF Coalesced
    <3> QED  BY <1>1, <1>2, <2>2, <2>3, <2>4 DEF Coalesced
  <2>6. ASSUME NEW e \in Covered(queue) \cup op.covers
        PROVE  e \in Covered(new)
    <3>1. CASE e \in op.covers
      BY <3>1, <2>2, <2>3a, InCovered
    <3>2. CASE e \in Covered(queue)
      <4>1. PICK i \in 1..N : e \in queue[i].covers
        BY <3>2, <1>1, InCovered
      <4> QED  BY <4>1, <2>2, <2>3a, InCovered
    <3> QED  BY <3>1, <3>2
  <2>7. \A i \in DOMAIN new : new[i].id = n + 1 \/ \E j \in DOMAIN queue : new[i] = queue[j]
    BY <1>1, <2>2, <2>3
  <2> QED  BY <2>1, <2>2, <2>5, <2>6, <2>7 DEF Queue
<1> QED  BY <1>4, <1>5, <1>6

---------------------------------------------------------------------------
(* Saves and their numbers                                                  *)

LEMMA FiniteImage ==
    ASSUME NEW I, IsFiniteSet(I), NEW g
    PROVE  IsFiniteSet({g[i] : i \in I})
<1> DEFINE T == {g[i] : i \in I}
           h == [i \in I |-> g[i]]
<1>1. h \in Surjection(I, T)
  BY DEF Surjection
<1> QED  BY <1>1, FS_Surjection

\* A finite set of numbers has a greatest one.
LEMMA GreatestNumber ==
    ASSUME NEW S, S \subseteq Nat, IsFiniteSet(S), S # {}
    PROVE  Max(S) \in S /\ \A y \in S : Max(S) >= y
<1>1. PICK n \in Nat : ExistsSurjection(1..n, S)
  BY FS_NatSurjection
<1>2. PICK g \in [1..n -> S] : \A y \in S : \E i \in 1..n : g[i] = y
  BY <1>1 DEF ExistsSurjection, Surjection
<1> DEFINE G == {k \in 0..n : \E b \in Nat : \A i \in 1..k : g[i] <= b}
<1>3. 0 \in G
  BY <1>1
<1>4. ASSUME NEW k \in 1..n, k - 1 \in G PROVE k \in G
  <2>1. PICK b \in Nat : \A i \in 1..k-1 : g[i] <= b
    BY <1>4
  <2>k. k \in Nat /\ k \in 0..n
    BY <1>1
  <2>i. \A i \in 1..k : i \in 1..n /\ (i = k \/ i \in 1..k-1)
    BY <1>1, <2>k
  <2>g. \A i \in 1..n : g[i] \in Nat
    BY <1>2
  <2>2. g[k] \in Nat /\ k \in 0..n /\ \A i \in 1..k : i = k \/ i \in 1..k-1
    BY <2>k, <2>i, <2>g
  <2>2a. \A i \in 1..k : g[i] \in Nat
    BY <2>i, <2>g
  <2>3. PICK c \in Nat : g[k] <= c /\ b <= c
    <3>1. CASE g[k] <= b
      BY <3>1
    <3>2. CASE ~(g[k] <= b)
      BY <3>2, <2>2
    <3> QED  BY <3>1, <3>2
  <2>4. \A i \in 1..k : g[i] <= c
    <3> TAKE i \in 1..k
    <3>1. CASE i = k
      BY <3>1, <2>3
    <3>2. CASE i \in 1..k-1
      BY <3>2, <2>1, <2>2a, <2>3
    <3> QED  BY <3>1, <3>2, <2>2
  <2> QED  BY <2>2, <2>4
<1> HIDE DEF G
<1>5. n \in G
  BY <1>1, <1>3, <1>4, Upto
<1>6. PICK c \in Nat : \A i \in 1..n : g[i] <= c
  BY <1>5 DEF G
<1> DEFINE U == {b \in Nat : \A y \in S : y <= b}
<1>7. c \in U
  BY <1>2, <1>6
<1>8. PICK b \in U : \A d \in U : b <= d
  <2>1. U \subseteq Nat /\ U # {}
    BY <1>7
  <2> HIDE DEF U
  <2> QED  BY <2>1, LeastNumber
<1>9. b \in S
  <2> SUFFICES ASSUME b \notin S PROVE FALSE
    OBVIOUS
  <2>1. b \in Nat /\ \A y \in S : y \in Nat /\ y <= b /\ y # b
    BY <1>8
  <2>1a. PICK z \in S : TRUE
    OBVIOUS
  <2>1b. b # 0
    BY <2>1, <2>1a
  <2>2. b - 1 \in Nat /\ \A y \in S : y <= b - 1
    BY <2>1, <2>1b
  <2>3. b - 1 \in U
    BY <2>2
  <2>4. b <= b - 1
    BY <1>8, <2>3
  <2> QED  BY <2>1, <2>4
<1>10. \E x \in S : \A y \in S : x >= y
  BY <1>8, <1>9
<1> QED  BY <1>10 DEF Max

LEMMA FreshIsNumbered ==
    ASSUME NEW n \in Nat, TypedQueues(n), TypedRest
    PROVE  FreshSave \in Saves
<1> DEFINE I == {j \in DOMAIN requests : requests[j].kind = "replace"}
           A == {requests[i].save : i \in I}
           B == {writes[i].waiters : i \in DOMAIN writes}
           C == {flushing[f].save : f \in Flows}
           S == {0} \cup Unsettled \cup C
<1>1. IsFiniteSet(A) /\ A \subseteq Nat
  <2>1. Len(requests) \in Nat /\ DOMAIN requests = 1..Len(requests)
    BY DEF TypedQueues
  <2>2. IsFiniteSet(1..Len(requests))
    BY <2>1, FS_Interval
  <2>3. IsFiniteSet(I)
    <3>1. I \in SUBSET (1..Len(requests))
      BY <2>1
    <3> HIDE DEF I
    <3> QED  BY <2>2, <3>1, FS_Subset
  <2> DEFINE g == [i \in I |-> requests[i].save]
  <2>4. A = {g[i] : i \in I}
    OBVIOUS
  <2>5. A \subseteq Nat
    <3> SUFFICES ASSUME NEW i \in I PROVE requests[i].save \in Nat
      OBVIOUS
    <3>1. requests[i] \in {Load} \cup Replaces(n) /\ requests[i].kind = "replace"
      BY DEF TypedQueues
    <3>2. Load.kind = "load"
      BY DEF Load
    <3>3. requests[i] \in Replaces(n)
      BY <3>1, <3>2
    <3> QED  BY <3>3 DEF Replaces, Saves
  <2> HIDE DEF I, A, g
  <2>6. IsFiniteSet({g[i] : i \in I})
    BY <2>3, FiniteImage
  <2> QED  BY <2>4, <2>5, <2>6
<1>2. IsFiniteSet(UNION B) /\ UNION B \subseteq Nat
  <2>1. Len(writes) \in Nat /\ DOMAIN writes = 1..Len(writes)
    BY DEF TypedQueues
  <2>2. IsFiniteSet(DOMAIN writes)
    BY <2>1, FS_Interval
  <2> DEFINE g == [i \in DOMAIN writes |-> writes[i].waiters]
  <2>3. B = {g[i] : i \in DOMAIN writes}
    OBVIOUS
  <2>4. \A W \in B : W \subseteq Nat /\ IsFiniteSet(W)
    <3> SUFFICES ASSUME NEW i \in DOMAIN writes
                 PROVE  writes[i].waiters \subseteq Nat /\ IsFiniteSet(writes[i].waiters)
      OBVIOUS
    <3>1. writes[i] \in Writes(n)
      BY DEF TypedQueues
    <3> QED  BY <3>1 DEF Writes, Waiters, Saves
  <2> HIDE DEF B, g
  <2>5. IsFiniteSet(B)
    BY <2>2, <2>3, FiniteImage
  <2> QED  BY <2>4, <2>5, FS_UNION
<1>3. IsFiniteSet(C) /\ C \subseteq Nat
  <2> DEFINE g == [f \in Flows |-> flushing[f].save]
  <2>1. C = {g[f] : f \in Flows}
    OBVIOUS
  <2>2. C \subseteq Nat
    BY DEF TypedQueues, Flushes
  <2> HIDE DEF C, g
  <2>3. IsFiniteSet({g[f] : f \in Flows})
    BY FlowsAssumption, FiniteImage
  <2> QED  BY <2>1, <2>2, <2>3
<1>4. IsFiniteSet(waiters) /\ waiters \subseteq Nat
  BY DEF TypedRest, Waiters, Saves
<1>5. Unsettled = (A \cup waiters) \cup UNION B
  BY DEF Unsettled
<1> HIDE DEF A, B, C, I
<1>6. IsFiniteSet(A \cup waiters)
  BY <1>1, <1>4, FS_Union
<1>7. IsFiniteSet(Unsettled)
  BY <1>2, <1>5, <1>6, FS_Union
<1>8. IsFiniteSet({0})
  BY FS_Singleton
<1>9. IsFiniteSet({0} \cup Unsettled)
  BY <1>7, <1>8, FS_Union
<1>10. IsFiniteSet(S)
  BY <1>3, <1>9, FS_Union
<1>11. S \subseteq Nat /\ S # {}
  <2>1. Unsettled \subseteq Nat
    BY <1>1, <1>2, <1>4, <1>5, Zenon
  <2> HIDE DEF Unsettled
  <2> QED  BY <2>1, <1>3
<1>12. FreshSave = 1 + Max(S)
  BY DEF FreshSave, C
<1> HIDE DEF S
<1>13. Max(S) \in Nat
  BY <1>10, <1>11, GreatestNumber
<1> QED  BY <1>12, <1>13 DEF Saves

---------------------------------------------------------------------------
(* Versions of a queue                                                      *)

LEMMA KeepsSelf == ASSUME NEW X, NEW q PROVE Keeps(X, q, q)
BY DEF Keeps

LEMMA KeepsMore ==
    ASSUME NEW X, NEW Y, X \subseteq Y, NEW p, NEW q, Keeps(X, p, q)
    PROVE  Keeps(Y, p, q)
BY DEF Keeps

LEMMA KeepsOn ==
    ASSUME NEW X, NEW p, NEW q, NEW r, Keeps(X, p, q), Keeps(X, q, r)
    PROVE  Keeps(X, p, r)
BY DEF Keeps

LEMMA WritesMore ==
    ASSUME NEW X, NEW Y, X \subseteq Y, NEW f, WritesOnward(f, X)
    PROVE  WritesOnward(f, Y)
BY KeepsMore DEF WritesOnward

LEMMA RequestsMore ==
    ASSUME NEW X, NEW Y, X \subseteq Y, NEW f, RequestsOnward(f, X)
    PROVE  RequestsOnward(f, Y)
BY KeepsMore DEF RequestsOnward

---------------------------------------------------------------------------
(* Steps that leave every version of the queues alone                       *)

LEMMA QuietStep ==
    ASSUME IInv,
           UNCHANGED <<operations, hydrated, ipcVars, mainVars>>,
           edits' = edits, dropped' = dropped, lost' = lost, writeFaults' = writeFaults,
           applied \subseteq applied', applied' \subseteq 0..edits,
           TypedRest', flushing' \in [Flows -> Flushes(edits)], Batched',
           hydrated # "done" => \A f \in Flows : flushing'[f].phase \in {"idle", "hydrate"}
    PROVE  IInv'
<1>1. TypedQueues(edits)'
  BY DEF IInv, TypedQueues, ipcVars, mainVars
<1>2. Phased'
  BY DEF IInv, Phased, ipcVars, mainVars
<1>3. Given \subseteq Given'
  BY DEF Given
<1>4. Onward'
  <2> SUFFICES ASSUME NEW f \in Flows
               PROVE  WritesOnward(f, Given)' /\ RequestsOnward(f, Given)'
    BY DEF Onward
  <2>1. WritesOnward(f, Given') /\ RequestsOnward(f, Given')
    BY <1>3, WritesMore, RequestsMore DEF IInv, Onward
  <2> QED  BY <2>1 DEF WritesOnward, RequestsOnward, Of, ipcVars, mainVars
<1>5. Secure'
  BY <1>3 DEF IInv, Secure, AllCovered, mainVars
<1>6. Following'
  BY DEF IInv, Following, Of, ipcVars, mainVars
<1> QED  BY <1>1, <1>2, <1>4, <1>5, <1>6 DEF IInv

\* A flush of f goes on.
Flushed(f) ==
    \E F \in Flushes(edits) :
        /\ flushing' = [flushing EXCEPT ![f] = F]
        /\ timers' \subseteq Flows
        /\ F.phase \in {"persist", "sent"} => hydrated = "done"
        /\ F.phase = "sent" => F.batch = operations[f]
        /\ F.phase # "applied"

LEMMA FlushStep ==
    ASSUME IInv, NEW f \in Flows, Flushed(f),
           UNCHANGED <<operations, hydrated, persistence, ipcVars, mainVars, backendVars>>,
           edits' = edits, dropped' = dropped, lost' = lost, writeFaults' = writeFaults,
           TypedRest'
    PROVE  IInv'
<1>1. PICK F \in Flushes(edits) :
        /\ flushing' = [flushing EXCEPT ![f] = F]
        /\ F.phase \in {"persist", "sent"} => hydrated = "done"
        /\ F.phase = "sent" => F.batch = operations[f]
        /\ F.phase # "applied"
  BY DEF Flushed
<1>2. flushing' \in [Flows -> Flushes(edits)]
  BY <1>1 DEF IInv, TypedQueues
<1>3. flushing'[f] = F /\ \A g \in Flows : g # f => flushing'[g] = flushing[g]
  BY <1>1 DEF IInv, TypedQueues
<1>4. hydrated # "done" => \A g \in Flows : flushing'[g].phase \in {"idle", "hydrate"}
  BY <1>1, <1>3 DEF IInv, Phased, Flushes
<1>5. Batched'
  <2> SUFFICES ASSUME NEW g \in Flows
               PROVE  /\ flushing'[g].phase \in {"sent", "applied"} =>
                           \A i \in DOMAIN operations[g] :
                               operations[g][i].id \in Ids(flushing'[g].batch) =>
                                   operations[g][i].covers \subseteq Covered(flushing'[g].batch)
                      /\ flushing'[g].phase = "applied" =>
                           Covered(flushing'[g].batch) \subseteq applied
    BY DEF Batched, backendVars, Ids, Covered
  <2>1. CASE g # f
    BY <2>1, <1>3 DEF IInv, Batched
  <2>2. CASE g = f
    <3>1. \A i \in DOMAIN operations[f] : operations[f][i].covers \subseteq Covered(operations[f])
      BY DEF Covered
    <3> QED  BY <2>2, <3>1, <1>1, <1>3
  <2> QED  BY <2>1, <2>2
<1>6. applied \subseteq applied' /\ applied' \subseteq 0..edits
  BY DEF IInv, TypedQueues, backendVars
<1> QED  BY <1>2, <1>4, <1>5, <1>6, QuietStep

LEMMA IdleFlush == ASSUME NEW n \in Nat PROVE Idle \in Flushes(n) /\ Idle.phase = "idle"
BY DEF Idle, Flushes

LEMMA FlushTypes ==
    ASSUME IInv, NEW f \in Flows
    PROVE  /\ edits \in Nat
           /\ flushing \in [Flows -> Flushes(edits)] /\ flushing[f] \in Flushes(edits)
           /\ operations[f] \in Queue(edits) /\ operations[f] \in Seq(Made(edits))
           /\ persistence[f] \in Nat
<1>1. edits \in Nat
  BY DEF IInv, TypedRest, Edits
<1>2. flushing \in [Flows -> Flushes(edits)] /\ operations[f] \in Queue(edits)
  BY DEF IInv, TypedQueues, Documents
<1>3. persistence[f] \in Nat
  BY DEF IInv, TypedRest
<1> QED  BY <1>1, <1>2, <1>3 DEF Queue

LEMMA EndsFlush ==
    ASSUME IInv, NEW f \in Flows, NEW queue, NEW armed \in SUBSET Flows, Ends(f, queue, armed)
    PROVE  Flushed(f)
<1>1. Idle \in Flushes(edits) /\ Idle.phase = "idle"
  BY FlushTypes, IdleFlush
<1>2. timers' \subseteq Flows /\ flushing' = [flushing EXCEPT ![f] = Idle]
  BY DEF Ends
<1> QED  BY <1>1, <1>2 DEF Flushed

LEMMA SendFlush ==
    ASSUME IInv, NEW f \in Flows, NEW armed \in SUBSET Flows, SendBatch(f, armed),
           hydrated = "done"
    PROVE  Flushed(f)
<1>1. CASE mounted = 0 \/ operations[f] = <<>>
  BY <1>1, EndsFlush DEF SendBatch
<1>2. CASE ~(mounted = 0 \/ operations[f] = <<>>)
  <2> DEFINE F == [Idle EXCEPT !.phase = "sent", !.batch = operations[f]]
  <2>1. F \in Flushes(edits) /\ F.phase = "sent" /\ F.batch = operations[f]
    BY FlushTypes DEF Idle, Flushes
  <2>2. flushing' = [flushing EXCEPT ![f] = F] /\ timers' \subseteq Flows
    BY <1>2 DEF SendBatch
  <2> HIDE DEF F
  <2> QED  BY <2>1, <2>2 DEF Flushed
<1> QED  BY <1>1, <1>2

LEMMA ProceedFlush ==
    ASSUME IInv, NEW f \in Flows, NEW armed \in SUBSET Flows, Proceed(f, armed),
           hydrated = "done"
    PROVE  Flushed(f)
<1>1. CASE persistence[f] = 0
  BY <1>1, SendFlush DEF Proceed
<1>2. CASE persistence[f] # 0
  <2> DEFINE F == [flushing[f] EXCEPT !.phase = "persist", !.save = persistence[f]]
  <2>1. F \in Flushes(edits) /\ F.phase = "persist"
    BY FlushTypes DEF Flushes
  <2>2. flushing' = [flushing EXCEPT ![f] = F] /\ timers' \subseteq Flows
    BY <1>2, FlushTypes DEF Proceed
  <2> HIDE DEF F
  <2> QED  BY <2>1, <2>2 DEF Flushed
<1> QED  BY <1>1, <1>2

LEMMA StartFlush ==
    ASSUME IInv, NEW f \in Flows, NEW armed \in SUBSET Flows, Start(f, armed)
    PROVE  Flushed(f)
<1>1. CASE hydrated = "done"
  BY <1>1, ProceedFlush DEF Start
<1>2. CASE hydrated # "done"
  <2> DEFINE F == [flushing[f] EXCEPT !.phase = "hydrate"]
  <2>1. F \in Flushes(edits) /\ F.phase = "hydrate"
    BY FlushTypes DEF Flushes
  <2>2. flushing' = [flushing EXCEPT ![f] = F] /\ timers' \subseteq Flows
    BY <1>2, FlushTypes DEF Start
  <2> HIDE DEF F
  <2> QED  BY <2>1, <2>2 DEF Flushed
<1> QED  BY <1>1, <1>2

LEMMA SameIsQuiet ==
    ASSUME IInv, UNCHANGED <<operations, hydrated, flushing, ipcVars, mainVars, applied>>,
           edits' = edits, dropped' = dropped, lost' = lost, writeFaults' = writeFaults,
           TypedRest'
    PROVE  IInv'
<1>1. flushing' \in [Flows -> Flushes(edits)] /\ applied' \subseteq 0..edits
  BY DEF IInv, TypedQueues
<1>2. Batched'
  BY DEF IInv, Batched
<1>3. hydrated # "done" => \A f \in Flows : flushing'[f].phase \in {"idle", "hydrate"}
  BY DEF IInv, Phased
<1> QED  BY <1>1, <1>2, <1>3, QuietStep

LEMMA UnmountKeeps == ASSUME IInv, Unmount PROVE IInv'
<1>1. TypedRest'
  BY DEF IInv, TypedRest, Unmount, rendererVars, mainVars, backendVars, historyVars, faultVars
<1> QED  BY <1>1, SameIsQuiet DEF Unmount, rendererVars, backendVars, historyVars, faultVars

LEMMA DisconnectKeeps == ASSUME IInv, NEW c, Disconnect(c) PROVE IInv'
<1>1. TypedRest'
  <2>1. 0 \in 0..MaxMounts
    BY BoundsAssumption
  <2>2. mounted' \in 0..MaxMounts /\ timers' \subseteq Flows
    BY <2>1 DEF IInv, TypedRest, Disconnect
  <2>3. leaving' \subseteq 1..MaxMounts
    BY DEF IInv, TypedRest, Disconnect
  <2> QED  BY <2>2, <2>3 DEF IInv, TypedRest, Disconnect, mainVars, backendVars, historyVars,
                             faultVars
<1> QED  BY <1>1, SameIsQuiet DEF Disconnect, backendVars, historyVars, faultVars

LEMMA DeleteFlowKeeps == ASSUME IInv, NEW f \in Flows, DeleteFlow(f) PROVE IInv'
<1>1. TypedRest'
  BY DEF IInv, TypedRest, DeleteFlow, rendererVars, pageVars, mainVars, historyVars, faultVars
<1> QED  BY <1>1, SameIsQuiet DEF DeleteFlow, rendererVars, historyVars, faultVars

LEMMA TimerFiresKeeps == ASSUME IInv, NEW f \in Flows, TimerFires(f) PROVE IInv'
<1>t. timers \subseteq Flows /\ timers \ {f} \in SUBSET Flows
  BY DEF IInv, TypedRest
<1>1. CASE flushing[f].phase = "idle"
  <2>1. Flushed(f)
    BY <1>t, <1>1, StartFlush DEF TimerFires
  <2>2. TypedRest'
    BY <2>1 DEF Flushed, IInv, TypedRest, TimerFires, pageVars, mainVars, backendVars,
                historyVars, faultVars
  <2> QED  BY <2>1, <2>2, FlushStep DEF TimerFires, historyVars, faultVars
<1>2. CASE flushing[f].phase # "idle"
  <2>1. TypedRest'
    BY <1>t, <1>2 DEF IInv, TypedRest, TimerFires, pageVars, mainVars, backendVars,
                      historyVars, faultVars
  <2> QED  BY <2>1, <1>2, SameIsQuiet DEF TimerFires, backendVars, historyVars, faultVars
<1> QED  BY <1>1, <1>2

LEMMA FlushKeeps == ASSUME IInv, NEW f \in Flows, Flush(f) PROVE IInv'
<1>1. Flushed(f)
  <2>1. timers \in SUBSET Flows
    BY DEF IInv, TypedRest
  <2> QED  BY <2>1, StartFlush DEF Flush
<1>2. TypedRest'
  BY <1>1 DEF Flushed, IInv, TypedRest, Flush, pageVars, mainVars, backendVars,
              historyVars, faultVars
<1> QED  BY <1>1, <1>2, FlushStep DEF Flush, historyVars, faultVars

LEMMA LoadedKeeps == ASSUME IInv, NEW f \in Flows, Loaded(f) PROVE IInv'
<1>1. Flushed(f)
  <2>1. timers \in SUBSET Flows
    BY DEF IInv, TypedRest
  <2> QED  BY <2>1, ProceedFlush DEF Loaded
<1>2. TypedRest'
  BY <1>1 DEF Flushed, IInv, TypedRest, Loaded, pageVars, mainVars, backendVars,
              historyVars, faultVars
<1> QED  BY <1>1, <1>2, FlushStep DEF Loaded, historyVars, faultVars

LEMMA PersistedKeeps == ASSUME IInv, NEW f \in Flows, Persisted(f) PROVE IInv'
<1>1. Flushed(f)
  <2>1. timers \in SUBSET Flows
    BY DEF IInv, TypedRest
  <2>2. hydrated = "done"
    BY DEF IInv, Phased, Persisted
  <2> QED  BY <2>1, <2>2, SendFlush DEF Persisted
<1>2. TypedRest'
  BY <1>1 DEF Flushed, IInv, TypedRest, Persisted, pageVars, mainVars, backendVars,
              historyVars, faultVars
<1> QED  BY <1>1, <1>2, FlushStep DEF Persisted, historyVars, faultVars

LEMMA CommitFailsKeeps == ASSUME IInv, NEW f \in Flows, CommitFails(f) PROVE IInv'
<1>1. Flushed(f)
  <2>1. timers \in SUBSET Flows
    BY DEF IInv, TypedRest
  <2> QED  BY <2>1, EndsFlush DEF CommitFails
<1>2. TypedRest'
  <2>1. refetching' \subseteq Flows
    BY DEF IInv, TypedRest, CommitFails
  <2>2. faults' \in 0..MaxFaults
    BY BoundsAssumption DEF IInv, TypedRest, CommitFails
  <2> QED  BY <1>1, <2>1, <2>2 DEF Flushed, IInv, TypedRest, CommitFails, mainVars, backendVars,
                                   historyVars
<1> QED  BY <1>1, <1>2, FlushStep DEF CommitFails, historyVars

\* The backend has the batch.
LEMMA ApplyKeeps == ASSUME IInv, NEW f \in Flows, Apply(f) PROVE IInv'
<1> DEFINE F == [flushing[f] EXCEPT !.phase = "applied"]
<1>1. /\ F \in Flushes(edits) /\ F.phase = "applied" /\ F.batch = flushing[f].batch
      /\ flushing[f].batch \in Seq(Made(edits))
  BY FlushTypes DEF Flushes
<1>2. flushing' = [flushing EXCEPT ![f] = F]
  BY FlushTypes DEF Apply
<1> HIDE DEF F
<1>3. flushing' \in [Flows -> Flushes(edits)]
  BY <1>1, <1>2, FlushTypes
<1>4. flushing'[f] = F /\ \A g \in Flows : g # f => flushing'[g] = flushing[g]
  BY <1>2, FlushTypes
<1>5. TypedRest'
  BY DEF IInv, TypedRest, Apply, pageVars, mainVars, historyVars, faultVars
<1>6. Covered(flushing[f].batch) \subseteq 0..edits
  <2> SUFFICES ASSUME NEW i \in DOMAIN flushing[f].batch
               PROVE  flushing[f].batch[i].covers \subseteq 0..edits
    BY DEF Covered
  <2>1. flushing[f].batch[i] \in Made(edits)
    BY <1>1
  <2> QED  BY <2>1 DEF Made
<1>7. applied \subseteq applied' /\ applied' \subseteq 0..edits
  BY <1>6 DEF IInv, TypedQueues, Apply
<1>8. Batched'
  <2> SUFFICES ASSUME NEW g \in Flows
               PROVE  /\ flushing'[g].phase \in {"sent", "applied"} =>
                           \A i \in DOMAIN operations[g] :
                               operations[g][i].id \in Ids(flushing'[g].batch) =>
                                   operations[g][i].covers \subseteq Covered(flushing'[g].batch)
                      /\ flushing'[g].phase = "applied" =>
                           Covered(flushing'[g].batch) \subseteq applied'
    BY DEF Batched, Apply, Ids, Covered
  <2>1. CASE g # f
    BY <2>1, <1>4, <1>7 DEF IInv, Batched
  <2>2. CASE g = f
    BY <2>2, <1>1, <1>4 DEF IInv, Batched, Apply
  <2> QED  BY <2>1, <2>2
<1>9. hydrated = "done"
  BY DEF IInv, Phased, Apply
<1> QED  BY <1>3, <1>5, <1>7, <1>8, <1>9, QuietStep
         DEF Apply, pageVars, mainVars, historyVars, faultVars, IInv

---------------------------------------------------------------------------
(* Steps that save a queue                                                  *)

LEMMA PersistStep ==
    ASSUME IInv, NEW f \in Flows, NEW queue, Persist(f, queue),
           hydrated = "done", hydrated' = "done", UNCHANGED mainVars,
           edits' \in {edits, edits + 1}, writeFaults' = writeFaults,
           TypedRest', queue \in Queue(edits'),
           (applied \cup dropped \cup lost)' \subseteq 0..edits',
           Given \subseteq Given', Keeps(Given', operations[f], queue),
           edits' # edits => edits' \in Covered(queue),
           flushing' \in [Flows -> Flushes(edits')], Batched'
    PROVE  IInv'
<1> DEFINE r == [kind |-> "replace", flow |-> f, queue |-> queue, save |-> FreshSave]
           N == Len(requests)
<1>e. edits \in Nat
  BY FlushTypes
<1>w. /\ Documents(edits) \subseteq Documents(edits')
      /\ Seq(Writes(edits)) \subseteq Seq(Writes(edits'))
      /\ Seq({Load} \cup Replaces(edits)) \subseteq Seq({Load} \cup Replaces(edits'))
      /\ 0..edits \subseteq 0..edits'
  <2>1. CASE edits' = edits
    BY <2>1
  <2>2. CASE edits' = edits + 1
    <3> DEFINE n == edits
    <3>1. /\ Documents(n) \subseteq Documents(n + 1)
          /\ Seq(Writes(n)) \subseteq Seq(Writes(n + 1))
          /\ Seq({Load} \cup Replaces(n)) \subseteq Seq({Load} \cup Replaces(n + 1))
      BY <1>e, Widens
    <3>2. 0..n \subseteq 0..(n + 1)
      BY <1>e
    <3> QED  BY <2>2, <3>1, <3>2
  <2> QED  BY <2>1, <2>2
<1>1. r \in Replaces(edits') /\ r # Load /\ r.flow = f /\ r.queue = queue
  <2>1. FreshSave \in Saves
    BY <1>e, FreshIsNumbered DEF IInv
  <2>2. r.kind # Load.kind
    BY DEF Load
  <2> QED  BY <2>1, <2>2 DEF Replaces
<1>2. /\ requests' = Append(requests, r)
      /\ operations' = [operations EXCEPT ![f] = queue] /\ loaded' = loaded
  BY DEF Persist
<1>3. /\ requests \in Seq({Load} \cup Replaces(edits')) /\ N \in Nat
      /\ operations \in Documents(edits')
  <2>1. requests \in Seq({Load} \cup Replaces(edits)) /\ operations \in Documents(edits)
    BY DEF IInv, TypedQueues
  <2>2. N \in Nat
    BY <2>1
  <2> QED  BY <2>1, <2>2, <1>w
<1> HIDE DEF r
<1>4. /\ requests' \in Seq({Load} \cup Replaces(edits'))
      /\ DOMAIN requests = 1..N /\ DOMAIN requests' = 1..(N + 1)
      /\ requests'[N + 1] = r /\ \A i \in 1..N : requests'[i] = requests[i]
  BY <1>1, <1>2, <1>3
<1>5. operations' \in Documents(edits')
  BY <1>2, <1>3 DEF Documents
<1>6. operations'[f] = queue /\ \A g \in Flows : g # f => operations'[g] = operations[g]
  BY <1>2, <1>3 DEF Documents
<1>7. TypedQueues(edits)'
  <2>1. saved \subseteq 0..edits'
    BY <1>w DEF IInv, TypedQueues
  <2>2. document \in Documents(edits') /\ disk \in Documents(edits')
        /\ writes \in Seq(Writes(edits'))
    BY <1>w DEF IInv, TypedQueues
  <2> QED  BY <2>1, <2>2, <1>4, <1>5 DEF TypedQueues, mainVars
<1>8. Phased'
  <2>1. \A i \in 1..(N + 1) : i = N + 1 \/ i \in 1..N
    BY <1>3
  <2>2. loaded = <<>> /\ \A i \in 1..N : requests[i] # Load
    BY <1>4 DEF IInv, Phased
  <2>3. \A i \in 1..(N + 1) : requests'[i] # Load
    BY <2>1, <2>2, <1>1, <1>4
  <2> QED  BY <2>2, <2>3, <1>2, <1>4 DEF Phased
<1>9. /\ \A g \in Flows : g # f => Of(g)' = Of(g)
      /\ Of(f)' = Of(f) \cup {N + 1}
      /\ \A g \in Flows : Of(g) \subseteq 1..N /\ \A i \in Of(g) : requests'[i] = requests[i]
  <2>1. \A i : i \in 1..(N + 1) <=> (i = N + 1 \/ i \in 1..N)
    BY <1>3
  <2>2. N + 1 \notin 1..N
    BY <1>3
  <2> QED  BY <2>1, <2>2, <1>1, <1>4 DEF Of
<1>10. \A g \in Flows : WritesOnward(g, Given') /\ RequestsOnward(g, Given')
  BY WritesMore, RequestsMore DEF IInv, Onward
<1>11. Onward'
  <2> SUFFICES ASSUME NEW g \in Flows
               PROVE  WritesOnward(g, Given)' /\ RequestsOnward(g, Given)'
    BY DEF Onward
  <2>1. WritesOnward(g, Given)'
    BY <1>10 DEF WritesOnward, mainVars
  <2>2. CASE g # f
    <3>1. RequestsOnward(g, Given)'
      BY <2>2, <1>6, <1>9, <1>10 DEF RequestsOnward, mainVars
    <3> QED  BY <2>1, <3>1
  <2>3. CASE g = f
    <3> DEFINE X == Given'
    <3>1. RequestsOnward(f, X) /\ Keeps(X, operations[f], queue)
      BY <1>10
    <3>2. document' = document
      BY DEF mainVars
    <3> HIDE DEF X
    <3>3. /\ Keeps(X, document[f], queue) /\ Keeps(X, queue, queue)
          /\ \A i \in Of(f) : Keeps(X, requests[i].queue, queue)
      BY <3>1, KeepsOn, KeepsSelf DEF RequestsOnward
    <3>4. /\ requests'[N + 1].queue = queue
          /\ \A i \in Of(f) : i < N + 1 /\ ~(N + 1 < i) /\ requests'[i] = requests[i]
      BY <1>1, <1>3, <1>4, <1>9
    <3>5. ASSUME NEW i \in Of(f)'
          PROVE  /\ Keeps(X, document[f], requests'[i].queue)
                 /\ Keeps(X, requests'[i].queue, queue)
                 /\ \A j \in Of(f)' : i < j => Keeps(X, requests'[i].queue, requests'[j].queue)
      <4>1. CASE i = N + 1
        <5>1. \A j \in Of(f)' : ~(i < j)
          BY <4>1, <3>4, <1>3, <1>9
        <5> QED  BY <4>1, <5>1, <3>3, <3>4
      <4>2. CASE i \in Of(f)
        <5>1. Keeps(X, document[f], requests'[i].queue) /\ Keeps(X, requests'[i].queue, queue)
          BY <4>2, <3>1, <3>3, <3>4 DEF RequestsOnward
        <5>2. ASSUME NEW j \in Of(f)', i < j
              PROVE  Keeps(X, requests'[i].queue, requests'[j].queue)
          <6>1. CASE j = N + 1
            BY <6>1, <5>1, <3>4
          <6>2. CASE j \in Of(f)
            BY <6>2, <5>2, <4>2, <3>1, <3>4 DEF RequestsOnward
          <6> QED  BY <6>1, <6>2, <5>2, <1>9
        <5> QED  BY <5>1, <5>2
      <4> QED  BY <4>1, <4>2, <1>9
    <3>6. RequestsOnward(f, Given)'
      BY <3>2, <3>3, <3>5, <1>6 DEF RequestsOnward, X
    <3> QED  BY <2>1, <2>3, <3>6
  <2> QED  BY <2>2, <2>3
<1>12. Secure'
  <2>1. saved' = saved /\ disk' = disk
    BY DEF mainVars
  <2>2. saved \subseteq Given' \cup AllCovered(disk)
    BY DEF IInv, Secure
  <2>3. AllCovered(disk)' = AllCovered(disk)
    BY <2>1 DEF AllCovered
  <2>4. ASSUME NEW e \in 0..edits'
        PROVE  e \in Given' \/ \E g \in Flows : e \in Covered(operations'[g])
    <3>1. CASE e \in 0..edits
      <4>1. e \in Given' \/ \E g \in Flows : e \in Covered(operations[g])
        BY <3>1, InAllCovered DEF IInv, Secure
      <4>2. ASSUME NEW g \in Flows, e \in Covered(operations[g])
            PROVE  e \in Given' \/ e \in Covered(operations'[g])
        BY <4>2, <1>6 DEF Keeps
      <4> QED  BY <4>1, <4>2
    <3>2. CASE e \notin 0..edits
      <4>1. e = edits' /\ edits' # edits
        BY <3>2, <1>e
      <4> QED  BY <4>1, <1>6
    <3> QED  BY <3>1, <3>2
  <2>5. 0..edits' \subseteq Given' \cup AllCovered(operations)'
    BY <2>4 DEF AllCovered
  <2> QED  BY <2>1, <2>2, <2>3, <2>5 DEF Secure
<1>13. Following'
  <2>1. ASSUME NEW g \in Flows
        PROVE  /\ Of(g)' = {} => document'[g] = operations'[g]
               /\ \A i \in Of(g)' : (\A j \in Of(g)' : j <= i) => requests'[i].queue = operations'[g]
    <3>1. CASE g # f
      BY <3>1, <1>6, <1>9 DEF IInv, Following, mainVars
    <3>2. CASE g = f
      <4>1. Of(g)' # {} /\ requests'[N + 1].queue = queue
        BY <3>2, <1>1, <1>4, <1>9
      <4>2. ASSUME NEW i \in Of(f)', \A j \in Of(f)' : j <= i
            PROVE  i = N + 1
        <5>1. N + 1 <= i
          BY <4>2, <1>9
        <5>2. i \in 1..N \/ i = N + 1
          BY <1>9
        <5> QED  BY <5>1, <5>2, <1>3
      <4> QED  BY <3>2, <4>1, <4>2, <1>6
    <3> QED  BY <3>1, <3>2
  <2>2. (waiters = {} /\ writeFaults = 0 =>
           document = IF writes = <<>> THEN disk ELSE writes[Len(writes)].document)'
    BY DEF IInv, Following, mainVars
  <2> QED  BY <2>1, <2>2 DEF Following
<1> QED  BY <1>7, <1>8, <1>11, <1>12, <1>13 DEF IInv

\* What Persist leaves typed.
LEMMA PersistTypes ==
    ASSUME IInv, NEW f \in Flows, NEW queue, Persist(f, queue)
    PROVE  /\ persistence' \in [Flows -> Nat]
           /\ operations'[f] = queue
           /\ \A g \in Flows : g # f => operations'[g] = operations[g]
<1>1. FreshSave \in Nat
  <2>1. edits \in Nat
    BY FlushTypes
  <2> QED  BY <2>1, FreshIsNumbered DEF IInv, Saves
<1>2. persistence' \in [Flows -> Nat]
  BY <1>1 DEF Persist, IInv, TypedRest
<1>3. operations' = [operations EXCEPT ![f] = queue] /\ operations \in Documents(edits)
  BY DEF Persist, IInv, TypedQueues
<1> QED  BY <1>2, <1>3 DEF Documents

\* A new version of the queue of f whose operations are of the old one, or
\* new, agrees with the batches that have been sent.
LEMMA BatchedOn ==
    ASSUME IInv, NEW f \in Flows, NEW queue, Persist(f, queue),
           flushing'[f] = flushing[f] \/ flushing'[f].phase = "idle",
           \A g \in Flows : g # f => flushing'[g] = flushing[g],
           applied' = applied,
           \A i \in DOMAIN queue : queue[i].id \notin 0..edits \/
               \E j \in DOMAIN operations[f] : queue[i] = operations[f][j]
    PROVE  Batched'
<1>1. /\ operations'[f] = queue
      /\ \A g \in Flows : g # f => operations'[g] = operations[g]
  BY PersistTypes
<1> SUFFICES ASSUME NEW g \in Flows
             PROVE  /\ flushing'[g].phase \in {"sent", "applied"} =>
                         \A i \in DOMAIN operations'[g] :
                             operations'[g][i].id \in Ids(flushing'[g].batch) =>
                                 operations'[g][i].covers \subseteq Covered(flushing'[g].batch)
                    /\ flushing'[g].phase = "applied" =>
                         Covered(flushing'[g].batch) \subseteq applied'
  BY DEF Batched, Ids, Covered
<1>2. CASE g # f
  BY <1>1, <1>2 DEF IInv, Batched
<1>3. CASE g = f /\ flushing'[f].phase = "idle"
  BY <1>3
<1>4. CASE g = f /\ flushing'[f] = flushing[f]
  <2> SUFFICES ASSUME flushing[f].phase \in {"sent", "applied"}, NEW i \in DOMAIN queue,
                      queue[i].id \in Ids(flushing[f].batch)
               PROVE  queue[i].covers \subseteq Covered(flushing[f].batch)
    BY <1>1, <1>4 DEF IInv, Batched
  <2>1. queue[i].id \in 0..edits
    <3>1. PICK j \in DOMAIN flushing[f].batch : flushing[f].batch[j].id = queue[i].id
      BY InIds
    <3>2. flushing[f].batch \in Seq(Made(edits))
      BY FlushTypes DEF Flushes
    <3>3. flushing[f].batch[j] \in Made(edits)
      BY <3>2
    <3> QED  BY <3>1, <3>3 DEF Made
  <2>2. PICK j \in DOMAIN operations[f] : queue[i] = operations[f][j]
    BY <2>1
  <2> QED  BY <2>2 DEF IInv, Batched
<1> QED  BY <1>2, <1>3, <1>4

LEMMA EnqueueKeeps ==
    ASSUME IInv, NEW f \in Flows, NEW kind \in MergeKinds, Enqueue(f, kind), Patient
    PROVE  IInv'
<1> DEFINE n == edits
           op == [id |-> edits', kind |-> kind, covers |-> {edits'}]
           queue == Merged(operations[f], op)
<1>1. n \in Nat /\ edits' = n + 1 /\ edits' # edits /\ n + 1 <= MaxEdits
  <2>1. n \in Nat /\ n \in Edits
    BY FlushTypes DEF IInv, TypedRest
  <2> QED  BY <2>1, BoundsAssumption DEF Enqueue, Edits
<1>2. op \in Made(n + 1) /\ op.id = n + 1 /\ op.covers = {n + 1}
  BY <1>1 DEF Made
<1>3. operations[f] \in Queue(n)
  BY FlushTypes
<1>4. Persist(f, queue)
  BY DEF Enqueue
<1> HIDE DEF op
<1>5. /\ queue \in Queue(n + 1)
      /\ Covered(operations[f]) \cup {n + 1} \subseteq Covered(queue)
      /\ \A i \in DOMAIN queue :
           queue[i].id = n + 1 \/ \E j \in DOMAIN operations[f] : queue[i] = operations[f][j]
  BY <1>1, <1>2, <1>3, MergedQueue
<1> HIDE DEF queue
<1>6. hydrated = "done" /\ hydrated' = hydrated
  BY <1>1 DEF Patient, Enqueue
<1>7. TypedRest'
  <2>1. edits' \in Edits
    BY <1>1 DEF Edits
  <2>2. persistence' \in [Flows -> Nat]
    BY <1>4, PersistTypes
  <2> QED  BY <2>1, <2>2 DEF IInv, TypedRest, Enqueue, pageVars, mainVars, backendVars, faultVars
<1>8. /\ UNCHANGED mainVars /\ flushing' = flushing
      /\ applied' = applied /\ dropped' = dropped /\ lost' = lost /\ writeFaults' = writeFaults
  BY DEF Enqueue, backendVars, faultVars
<1>9. Batched'
  <2>1. n + 1 \notin 0..n
    BY <1>1
  <2> QED  BY <2>1, <1>4, <1>5, <1>8, BatchedOn
<1>10. Given' = Given /\ Keeps(Given', operations[f], queue)
  BY <1>5, <1>8 DEF Given, Keeps
<1>11. (applied \cup dropped \cup lost)' \subseteq 0..edits'
  <2>1. 0..n \subseteq 0..(n + 1)
    BY <1>1
  <2>2. applied \cup dropped \cup lost \subseteq 0..n
    BY DEF IInv, TypedQueues
  <2> QED  BY <2>1, <2>2, <1>1, <1>8
<1>12. flushing' \in [Flows -> Flushes(edits')]
  <2>1. flushing \in [Flows -> Flushes(n)]
    BY FlushTypes
  <2> QED  BY <2>1, <1>1, <1>8, Widens
<1> QED  BY <1>1, <1>4, <1>5, <1>6, <1>7, <1>8, <1>9, <1>10, <1>11, <1>12, PersistStep

LEMMA AcknowledgeKeeps ==
    ASSUME IInv, NEW f \in Flows, Acknowledge(f)
    PROVE  IInv'
<1> DEFINE n == edits
           batch == flushing[f].batch
           queue == Remaining(operations[f], batch)
<1>1. n \in Nat /\ edits' = edits /\ operations[f] \in Queue(n)
  BY FlushTypes DEF Acknowledge, historyVars
<1>2. Persist(f, queue) /\ Ends(f, queue, timers)
  BY DEF Acknowledge
<1>3. /\ queue \in Queue(n)
      /\ \A i \in DOMAIN queue : \E j \in DOMAIN operations[f] : queue[i] = operations[f][j]
      /\ \A e \in Covered(operations[f]) :
           e \in Covered(queue) \/ \E j \in DOMAIN operations[f] :
               operations[f][j].id \in Ids(batch) /\ e \in operations[f][j].covers
  BY <1>1, RemainingQueue
<1> HIDE DEF queue
<1>4. /\ \A j \in DOMAIN operations[f] :
           operations[f][j].id \in Ids(batch) => operations[f][j].covers \subseteq Covered(batch)
      /\ Covered(batch) \subseteq applied /\ hydrated = "done"
  BY DEF Acknowledge, IInv, Batched, Phased
<1>5. /\ UNCHANGED mainVars /\ hydrated' = hydrated /\ applied' = applied
      /\ dropped' = dropped /\ lost' = lost /\ writeFaults' = writeFaults
  BY DEF Acknowledge, backendVars, historyVars, faultVars
<1>6. Given' = Given /\ Keeps(Given', operations[f], queue)
  BY <1>3, <1>4, <1>5 DEF Given, Keeps
<1>7. /\ flushing' \in [Flows -> Flushes(n)] /\ flushing'[f].phase = "idle"
      /\ \A g \in Flows : g # f => flushing'[g] = flushing[g]
  BY <1>1, <1>2, FlushTypes, IdleFlush DEF Ends
<1>8. Batched'
  BY <1>2, <1>3, <1>5, <1>7, BatchedOn
<1>9. TypedRest'
  <2>1. persistence' \in [Flows -> Nat]
    BY <1>2, PersistTypes
  <2>2. timers' \subseteq Flows
    BY <1>2 DEF Ends, IInv, TypedRest
  <2> QED  BY <2>1, <2>2 DEF IInv, TypedRest, Acknowledge, pageVars, mainVars, backendVars,
                             historyVars, faultVars
<1>10. (applied \cup dropped \cup lost)' \subseteq 0..edits'
  BY <1>1, <1>5 DEF IInv, TypedQueues
<1> QED  BY <1>1, <1>2, <1>3, <1>4, <1>5, <1>6, <1>7, <1>8, <1>9, <1>10, PersistStep

LEMMA DiscardKeeps ==
    ASSUME IInv, NEW f \in Flows, Discard(f)
    PROVE  IInv'
<1>t. timers \in SUBSET Flows
  BY DEF IInv, TypedRest
<1>1. CASE mounted = 0
  <2>1. Flushed(f)
    BY <1>t, <1>1, EndsFlush DEF Discard
  <2>2. TypedRest'
    BY <1>1, <2>1 DEF Flushed, IInv, TypedRest, Discard, pageVars, mainVars, backendVars, faultVars
  <2> QED  BY <1>1, <2>1, <2>2, FlushStep DEF Discard, faultVars
<1>2. CASE mounted # 0
  <2> DEFINE n == edits
  <2>1. n \in Nat /\ edits' = edits /\ operations[f] \in Queue(n)
    BY FlushTypes DEF Discard
  <2>2. /\ Persist(f, <<>>) /\ dropped' = dropped \cup Covered(operations[f])
        /\ flushing' = [flushing EXCEPT ![f] = Idle] /\ timers' = timers \ {f}
    BY <1>2 DEF Discard
  <2>3. <<>> \in Queue(n) /\ Covered(<<>>) = {} /\ DOMAIN <<>> = {}
    BY <2>1, EmptyQueue
  <2>4. /\ UNCHANGED mainVars /\ hydrated = "done" /\ hydrated' = hydrated /\ applied' = applied
        /\ lost' = lost /\ writeFaults' = writeFaults
    BY DEF Discard, backendVars, faultVars, IInv, Phased
  <2>5. Given \subseteq Given' /\ Keeps(Given', operations[f], <<>>)
    BY <2>2, <2>4 DEF Given, Keeps
  <2>6. /\ flushing' \in [Flows -> Flushes(n)] /\ flushing'[f].phase = "idle"
        /\ \A g \in Flows : g # f => flushing'[g] = flushing[g]
    BY <2>1, <2>2, FlushTypes, IdleFlush
  <2>7. Batched'
    BY <2>2, <2>3, <2>4, <2>6, BatchedOn
  <2>8. TypedRest'
    <3>1. persistence' \in [Flows -> Nat]
      BY <2>2, PersistTypes
    <3> QED  BY <3>1, <1>t, <2>2 DEF IInv, TypedRest, Discard, pageVars, mainVars, backendVars,
                                     faultVars
  <2>9. Covered(operations[f]) \subseteq 0..n
    <3> SUFFICES ASSUME NEW i \in DOMAIN operations[f]
                 PROVE  operations[f][i].covers \subseteq 0..n
      BY DEF Covered
    <3>1. operations[f][i] \in Made(n)
      BY FlushTypes
    <3> QED  BY <3>1 DEF Made
  <2>10. (applied \cup dropped \cup lost)' \subseteq 0..edits'
    BY <2>1, <2>2, <2>4, <2>9 DEF IInv, TypedQueues
  <2> QED  BY <2>1, <2>2, <2>3, <2>4, <2>5, <2>6, <2>7, <2>8, <2>10, PersistStep
<1> QED  BY <1>1, <1>2

LEMMA RefetchedKeeps ==
    ASSUME IInv, NEW f \in Flows, Refetched(f)
    PROVE  IInv'
<1>1. /\ edits' = edits /\ dropped' = dropped /\ lost' = lost /\ writeFaults' = writeFaults
      /\ UNCHANGED <<flushing, hydrated, mainVars, applied>>
  BY DEF Refetched, backendVars, historyVars
<1>f. faults' \in 0..MaxFaults
  BY BoundsAssumption DEF Refetched, IInv, TypedRest
<1>2. CASE operations[f] # <<>> /\ Persist(f, operations[f])
  <2>1. hydrated = "done"
    BY <1>2 DEF IInv, Phased
  <2>2. operations[f] \in Queue(edits) /\ flushing' \in [Flows -> Flushes(edits)]
    BY <1>1, FlushTypes
  <2>3. Given' = Given /\ Keeps(Given', operations[f], operations[f])
    BY <1>1, KeepsSelf DEF Given
  <2>4. Batched'
    BY <1>1, <1>2, BatchedOn
  <2>5. TypedRest'
    <3>1. persistence' \in [Flows -> Nat]
      BY <1>2, PersistTypes
    <3> QED  BY <3>1, <1>f DEF IInv, TypedRest, Refetched, mainVars, backendVars, historyVars
  <2>6. (applied \cup dropped \cup lost)' \subseteq 0..edits'
    BY <1>1 DEF IInv, TypedQueues
  <2> QED  BY <1>1, <1>2, <2>1, <2>2, <2>3, <2>4, <2>5, <2>6, PersistStep
<1>3. CASE UNCHANGED <<operations, persistence, ipcVars>>
  <2>1. TypedRest'
    BY <1>3, <1>f DEF IInv, TypedRest, Refetched, mainVars, backendVars, historyVars
  <2> QED  BY <1>1, <1>3, <2>1, SameIsQuiet
<1> QED  BY <1>2, <1>3 DEF Refetched

---------------------------------------------------------------------------
(* Steps before the stored operations are loaded                            *)

LEMMA CoveredMade ==
    ASSUME NEW n \in Nat, NEW queues \in Documents(n)
    PROVE  AllCovered(queues) \subseteq 0..n
<1> SUFFICES ASSUME NEW f \in Flows, NEW i \in DOMAIN queues[f]
             PROVE  queues[f][i].covers \subseteq 0..n
  BY DEF AllCovered, Covered
<1>1. queues[f] \in Seq(Made(n))
  BY DEF Documents, Queue
<1>2. queues[f][i] \in Made(n)
  BY <1>1
<1> QED  BY <1>2 DEF Made

LEMMA EmptyQueues ==
    ASSUME NEW n \in Nat
    PROVE  [f \in Flows |-> <<>>] \in Documents(n)
BY EmptyQueue DEF Documents

\* There are no queues but those of the main process.
LEMMA WaitingStep ==
    ASSUME TypedQueues(edits)', TypedRest', Phased', hydrated' # "done",
           requests' = <<>> \/ requests' = <<Load>>,
           \A f \in Flows : WritesOnward(f, Given)', Secure',
           (waiters = {} /\ writeFaults = 0 =>
              document = IF writes = <<>> THEN disk ELSE writes[Len(writes)].document)'
    PROVE  IInv'
<1>1. \A f \in Flows : Of(f)' = {}
  <2>1. \A i \in DOMAIN requests' : requests'[i] = Load
    <3> DEFINE l == Load
    <3>1. DOMAIN <<l>> = {1} /\ <<l>>[1] = l /\ DOMAIN <<>> = {}
      OBVIOUS
    <3> QED  BY <3>1
  <2> QED  BY <2>1 DEF Of
<1>2. Batched'
  BY DEF Phased, Batched
<1>3. Onward'
  BY <1>1 DEF Onward, RequestsOnward
<1>4. Following'
  BY DEF Following
<1> QED  BY <1>2, <1>3, <1>4 DEF IInv

LEMMA LoadingStep ==
    ASSUME IInv, UNCHANGED <<operations, flushing, mainVars, applied, dropped, lost, edits>>,
           writeFaults' = writeFaults, hydrated # "done", hydrated' # "done",
           requests' = <<>> \/ requests' = <<Load>>, Phased', TypedRest'
    PROVE  IInv'
<1>1. requests' \in Seq({Load} \cup Replaces(edits))
  <2> DEFINE l == Load
             S == {l} \cup Replaces(edits)
  <2>1. l \in S
    OBVIOUS
  <2> HIDE DEF S, l
  <2>2. <<l>> \in Seq(S) /\ <<>> \in Seq(S)
    BY <2>1
  <2> QED  BY <2>2 DEF S, l
<1>2. TypedQueues(edits)'
  BY <1>1 DEF IInv, TypedQueues, mainVars
<1>3. \A f \in Flows : WritesOnward(f, Given)'
  BY DEF IInv, Onward, WritesOnward, Given, mainVars
<1>4. Secure'
  BY DEF IInv, Secure, Given, AllCovered, mainVars
<1>5. (waiters = {} /\ writeFaults = 0 =>
         document = IF writes = <<>> THEN disk ELSE writes[Len(writes)].document)'
  BY DEF IInv, Following, mainVars
<1> QED  BY <1>1, <1>2, <1>3, <1>4, <1>5, WaitingStep

LEMMA ConnectKeeps == ASSUME IInv, Connect PROVE IInv'
<1>1. TypedRest'
  <2>1. mounts' \in 0..MaxMounts /\ mounted' \in 0..MaxMounts
    <3>1. MaxMounts \in Nat /\ mounts \in 0..MaxMounts /\ mounts < MaxMounts
      BY BoundsAssumption DEF IInv, TypedRest, Connect
    <3> QED  BY <3>1 DEF Connect
  <2>2. timers' \subseteq Flows
    BY DEF IInv, TypedRest, Connect
  <2> QED  BY <2>1, <2>2 DEF IInv, TypedRest, Connect, mainVars, backendVars, faultVars
<1>2. CASE hydrated = "no"
  <2>1. requests = <<>> /\ loaded = <<>>
    BY <1>2 DEF IInv, Phased
  <2>2. requests' = <<Load>>
    <3> DEFINE l == Load
    <3>1. Append(<<>>, l) = <<l>>
      OBVIOUS
    <3> QED  BY <1>2, <2>1, <3>1 DEF Connect
  <2>3. hydrated' = "loading"
    BY <1>2 DEF Connect
  <2>4. Phased'
    BY <1>2, <2>1, <2>2, <2>3 DEF IInv, Phased, Connect
  <2> QED  BY <1>1, <1>2, <2>2, <2>3, <2>4, LoadingStep DEF Connect, backendVars, faultVars
<1>3. CASE hydrated # "no"
  BY <1>1, <1>3, SameIsQuiet DEF Connect, ipcVars, backendVars, faultVars
<1> QED  BY <1>2, <1>3

LEMMA HandleLoadKeeps == ASSUME IInv, HandleLoad PROVE IInv'
<1>1. requests \in Seq({Load} \cup Replaces(edits)) /\ requests # <<>>
  BY DEF HandleLoad, IInv, TypedQueues
<1>2. requests[1] = Load /\ 1 \in DOMAIN requests
  <2>1. requests[1] \in {Load} \cup Replaces(edits) /\ 1 \in DOMAIN requests
    BY <1>1
  <2>2. requests[1].kind = "load"
    BY <1>1 DEF HandleLoad
  <2> QED  BY <2>1, <2>2 DEF Replaces
<1>3. hydrated = "loading" /\ requests = <<Load>>
  <2>1. hydrated # "done"
    BY <1>2 DEF IInv, Phased
  <2> QED  BY <1>1, <2>1 DEF IInv, Phased
<1>4. requests' = <<>> /\ loaded' = <<document>>
  <2> DEFINE l == Load
  <2>1. Tail(<<l>>) = <<>>
    OBVIOUS
  <2> QED  BY <1>3, <2>1 DEF HandleLoad
<1>5. Phased'
  BY <1>3, <1>4 DEF IInv, Phased, HandleLoad, rendererVars, mainVars
<1>6. TypedRest'
  BY DEF IInv, TypedRest, HandleLoad, rendererVars, pageVars, mainVars, backendVars,
         historyVars, faultVars
<1> QED  BY <1>3, <1>4, <1>5, <1>6, LoadingStep
         DEF HandleLoad, rendererVars, backendVars, historyVars, faultVars

\* What the disk had is what is to be committed.
LEMMA LoadAnsweredKeeps == ASSUME IInv, LoadAnswered PROVE IInv'
<1>1. hydrated = "loading" /\ requests = <<>> /\ loaded = <<document>>
  BY DEF IInv, Phased, LoadAnswered
<1>2. /\ \A f \in Flows : operations[f] = <<>> /\ flushing[f].phase \in {"idle", "hydrate"}
      /\ document \in Documents(edits) /\ edits \in Nat
  BY <1>1 DEF IInv, Phased, TypedQueues, TypedRest, Edits
<1>3. loaded[1] = document
  <2> DEFINE d == document
  <2>1. <<d>>[1] = d
    OBVIOUS
  <2> QED  BY <1>1, <2>1
<1>4. ASSUME NEW f \in Flows
      PROVE  Remaining(document[f], operations[f]) \o operations[f] = document[f]
  <2>1. document[f] \in Seq(Made(edits)) /\ operations[f] = <<>>
    BY <1>2 DEF Documents, Queue
  <2>2. Ids(operations[f]) = {}
    BY <1>2, <2>1, EmptyQueue
  <2>3. Remaining(document[f], operations[f]) = document[f]
    BY <2>1, <2>2, RemainingAll
  <2> QED  BY <2>1, <2>3
<1>5. Hydrate(document)
  BY <1>3 DEF LoadAnswered
<1>6. operations' = document
  <2>1. operations' = [f \in Flows |-> Remaining(document[f], operations[f]) \o operations[f]]
    BY <1>5 DEF Hydrate
  <2> QED  BY <2>1, <1>2, <1>4 DEF Documents
<1>7. hydrated' = "done" /\ timers' \subseteq Flows
  BY <1>5 DEF Hydrate, IInv, TypedRest
<1>8. /\ UNCHANGED <<flushing, mainVars, applied, dropped, lost, edits>>
      /\ requests' = <<>> /\ loaded' = <<>> /\ writeFaults' = writeFaults
  BY <1>1 DEF LoadAnswered, backendVars, historyVars, faultVars
<1>9. \A f \in Flows : Of(f)' = {}
  BY <1>8 DEF Of
<1>10. TypedQueues(edits)'
  BY <1>6, <1>8, <1>1, <1>2 DEF IInv, TypedQueues, mainVars
<1>11. TypedRest'
  BY <1>7 DEF IInv, TypedRest, LoadAnswered, pageVars, mainVars, backendVars, historyVars,
              faultVars
<1>12. Phased'
  BY <1>7, <1>8 DEF Phased
<1>13. Batched'
  BY <1>2, <1>8 DEF Batched
<1>14. Onward'
  <2> SUFFICES ASSUME NEW f \in Flows
               PROVE  WritesOnward(f, Given)' /\ RequestsOnward(f, Given)'
    BY DEF Onward
  <2>1. WritesOnward(f, Given)'
    BY <1>8 DEF IInv, Onward, WritesOnward, Given, mainVars
  <2>2. RequestsOnward(f, Given)'
    BY <1>6, <1>8, <1>9, KeepsSelf DEF RequestsOnward, mainVars
  <2> QED  BY <2>1, <2>2
<1>15. Secure'
  <2>1. AllCovered(operations)' = AllCovered(document) /\ AllCovered(disk)' = AllCovered(disk)
    BY <1>6, <1>8 DEF AllCovered, mainVars
  <2> QED  BY <2>1, <1>1, <1>7, <1>8 DEF IInv, Secure, Given, mainVars
<1>16. Following'
  BY <1>6, <1>8, <1>9 DEF IInv, Following, mainVars
<1> QED  BY <1>10, <1>11, <1>12, <1>13, <1>14, <1>15, <1>16 DEF IInv

---------------------------------------------------------------------------
(* Steps of the main process                                                *)

\* The first request is carried out: what it saves is the document's now.
LEMMA HandleReplaceKeeps == ASSUME IInv, HandleReplace PROVE IInv'
<1> DEFINE r == requests[1]
           f == r.flow
           N == Len(requests)
<1>1. /\ requests \in Seq({Load} \cup Replaces(edits)) /\ requests # <<>>
      /\ requests' = Tail(requests) /\ Head(requests) = r /\ r.kind = "replace"
  BY DEF HandleReplace, IInv, TypedQueues
<1>2. /\ N \in Nat \ {0} /\ DOMAIN requests = 1..N /\ 1 \in DOMAIN requests
      /\ requests' \in Seq({Load} \cup Replaces(edits)) /\ DOMAIN requests' = 1..(N - 1)
      /\ \A i \in 1..(N - 1) : requests'[i] = requests[i + 1]
  BY <1>1
<1>3. r \in Replaces(edits) /\ r # Load
  <2>1. r \in {Load} \cup Replaces(edits)
    BY <1>1, <1>2
  <2>2. Load.kind = "load"
    BY DEF Load
  <2> QED  BY <1>1, <2>1, <2>2
<1>4. r.queue \in Queue(edits) /\ f \in Flows /\ r.save \in Saves
  BY <1>3 DEF Replaces
<1>5. /\ document' = [document EXCEPT ![f] = r.queue] /\ waiters' = waiters \cup {r.save}
      /\ UNCHANGED <<operations, timers, flushing, hydrated, persistence, loaded, writes, disk,
                     saved, applied, gone, edits, dropped, lost, mounts, crashes, faults,
                     writeFaults, mounted, leaving, refetching>>
  BY <1>1 DEF HandleReplace, rendererVars, pageVars, backendVars, historyVars, faultVars
<1>6. document \in Documents(edits)
  BY DEF IInv, TypedQueues
<1>7. document'[f] = r.queue /\ \A g \in Flows : g # f => document'[g] = document[g]
  BY <1>4, <1>5, <1>6 DEF Documents
<1>8. 1 \in Of(f)
  BY <1>2, <1>3 DEF Of
<1>9. hydrated = "done"
  <2> DEFINE l == Load
  <2>1. <<l>>[1] = l
    OBVIOUS
  <2> QED  BY <1>1, <1>3, <2>1 DEF IInv, Phased
<1>10. \A g \in Flows : \A i : i \in Of(g)' <=> (i \in 1..(N - 1) /\ i + 1 \in Of(g))
  <2>1. \A i \in 1..(N - 1) : i + 1 \in 1..N
    BY <1>2
  <2> QED  BY <2>1, <1>2 DEF Of
<1>11. /\ \A g \in Flows : Of(g) \subseteq 1..N
       /\ \A g \in Flows : g # f => 1 \notin Of(g)
       /\ \A i \in 1..N : i = 1 \/ (i - 1 \in 1..(N - 1) /\ i = (i - 1) + 1 /\ i - 1 \in Nat)
  <2>1. \A i \in 1..N : i = 1 \/ (i - 1 \in 1..(N - 1) /\ i = (i - 1) + 1 /\ i - 1 \in Nat)
    BY <1>2
  <2> QED  BY <1>2, <2>1 DEF Of
<1> HIDE DEF r, f, N
<1>12. TypedQueues(edits)'
  <2>1. document' \in Documents(edits)
    BY <1>4, <1>5, <1>6 DEF Documents
  <2> QED  BY <2>1, <1>2, <1>5 DEF IInv, TypedQueues
<1>13. TypedRest'
  <2>1. IsFiniteSet(waiters \cup {r.save})
    BY FS_AddElement DEF IInv, TypedRest, Waiters
  <2>2. waiters' \in Waiters
    BY <2>1, <1>4, <1>5 DEF IInv, TypedRest, Waiters
  <2> QED  BY <2>2, <1>5 DEF IInv, TypedRest
<1>14. Phased'
  <2>1. \A i \in 1..(N - 1) : i + 1 \in 1..N
    BY <1>2
  <2>2. \A i \in DOMAIN requests' : requests'[i] # Load
    BY <1>2, <1>9, <2>1 DEF IInv, Phased
  <2> QED  BY <1>5, <1>9, <2>2 DEF IInv, Phased
<1>15. Batched'
  BY <1>5 DEF IInv, Batched
<1> DEFINE X == Given
<1>16. Given' = X
  BY <1>5 DEF Given
<1>17. \A g \in Flows : WritesOnward(g, X) /\ RequestsOnward(g, X)
  BY DEF IInv, Onward
<1> HIDE DEF X
<1>18. Onward'
  <2> SUFFICES ASSUME NEW g \in Flows
               PROVE  WritesOnward(g, Given)' /\ RequestsOnward(g, Given)'
    BY DEF Onward
  <2>1. Keeps(X, document[g], document'[g])
    <3>1. CASE g = f
      BY <3>1, <1>7, <1>8, <1>17 DEF RequestsOnward, r
    <3>2. CASE g # f
      BY <3>2, <1>7, KeepsSelf
    <3> QED  BY <3>1, <3>2
  <2>2. \A i \in Of(g) : i # 1 => Keeps(X, document'[g], requests[i].queue)
    <3>1. CASE g = f
      <4>1. \A i \in Of(f) : i # 1 => 1 < i
        BY <1>2, <1>11, <1>4
      <4> QED  BY <3>1, <4>1, <1>4, <1>7, <1>8, <1>17 DEF RequestsOnward, r
    <3>2. CASE g # f
      BY <3>2, <1>7, <1>17 DEF RequestsOnward
    <3> QED  BY <3>1, <3>2
  <2>3. Keeps(X, document'[g], operations[g])
    <3>1. CASE g = f
      BY <3>1, <1>4, <1>7, <1>8, <1>9, <1>17 DEF RequestsOnward, r
    <3>2. CASE g # f
      BY <3>2, <1>7, <1>9, <1>17 DEF RequestsOnward
    <3> QED  BY <3>1, <3>2
  <2>4. WritesOnward(g, X)
    BY <1>17
  <2>5. /\ Keeps(X, disk[g], document'[g])
        /\ \A i \in DOMAIN writes : Keeps(X, writes[i].document[g], document'[g])
    BY <2>1, <2>4, KeepsOn DEF WritesOnward
  <2>6. WritesOnward(g, Given)'
    BY <2>4, <2>5, <1>5, <1>16 DEF WritesOnward
  <2>7. ASSUME NEW i \in Of(g)'
        PROVE  /\ Keeps(X, document'[g], requests'[i].queue)
               /\ Keeps(X, requests'[i].queue, operations[g])
               /\ \A j \in Of(g)' : i < j => Keeps(X, requests'[i].queue, requests'[j].queue)
    <3>1. i \in 1..(N - 1) /\ i + 1 \in Of(g) /\ requests'[i] = requests[i + 1] /\ i + 1 # 1
      BY <1>2, <1>10
    <3>2. Keeps(X, requests[i + 1].queue, operations[g])
      BY <3>1, <1>9, <1>17 DEF RequestsOnward
    <3>3. ASSUME NEW j \in Of(g)', i < j
          PROVE  Keeps(X, requests'[i].queue, requests'[j].queue)
      <4>1. j \in 1..(N - 1) /\ j + 1 \in Of(g) /\ requests'[j] = requests[j + 1]
        BY <1>2, <1>10
      <4>2. i + 1 < j + 1
        BY <3>1, <3>3, <4>1
      <4> QED  BY <3>1, <4>1, <4>2, <1>17 DEF RequestsOnward
    <3> QED  BY <3>1, <3>2, <3>3, <2>2
  <2>8. RequestsOnward(g, Given)'
    BY <2>3, <2>7, <1>5, <1>16 DEF RequestsOnward
  <2> QED  BY <2>6, <2>8
<1>19. Secure'
  BY <1>5, <1>9, <1>16 DEF IInv, Secure, AllCovered, X
<1>20. Following'
  <2>1. ASSUME NEW g \in Flows
        PROVE  /\ Of(g)' = {} => document'[g] = operations'[g]
               /\ \A i \in Of(g)' : (\A j \in Of(g)' : j <= i) => requests'[i].queue = operations'[g]
    <3>1. ASSUME Of(g)' = {} PROVE document'[g] = operations'[g]
      <4>1. \A i \in Of(g) : i = 1
        <5> SUFFICES ASSUME NEW i \in Of(g), i # 1 PROVE FALSE
          OBVIOUS
        <5>1. i - 1 \in 1..(N - 1) /\ (i - 1) + 1 \in Of(g)
          BY <1>11
        <5> QED  BY <5>1, <3>1, <1>10
      <4>2. CASE g = f
        <5>1. requests[1].queue = operations[f]
          BY <4>1, <4>2, <1>4, <1>8, <1>9 DEF IInv, Following
        <5> QED  BY <5>1, <4>2, <1>5, <1>7 DEF r
      <4>3. CASE g # f
        <5>1. Of(g) = {}
          BY <4>1, <4>3, <1>11
        <5> QED  BY <5>1, <4>3, <1>5, <1>7, <1>9 DEF IInv, Following
      <4> QED  BY <4>2, <4>3
    <3>2. ASSUME NEW i \in Of(g)', \A j \in Of(g)' : j <= i
          PROVE  requests'[i].queue = operations'[g]
      <4>1. i \in 1..(N - 1) /\ i + 1 \in Of(g) /\ requests'[i] = requests[i + 1]
        BY <1>2, <1>10
      <4>2. ASSUME NEW j \in Of(g) PROVE j <= i + 1
        <5>1. CASE j = 1
          BY <5>1, <4>1
        <5>2. CASE j # 1
          <6>1. j - 1 \in 1..(N - 1) /\ (j - 1) + 1 \in Of(g) /\ j \in 1..N
            BY <5>2, <1>11
          <6>2. j - 1 \in Of(g)'
            BY <6>1, <1>10
          <6>3. j - 1 <= i
            BY <6>2, <3>2
          <6> QED  BY <6>1, <6>3, <4>1
        <5> QED  BY <5>1, <5>2
      <4> QED  BY <4>1, <4>2, <1>5, <1>9 DEF IInv, Following
    <3> QED  BY <3>1, <3>2
  <2>2. waiters' # {}
    BY <1>5
  <2> QED  BY <2>1, <2>2 DEF Following
<1> QED  BY <1>12, <1>13, <1>14, <1>15, <1>18, <1>19, <1>20 DEF IInv

\* A step that changes neither what is to be committed nor the requests.
LEMMA WriteStep ==
    ASSUME IInv, UNCHANGED <<operations, hydrated, ipcVars, document, applied, dropped, lost>>,
           edits' = edits,
           writes' \in Seq(Writes(edits)), disk' \in Documents(edits), saved' \subseteq 0..edits,
           flushing' \in [Flows -> Flushes(edits)],
           \A f \in Flows : flushing'[f] = flushing[f] \/ flushing'[f].phase = "idle",
           TypedRest',
           \A f \in Flows : WritesOnward(f, Given)',
           saved' \subseteq Given \cup AllCovered(disk'),
           (waiters = {} /\ writeFaults = 0 =>
              document = IF writes = <<>> THEN disk ELSE writes[Len(writes)].document)'
    PROVE  IInv'
<1>1. TypedQueues(edits)'
  BY DEF IInv, TypedQueues, ipcVars
<1>2. Phased'
  BY DEF IInv, Phased, ipcVars
<1>3. Batched'
  <2> SUFFICES ASSUME NEW f \in Flows
               PROVE  /\ flushing'[f].phase \in {"sent", "applied"} =>
                           \A i \in DOMAIN operations[f] :
                               operations[f][i].id \in Ids(flushing'[f].batch) =>
                                   operations[f][i].covers \subseteq Covered(flushing'[f].batch)
                      /\ flushing'[f].phase = "applied" =>
                           Covered(flushing'[f].batch) \subseteq applied
    BY DEF Batched, Ids, Covered
  <2> QED  BY DEF IInv, Batched
<1>4. Onward'
  <2> SUFFICES ASSUME NEW f \in Flows PROVE RequestsOnward(f, Given)'
    BY DEF Onward
  <2> QED  BY DEF IInv, Onward, RequestsOnward, Of, Given, ipcVars
<1>5. Secure'
  BY DEF IInv, Secure, Given, AllCovered
<1>6. Following'
  BY DEF IInv, Following, Of, ipcVars
<1> QED  BY <1>1, <1>2, <1>3, <1>4, <1>5, <1>6 DEF IInv

LEMMA WriteTimerKeeps == ASSUME IInv, WriteTimer PROVE IInv'
<1> DEFINE w == [document |-> document, waiters |-> waiters]
           N == Len(writes)
<1>1. /\ UNCHANGED <<operations, hydrated, flushing, ipcVars, document, applied, dropped, lost,
                     disk, saved, edits, writeFaults>>
      /\ writes' = Append(writes, w) /\ waiters' = {}
  BY DEF WriteTimer, rendererVars, backendVars, historyVars, faultVars
<1>2. w \in Writes(edits) /\ w.document = document
  BY DEF Writes, IInv, TypedQueues, TypedRest
<1>3. /\ writes \in Seq(Writes(edits)) /\ N \in Nat /\ DOMAIN writes = 1..N
  BY DEF IInv, TypedQueues
<1> HIDE DEF w
<1>4. /\ writes' \in Seq(Writes(edits)) /\ DOMAIN writes' = 1..(N + 1) /\ Len(writes') = N + 1
      /\ writes' # <<>> /\ writes'[N + 1].document = document
      /\ \A i \in 1..N : writes'[i] = writes[i]
  BY <1>1, <1>2, <1>3
<1>5. \A i \in 1..(N + 1) : (i = N + 1 \/ i \in 1..N) /\ (i = N + 1 => ~\E j \in 1..(N + 1) : i < j)
  BY <1>3
<1>6. TypedRest'
  <2>1. {} \in Waiters
    BY FS_EmptySet DEF Waiters
  <2> QED  BY <1>1, <2>1 DEF IInv, TypedRest, WriteTimer, rendererVars, pageVars, backendVars,
                             historyVars, faultVars
<1>7. ASSUME NEW f \in Flows PROVE WritesOnward(f, Given)'
  <2> DEFINE X == Given
  <2>1. WritesOnward(f, X) /\ Given' = X
    BY <1>1 DEF IInv, Onward, Given
  <2> HIDE DEF X
  <2>2. ASSUME NEW i \in 1..(N + 1)
        PROVE  /\ Keeps(X, disk[f], writes'[i].document[f])
               /\ Keeps(X, writes'[i].document[f], document[f])
               /\ \A j \in 1..(N + 1) :
                    i < j => Keeps(X, writes'[i].document[f], writes'[j].document[f])
    <3>1. CASE i = N + 1
      BY <3>1, <2>1, <1>4, <1>5, KeepsSelf DEF WritesOnward
    <3>2. CASE i \in 1..N
      <4>1. /\ Keeps(X, disk[f], writes'[i].document[f])
            /\ Keeps(X, writes'[i].document[f], document[f])
        BY <3>2, <2>1, <1>3, <1>4 DEF WritesOnward
      <4>2. ASSUME NEW j \in 1..(N + 1), i < j
            PROVE  Keeps(X, writes'[i].document[f], writes'[j].document[f])
        <5>1. CASE j = N + 1
          BY <5>1, <4>1, <1>4
        <5>2. CASE j \in 1..N
          BY <5>2, <4>2, <3>2, <2>1, <1>3, <1>4 DEF WritesOnward
        <5> QED  BY <5>1, <5>2, <1>5
      <4> QED  BY <4>1, <4>2
    <3> QED  BY <3>1, <3>2, <1>5
  <2> QED  BY <1>1, <1>4, <2>1, <2>2 DEF WritesOnward
<1>8. saved' \subseteq Given \cup AllCovered(disk') /\ saved' \subseteq 0..edits
  BY <1>1 DEF IInv, Secure, TypedQueues
<1>9. (waiters = {} /\ writeFaults = 0 =>
         document = IF writes = <<>> THEN disk ELSE writes[Len(writes)].document)'
  BY <1>1, <1>4
<1>10. disk' \in Documents(edits) /\ flushing' \in [Flows -> Flushes(edits)]
  BY <1>1 DEF IInv, TypedQueues
<1> QED  BY <1>1, <1>4, <1>6, <1>7, <1>8, <1>9, <1>10, WriteStep

\* The first write leaves the queue of writes.
LEMMA WriteTaken ==
    ASSUME IInv, writes # <<>>, writes' = Tail(writes)
    PROVE  /\ Len(writes) \in Nat \ {0} /\ 1 \in DOMAIN writes /\ Head(writes) = writes[1]
           /\ writes \in Seq(Writes(edits)) /\ writes[1] \in Writes(edits)
           /\ writes' \in Seq(Writes(edits))
           /\ DOMAIN writes = 1..Len(writes) /\ DOMAIN writes' = 1..(Len(writes) - 1)
           /\ Len(writes') = Len(writes) - 1
           /\ writes' = <<>> => Len(writes) = 1
           /\ \A i \in DOMAIN writes' :
                /\ writes'[i] = writes[i + 1] /\ i + 1 \in DOMAIN writes /\ 1 < i + 1
                /\ \A j \in DOMAIN writes' : i < j => i + 1 < j + 1
           /\ writes' # <<>> => writes'[Len(writes')] = writes[Len(writes)]
<1> DEFINE N == Len(writes)
<1>1. writes \in Seq(Writes(edits)) /\ writes # <<>>
  BY DEF IInv, TypedQueues
<1>2. N \in Nat \ {0} /\ 1 \in DOMAIN writes /\ Head(writes) = writes[1] /\ DOMAIN writes = 1..N
  BY <1>1
<1>3. /\ writes' \in Seq(Writes(edits)) /\ DOMAIN writes' = 1..(N - 1) /\ Len(writes') = N - 1
      /\ \A i \in 1..(N - 1) : writes'[i] = writes[i + 1]
  BY <1>1
<1>4. ASSUME writes' = <<>> PROVE N = 1
  <2>1. Len(<<>>) = 0
    BY SMT
  <2>2. Len(writes') = 0
    BY Zenon, <2>1, <1>4
  <2>3. N - 1 = 0 /\ N \in Nat
    BY <2>2, <1>2, <1>3
  <2> HIDE DEF N
  <2> QED  BY <2>3
<1>5. writes' # <<>> => writes'[Len(writes')] = writes[N]
  <2>1. writes' # <<>> => Len(writes') \in 1..(N - 1) /\ (N - 1) + 1 = N
    BY <1>2, <1>3
  <2> QED  BY <2>1, <1>3
<1>6. \A i \in 1..(N - 1) : i + 1 \in 1..N /\ 1 < i + 1 /\ \A j \in 1..(N - 1) : i < j => i + 1 < j + 1
  BY <1>2
<1>7. writes[1] \in Writes(edits)
  BY <1>1, <1>2
<1> QED  BY <1>1, <1>2, <1>3, <1>4, <1>5, <1>6, <1>7

LEMMA Settled ==
    ASSUME IInv, NEW W, Settle(W)
    PROVE  persistence' \in [Flows -> Nat]
BY DEF Settle, IInv, TypedRest

LEMMA WriteDoneKeeps == ASSUME IInv, WriteDone PROVE IInv'
<1>1. /\ UNCHANGED <<operations, hydrated, flushing, ipcVars, document, waiters, applied, dropped,
                     lost, edits, writeFaults>>
      /\ writes # <<>> /\ writes' = Tail(writes) /\ disk' = Head(writes).document
      /\ saved' = saved \cup AllCovered(disk') /\ Settle(Head(writes).waiters)
  BY DEF WriteDone, backendVars, historyVars, faultVars
<1> DEFINE N == Len(writes)
<1>2. /\ N \in Nat \ {0} /\ 1 \in DOMAIN writes /\ Head(writes) = writes[1]
      /\ writes[1] \in Writes(edits) /\ writes' \in Seq(Writes(edits))
      /\ DOMAIN writes = 1..N /\ DOMAIN writes' = 1..(N - 1) /\ Len(writes') = N - 1
      /\ writes' = <<>> => N = 1
      /\ \A i \in DOMAIN writes' :
           /\ writes'[i] = writes[i + 1] /\ i + 1 \in DOMAIN writes /\ 1 < i + 1
           /\ \A j \in DOMAIN writes' : i < j => i + 1 < j + 1
      /\ writes' # <<>> => writes'[Len(writes')] = writes[N]
  BY <1>1, WriteTaken
<1>3. disk' = writes[1].document /\ disk' \in Documents(edits) /\ edits \in Nat
  BY <1>1, <1>2 DEF Writes, IInv, TypedRest, Edits
<1>4. TypedRest'
  <2>1. persistence' \in [Flows -> Nat]
    BY <1>1, Settled
  <2> QED  BY <1>1, <2>1 DEF IInv, TypedRest, WriteDone, pageVars, backendVars, historyVars,
                             faultVars
<1>5. \A f \in Flows : WritesOnward(f, Given)
  BY DEF IInv, Onward
<1>6. ASSUME NEW f \in Flows PROVE WritesOnward(f, Given)'
  <2> DEFINE X == Given
  <2>1. WritesOnward(f, X) /\ Given' = X
    BY <1>1, <1>5 DEF Given
  <2> HIDE DEF X
  <2>2. Keeps(X, disk'[f], document[f])
    BY <2>1, <1>2, <1>3 DEF WritesOnward
  <2>3. ASSUME NEW i \in DOMAIN writes'
        PROVE  /\ Keeps(X, disk'[f], writes'[i].document[f])
               /\ Keeps(X, writes'[i].document[f], document[f])
               /\ \A j \in DOMAIN writes' :
                    i < j => Keeps(X, writes'[i].document[f], writes'[j].document[f])
    BY <2>1, <1>2, <1>3 DEF WritesOnward
  <2> QED  BY <1>1, <2>1, <2>2, <2>3 DEF WritesOnward
<1>7. saved' \subseteq Given \cup AllCovered(disk')
  <2>1. saved \subseteq Given \cup AllCovered(disk)
    BY DEF IInv, Secure
  <2>2. ASSUME NEW e \in AllCovered(disk) PROVE e \in Given \/ e \in AllCovered(disk')
    <3>1. PICK f \in Flows : e \in Covered(disk[f])
      BY InAllCovered
    <3>2. e \in Covered(disk'[f]) \/ e \in Given
      BY <3>1, <1>2, <1>3, <1>5 DEF WritesOnward, Keeps
    <3> QED  BY <3>2, InAllCovered
  <2> QED  BY <2>1, <2>2, <1>1
<1>8. saved' \subseteq 0..edits
  <2>1. AllCovered(disk') \subseteq 0..edits
    BY <1>3, CoveredMade
  <2> QED  BY <2>1, <1>1 DEF IInv, TypedQueues
<1>9. (waiters = {} /\ writeFaults = 0 =>
         document = IF writes = <<>> THEN disk ELSE writes[Len(writes)].document)'
  <2>1. waiters = {} /\ writeFaults = 0 => document = writes[N].document
    BY <1>1 DEF IInv, Following
  <2> QED  BY <2>1, <1>1, <1>2, <1>3
<1>10. flushing' \in [Flows -> Flushes(edits)]
  BY <1>1 DEF IInv, TypedQueues
<1> QED  BY <1>1, <1>2, <1>3, <1>4, <1>6, <1>7, <1>8, <1>9, <1>10, WriteStep

LEMMA WriteFailsKeeps == ASSUME IInv, WriteFails PROVE IInv'
<1> DEFINE settled == Head(writes).waiters
           failed == {f \in Flows : flushing[f].phase = "persist" /\ flushing[f].save \in settled}
<1>1. /\ UNCHANGED <<operations, hydrated, ipcVars, document, waiters, applied, dropped,
                     lost, edits, disk, saved>>
      /\ writes # <<>> /\ writes' = Tail(writes) /\ Settle(settled)
      /\ writeFaults < MaxWriteFaults /\ writeFaults' = writeFaults + 1
      /\ flushing' = [f \in Flows |-> IF f \in failed THEN Idle ELSE flushing[f]]
      /\ timers' = timers \cup {f \in failed : operations[f] # <<>>}
      /\ \E f \in Flows : refetching' \in
             {refetching, IF mounted # 0 THEN refetching \cup {f} ELSE refetching}
  BY DEF WriteFails, backendVars, historyVars
<1>f. failed \subseteq Flows
  OBVIOUS
<1>2. /\ Len(writes) \in Nat \ {0} /\ 1 \in DOMAIN writes
      /\ writes' \in Seq(Writes(edits))
      /\ \A i \in DOMAIN writes' :
           /\ writes'[i] = writes[i + 1] /\ i + 1 \in DOMAIN writes /\ 1 < i + 1
           /\ \A j \in DOMAIN writes' : i < j => i + 1 < j + 1
  BY <1>1, WriteTaken
<1> HIDE DEF failed, settled
<1>3. writeFaults' \in 0..MaxWriteFaults /\ writeFaults' # 0
  <2>1. writeFaults \in 0..MaxWriteFaults /\ MaxWriteFaults \in Nat
    BY BoundsAssumption DEF IInv, TypedRest
  <2> QED  BY <2>1, <1>1
<1>4. TypedRest'
  <2>1. persistence' \in [Flows -> Nat]
    BY <1>1, Settled
  <2>2. timers' \subseteq Flows /\ refetching' \subseteq Flows
    BY <1>1, <1>f DEF IInv, TypedRest
  <2> QED  BY <1>1, <1>3, <2>1, <2>2 DEF IInv, TypedRest, WriteFails, backendVars, historyVars
<1>5. ASSUME NEW f \in Flows PROVE WritesOnward(f, Given)'
  <2> DEFINE X == Given
  <2>1. WritesOnward(f, X) /\ Given' = X
    BY <1>1 DEF IInv, Onward, Given
  <2> HIDE DEF X
  <2> QED  BY <1>1, <1>2, <2>1 DEF WritesOnward
<1>6. saved' \subseteq Given \cup AllCovered(disk') /\ saved' \subseteq 0..edits
  BY <1>1 DEF IInv, Secure, TypedQueues
<1>7. disk' \in Documents(edits) /\ flushing \in [Flows -> Flushes(edits)] /\ edits \in Nat
  BY <1>1 DEF IInv, TypedQueues, TypedRest, Edits
<1>8. /\ flushing' \in [Flows -> Flushes(edits)]
      /\ \A f \in Flows : flushing'[f] = flushing[f] \/ flushing'[f].phase = "idle"
  <2>1. Idle \in Flushes(edits) /\ Idle.phase = "idle"
    BY <1>7, IdleFlush
  <2> QED  BY <2>1, <1>1, <1>7
<1>9. (waiters = {} /\ writeFaults = 0 =>
         document = IF writes = <<>> THEN disk ELSE writes[Len(writes)].document)'
  BY <1>3
<1> QED  BY <1>1, <1>2, <1>4, <1>5, <1>6, <1>7, <1>8, <1>9, WriteStep

---------------------------------------------------------------------------
(* Crashes                                                                  *)

LEMMA ResetIs ==
    ASSUME IInv, ResetRenderer
    PROVE  /\ operations' \in Documents(edits) /\ edits' = edits /\ edits \in Nat
           /\ flushing' \in [Flows -> Flushes(edits)]
           /\ requests' \in Seq({Load} \cup Replaces(edits))
           /\ requests' = <<>> /\ hydrated' # "done" /\ Phased'
           /\ applied' = applied /\ dropped' = dropped /\ writeFaults' = writeFaults
           /\ waiters' \in Waiters => TypedRest'
           /\ AllCovered(operations) \cup AllCovered(document) \subseteq 0..edits
<1>1. edits \in Nat /\ operations \in Documents(edits) /\ document \in Documents(edits)
  BY DEF IInv, TypedQueues, TypedRest, Edits
<1>2. /\ operations' = [f \in Flows |-> <<>>] /\ edits' = edits
      /\ flushing' = [f \in Flows |-> Idle] /\ requests' = <<>> /\ loaded' = <<>>
      /\ hydrated' = "no" /\ applied' = applied /\ dropped' = dropped
      /\ writeFaults' = writeFaults
  BY DEF ResetRenderer, backendVars, faultVars
<1>3. operations' \in Documents(edits)
  BY <1>1, <1>2, EmptyQueues
<1>4. flushing' \in [Flows -> Flushes(edits)] /\ \A f \in Flows : flushing'[f].phase = "idle"
  BY <1>1, <1>2, IdleFlush
<1>5. Phased'
  BY <1>2, <1>4 DEF Phased
<1>6. ASSUME waiters' \in Waiters PROVE TypedRest'
  <2>1. crashes' \in 0..MaxCrashes /\ 0 \in 0..MaxMounts
    <3>1. crashes \in 0..MaxCrashes /\ crashes < MaxCrashes /\ crashes' = crashes + 1
          /\ MaxCrashes \in Nat /\ MaxMounts \in Nat
      BY BoundsAssumption DEF ResetRenderer, IInv, TypedRest
    <3> QED  BY <3>1
  <2>2. persistence' \in [Flows -> Nat]
    BY DEF ResetRenderer
  <2> QED  BY <1>6, <2>1, <2>2 DEF IInv, TypedRest, ResetRenderer, backendVars, faultVars
<1>7. AllCovered(operations) \cup AllCovered(document) \subseteq 0..edits
  BY <1>1, CoveredMade
<1>8. requests' \in Seq({Load} \cup Replaces(edits))
  BY <1>2
<1> QED  BY <1>1, <1>2, <1>3, <1>4, <1>5, <1>6, <1>7, <1>8

\* What has been saved, the document has by now.
LEMMA SavedIsKept ==
    ASSUME IInv, NEW e \in saved
    PROVE  e \in Given \/ e \in AllCovered(document)
<1>1. e \in Given \/ e \in AllCovered(disk)
  BY DEF IInv, Secure
<1>2. ASSUME NEW f \in Flows, e \in Covered(disk[f])
      PROVE  e \in Given \/ e \in Covered(document[f])
  <2>1. Keeps(Given, disk[f], document[f])
    BY DEF IInv, Onward, WritesOnward
  <2> QED  BY <1>2, <2>1 DEF Keeps
<1> QED  BY <1>1, <1>2, InAllCovered

\* Every edit is somewhere.
LEMMA MadeIsSomewhere ==
    ASSUME IInv
    PROVE  0..edits \subseteq Given \cup AllCovered(operations) \cup AllCovered(document)
BY DEF IInv, Secure

LEMMA ReloadKeeps == ASSUME IInv, Reload PROVE IInv'
<1>1. /\ ResetRenderer /\ UNCHANGED mainVars
      /\ lost' = lost \cup (AllCovered(operations) \ (saved \cup AllCovered(document)))
  BY DEF Reload
<1>2. /\ operations' \in Documents(edits) /\ edits' = edits /\ edits \in Nat
      /\ flushing' \in [Flows -> Flushes(edits)]
      /\ requests' \in Seq({Load} \cup Replaces(edits))
      /\ requests' = <<>> /\ hydrated' # "done" /\ Phased'
      /\ applied' = applied /\ dropped' = dropped /\ writeFaults' = writeFaults
      /\ waiters' \in Waiters => TypedRest'
      /\ AllCovered(operations) \cup AllCovered(document) \subseteq 0..edits
  BY <1>1, ResetIs
<1>3. TypedRest'
  BY <1>1, <1>2 DEF IInv, TypedRest, mainVars
<1>4. TypedQueues(edits)'
  BY <1>1, <1>2 DEF IInv, TypedQueues, mainVars
<1>5. Given \subseteq Given'
  BY <1>1, <1>2 DEF Given
<1>6. \A f \in Flows : WritesOnward(f, Given)'
  <2> SUFFICES ASSUME NEW f \in Flows PROVE WritesOnward(f, Given)'
    OBVIOUS
  <2>1. WritesOnward(f, Given')
    BY <1>5, WritesMore DEF IInv, Onward
  <2> QED  BY <1>1, <2>1 DEF WritesOnward, mainVars
<1>7. /\ AllCovered(disk)' = AllCovered(disk) /\ AllCovered(document)' = AllCovered(document)
      /\ saved' = saved
  BY <1>1 DEF AllCovered, mainVars
<1>8. Secure'
  <2>1. saved' \subseteq Given' \cup AllCovered(disk)'
    BY <1>5, <1>7 DEF IInv, Secure
  <2>2. ASSUME NEW e \in 0..edits PROVE e \in Given' \cup AllCovered(document)
    <3>1. e \in Given \/ e \in AllCovered(operations) \/ e \in AllCovered(document)
      BY MadeIsSomewhere
    <3>2. CASE e \in saved
      BY <3>2, <1>5, SavedIsKept
    <3>3. CASE e \in AllCovered(operations) /\ e \notin saved /\ e \notin AllCovered(document)
      BY <3>3, <1>1 DEF Given
    <3> QED  BY <3>1, <3>2, <3>3, <1>5
  <2> QED  BY <2>1, <2>2, <1>2, <1>7 DEF Secure
<1>9. (waiters = {} /\ writeFaults = 0 =>
         document = IF writes = <<>> THEN disk ELSE writes[Len(writes)].document)'
  BY <1>1, <1>2 DEF IInv, Following, mainVars
<1> QED  BY <1>2, <1>3, <1>4, <1>6, <1>8, <1>9, WaitingStep

LEMMA CrashKeeps == ASSUME IInv, Crash PROVE IInv'
<1>1. /\ ResetRenderer /\ disk' = disk /\ saved' = saved
      /\ lost' = lost \cup ((AllCovered(operations) \cup AllCovered(document)) \ saved)
      /\ document' = disk /\ waiters' = {} /\ writes' = <<>>
  BY DEF Crash
<1>2. /\ operations' \in Documents(edits) /\ edits' = edits /\ edits \in Nat
      /\ flushing' \in [Flows -> Flushes(edits)]
      /\ requests' \in Seq({Load} \cup Replaces(edits))
      /\ requests' = <<>> /\ hydrated' # "done" /\ Phased'
      /\ applied' = applied /\ dropped' = dropped /\ writeFaults' = writeFaults
      /\ waiters' \in Waiters => TypedRest'
      /\ AllCovered(operations) \cup AllCovered(document) \subseteq 0..edits
  BY <1>1, ResetIs
<1>3. TypedRest'
  <2>1. {} \in Waiters
    BY FS_EmptySet DEF Waiters
  <2> QED  BY <2>1, <1>1, <1>2
<1>4. TypedQueues(edits)'
  <2>1. <<>> \in Seq(Writes(edits))
    OBVIOUS
  <2> QED  BY <2>1, <1>1, <1>2 DEF IInv, TypedQueues
<1>5. Given \subseteq Given'
  BY <1>1, <1>2 DEF Given
<1>6. \A f \in Flows : WritesOnward(f, Given)'
  BY <1>1, KeepsSelf DEF WritesOnward
<1>7. /\ AllCovered(disk)' = AllCovered(disk) /\ AllCovered(document)' = AllCovered(disk)
  BY <1>1 DEF AllCovered
<1>8. Secure'
  <2>1. saved \subseteq Given' \cup AllCovered(disk)
    BY <1>5 DEF IInv, Secure
  <2>2. ASSUME NEW e \in 0..edits PROVE e \in Given' \cup AllCovered(disk)
    <3>1. e \in Given \/ e \in AllCovered(operations) \/ e \in AllCovered(document)
      BY MadeIsSomewhere
    <3>2. CASE e \in saved
      BY <3>2, <2>1
    <3>3. CASE (e \in AllCovered(operations) \/ e \in AllCovered(document)) /\ e \notin saved
      BY <3>3, <1>1 DEF Given
    <3> QED  BY <3>1, <3>2, <3>3, <1>5
  <2> QED  BY <2>1, <2>2, <1>1, <1>2, <1>7 DEF Secure
<1>9. (waiters = {} /\ writeFaults = 0 =>
         document = IF writes = <<>> THEN disk ELSE writes[Len(writes)].document)'
  BY <1>1
<1> QED  BY <1>2, <1>3, <1>4, <1>6, <1>8, <1>9, WaitingStep

---------------------------------------------------------------------------
(* The invariant                                                            *)

LEMMA InitKeeps == Init => IInv
<1> SUFFICES ASSUME Init PROVE IInv
  OBVIOUS
<1>1. PICK f \in Flows, kind \in MergeKinds :
        disk = [[g \in Flows |-> <<>>] EXCEPT ![f] = <<Recovered(kind)>>]
  BY DEF Init
<1>2. /\ document = disk /\ waiters = {} /\ writes = <<>> /\ requests = <<>> /\ loaded = <<>>
      /\ operations = [g \in Flows |-> <<>>] /\ flushing = [g \in Flows |-> Idle]
      /\ hydrated = "no" /\ edits = 0 /\ saved = {0} /\ applied = {} /\ dropped = {} /\ lost = {}
  BY DEF Init
<1>3. 0 \in Nat /\ 0..0 = {0}
  OBVIOUS
<1> DEFINE one == <<Recovered(kind)>>
<1>4. one \in Queue(0) /\ Covered(one) = {0}
  <2> DEFINE op == Recovered(kind)
  <2>1. op \in Made(0) /\ op.covers = {0}
    BY <1>3 DEF Made, Recovered
  <2> HIDE DEF op
  <2>2. <<op>> \in Seq(Made(0)) /\ DOMAIN <<op>> = {1} /\ <<op>>[1] = op
    BY <2>1
  <2>3. Coalesced(<<op>>)
    BY <2>2 DEF Coalesced
  <2>4. Covered(<<op>>) = {0}
    BY <2>1, <2>2 DEF Covered
  <2> QED  BY <2>2, <2>3, <2>4 DEF Queue, op
<1> HIDE DEF one
<1>5. disk \in Documents(0) /\ disk[f] = one
  BY <1>1, <1>3, <1>4, EmptyQueue DEF Documents, one
<1>6. 0 \in AllCovered(disk)
  BY <1>4, <1>5, InAllCovered
<1>7. TypedQueues(edits)
  <2>1. operations \in Documents(0)
    BY <1>2, <1>3, EmptyQueues
  <2>2. flushing \in [Flows -> Flushes(0)]
    BY <1>2, <1>3, IdleFlush
  <2>3. <<>> \in Seq({Load} \cup Replaces(0)) /\ <<>> \in Seq(Writes(0))
    OBVIOUS
  <2> QED  BY <2>1, <2>2, <2>3, <1>2, <1>3, <1>5 DEF TypedQueues
<1>8. TypedRest
  <2>1. {} \in Waiters
    BY FS_EmptySet DEF Waiters
  <2>2. /\ 0 \in 0..MaxMounts /\ 0 \in Edits /\ 0 \in 0..MaxCrashes
        /\ 0 \in 0..MaxFaults /\ 0 \in 0..MaxWriteFaults
    BY BoundsAssumption DEF Edits
  <2>3. [g \in Flows |-> 0] \in [Flows -> Nat]
    OBVIOUS
  <2> QED  BY <2>1, <2>2, <2>3 DEF Init, TypedRest
<1>9. Phased
  BY <1>2, <1>3, IdleFlush DEF Phased
<1>10. Batched
  BY <1>2, <1>3, IdleFlush DEF Batched
<1>11. Onward
  BY <1>2, KeepsSelf DEF Onward, WritesOnward, RequestsOnward, Of
<1>12. Secure
  BY <1>2, <1>3, <1>6 DEF Secure
<1>13. Following
  BY <1>2 DEF Following
<1> QED  BY <1>7, <1>8, <1>9, <1>10, <1>11, <1>12, <1>13 DEF IInv

LEMMA StutterKeeps == ASSUME IInv, UNCHANGED vars PROVE IInv'
<1>1. TypedRest'
  BY DEF IInv, TypedRest, vars, rendererVars, pageVars, ipcVars, mainVars, backendVars,
         historyVars, faultVars
<1> QED  BY <1>1, SameIsQuiet DEF vars, rendererVars, pageVars, ipcVars, mainVars, backendVars,
                                  historyVars, faultVars

LEMMA StepKeeps == IInv /\ [Next /\ Patient]_vars => IInv'
<1> SUFFICES ASSUME IInv, [Next /\ Patient]_vars PROVE IInv'
  OBVIOUS
<1>1. CASE Connect        BY <1>1, ConnectKeeps
<1>2. CASE Unmount        BY <1>2, UnmountKeeps
<1>3. CASE LoadAnswered   BY <1>3, LoadAnsweredKeeps
<1>4. CASE HandleLoad     BY <1>4, HandleLoadKeeps
<1>5. CASE HandleReplace  BY <1>5, HandleReplaceKeeps
<1>6. CASE WriteTimer     BY <1>6, WriteTimerKeeps
<1>7. CASE WriteDone      BY <1>7, WriteDoneKeeps
<1>8. CASE WriteFails     BY <1>8, WriteFailsKeeps
<1>9. CASE Reload         BY <1>9, ReloadKeeps
<1>10. CASE Crash         BY <1>10, CrashKeeps
<1>11. ASSUME NEW c \in leaving, Disconnect(c) PROVE IInv'
  BY <1>11, DisconnectKeeps
<1>12. ASSUME NEW f \in Flows, Loaded(f) PROVE IInv'
  BY <1>12, LoadedKeeps
<1>13. ASSUME NEW f \in Flows, Persisted(f) PROVE IInv'
  BY <1>13, PersistedKeeps
<1>14. ASSUME NEW f \in Flows, Acknowledge(f) PROVE IInv'
  BY <1>14, AcknowledgeKeeps
<1>15. ASSUME NEW f \in Flows, Refetched(f) PROVE IInv'
  BY <1>15, RefetchedKeeps
<1>16. ASSUME NEW f \in Flows, TimerFires(f) PROVE IInv'
  BY <1>16, TimerFiresKeeps
<1>17. ASSUME NEW f \in Flows, Flush(f) PROVE IInv'
  BY <1>17, FlushKeeps
<1>18. ASSUME NEW f \in Flows, Apply(f) PROVE IInv'
  BY <1>18, ApplyKeeps
<1>19. ASSUME NEW f \in Flows, Discard(f) PROVE IInv'
  BY <1>19, DiscardKeeps
<1>20. ASSUME NEW f \in Flows, CommitFails(f) PROVE IInv'
  BY <1>20, CommitFailsKeeps
<1>21. ASSUME NEW f \in Flows, DeleteFlow(f) PROVE IInv'
  BY <1>21, DeleteFlowKeeps
<1>22. ASSUME NEW f \in Flows, NEW kind \in MergeKinds, Enqueue(f, kind), Patient PROVE IInv'
  BY <1>22, EnqueueKeeps
<1>23. CASE UNCHANGED vars  BY <1>23, StutterKeeps
<1> QED
  BY <1>1, <1>2, <1>3, <1>4, <1>5, <1>6, <1>7, <1>8, <1>9, <1>10, <1>11, <1>12, <1>13, <1>14,
     <1>15, <1>16, <1>17, <1>18, <1>19, <1>20, <1>21, <1>22, <1>23
  DEF Next, MainStep, RendererStep

LEMMA Invariance == PatientSpec => []IInv
BY InitKeeps, StepKeeps, PTL DEF PatientSpec

---------------------------------------------------------------------------
(* The theorems                                                             *)

LEMMA Typed == IInv => TypeOK
<1> SUFFICES ASSUME IInv PROVE TypeOK
  OBVIOUS
<1>1. edits \in Nat /\ 0..edits \subseteq Edits
  <2>1. edits \in 0..MaxEdits /\ MaxEdits \in Nat
    BY BoundsAssumption DEF IInv, TypedRest, Edits
  <2> QED  BY <2>1 DEF Edits
<1>2. Made(edits) \subseteq Operation
  BY <1>1 DEF Made, Operation
<1>3. ASSUME NEW S, NEW T, S \subseteq T PROVE Seq(S) \subseteq Seq(T)
  BY <1>3
<1>4. Seq(Made(edits)) \subseteq Seq(Operation)
  BY <1>2, <1>3
<1>5. Documents(edits) \subseteq Queues
  BY <1>4 DEF Documents, Queue, Queues
<1>6. operations \in Queues /\ document \in Queues /\ disk \in Queues
  BY <1>5 DEF IInv, TypedQueues
<1>7. \A f \in Flows : Coalesced(operations[f])
  BY DEF IInv, TypedQueues, Documents, Queue
<1>8. flushing \in [Flows -> [phase : {"idle", "hydrate", "persist", "sent", "applied"},
                              save : Nat, batch : Seq(Operation)]]
  BY <1>4 DEF IInv, TypedQueues, Flushes
<1>9. \A i \in DOMAIN requests : requests[i].kind \in {"load", "replace"}
  <2>1. \A i \in DOMAIN requests : requests[i] \in {Load} \cup Replaces(edits)
    BY DEF IInv, TypedQueues
  <2> QED  BY <2>1 DEF Load, Replaces
<1>10. writes \in Seq([document : Queues, waiters : SUBSET Saves])
  <2>1. Writes(edits) \subseteq [document : Queues, waiters : SUBSET Saves]
    BY <1>5 DEF Writes, Waiters
  <2> QED  BY <2>1, <1>3 DEF IInv, TypedQueues
<1>11. loaded # <<>> => loaded[1] \in Queues
  <2> DEFINE d == document
  <2>1. <<d>>[1] = d
    OBVIOUS
  <2> QED  BY <2>1, <1>6 DEF IInv, Phased
<1> QED  BY <1>6, <1>7, <1>8, <1>9, <1>10, <1>11
         DEF IInv, TypedQueues, TypedRest, Phased, Waiters, TypeOK

\* TypeOK is an invariant; above all the operations of one queue have ids of
\* their own and one at most merges by key, in memory and on disk (enqueue,
\* acknowledge and hydrate of the renderer's flow-operation-outbox.ts).
THEOREM TypeCorrect == PatientSpec => []TypeOK
BY Invariance, Typed, PTL

\* NoEditVanishes, for any number of Flows, edits, failures, reloads and
\* crashes: an edit is applied, or was dropped with its Flow, or was lost to a
\* crash before it was on disk, or one of the two outboxes has it, however
\* saves, writes and answers overlap (flushNow, acknowledge and persist of the
\* renderer's flow-operation-outbox.ts, the debounced write of the main one's).
THEOREM NoEditIsLost == PatientSpec => []NoEditVanishes
<1>1. IInv => NoEditVanishes
  <2> SUFFICES ASSUME IInv, NEW e \in 0..edits, e \notin Given
               PROVE  e \in AllCovered(operations) \cup (IF hydrated = "done" THEN {} ELSE Stored)
    BY DEF NoEditVanishes, Given
  <2> QED  BY DEF IInv, Secure, Stored
<1> QED  BY <1>1, Invariance, PTL

\* DiskFollowsMemory, for any number of Flows, edits and crashes: when no
\* request, timer or write is left and none has failed, the file has exactly the
\* queues of the renderer, in spite of the writes that overlapped (persist of
\* the renderer's flow-operation-outbox.ts; replaceFlowOperations, scheduleOutboxWrite and
\* writeTail of the main one's).
THEOREM DiskIsCurrent == PatientSpec => []DiskFollowsMemory
<1>1. IInv => DiskFollowsMemory
  <2> SUFFICES ASSUME IInv, hydrated = "done", MainQuiet, writeFaults = 0
               PROVE  disk = operations
    BY DEF DiskFollowsMemory
  <2>1. requests = <<>> /\ disk = document
    BY DEF MainQuiet, IInv, Following
  <2>2. \A f \in Flows : document[f] = operations[f]
    <3>1. \A f \in Flows : Of(f) = {}
      BY <2>1 DEF Of
    <3> QED  BY <3>1 DEF IInv, Following
  <2>3. document \in Documents(edits) /\ operations \in Documents(edits)
    BY DEF IInv, TypedQueues
  <2> QED  BY <2>1, <2>2, <2>3 DEF Documents
<1> QED  BY <1>1, Invariance, PTL

---------------------------------------------------------------------------
(* FlowEdits: the inductive invariant                                       *)

Accepted(batch) == {batch[i].id : i \in DOMAIN batch}

\* Operations with one of the first n mutationIds.
Known(n) == {op \in FlowOperation : op.id \in 1..n}

\* No later operation of the node is a layout, or creates it again.
Arranged(queue) ==
    \A i, j \in DOMAIN queue :
        i < j /\ queue[i].kind = "layout" /\ queue[j].node = queue[i].node
            => queue[j].kind \notin {"layout", "create"}

\* What the backend has been sent is at the head of the outbox, less what was
\* merged with a later operation: layouts, and an update at its end.
Queued(queue, batch, n) ==
    /\ queue \in Seq(Known(n)) /\ batch \in Seq(Known(n))
    /\ Len(batch) <= Len(queue)
    /\ \A i \in DOMAIN queue :
         /\ i < Len(batch) /\ queue[i].id \notin Accepted(batch) => queue[i].kind = "layout"
         /\ i > Len(batch) => queue[i].id \notin Accepted(batch)
    /\ Arranged(queue)

\* An update at the end of the outbox is the configuration on the screen.
EndsWith(queue, doc) ==
    queue # <<>> => LET op == queue[Len(queue)] IN
        op.kind = "update" /\ doc[op.node].exists => doc[op.node].config = op.config

Means(doc, queue, batch, result) == Replay(doc, Uncommitted(queue, batch)) = result

Clean(doc) == doc \in Document /\ \A n \in Nodes : ~doc[n].exists => doc[n] = Absent

\* The commands that Edit makes.
Updates(c, n) == \E old, new \in SUBSET Keys :
    c.undo = <<Op("update", n, Default, old)>> /\ c.redo = <<Op("update", n, Default, new)>>
Creates(c, n) == \E new \in SUBSET Keys :
    c.undo = <<Op("delete", n, Default, {})>> /\ c.redo = <<Op("create", n, Default, new)>>
Deletes(c, n) == \E old \in SUBSET Keys, layout \in Layouts :
    /\ c.undo = <<Op("create", n, Default, old), Op("layout", n, layout, {})>>
    /\ c.redo = <<Op("delete", n, Default, {})>>
Arranges(c, n) == \E old, new \in Layouts :
    c.undo = <<Op("layout", n, old, {})>> /\ c.redo = <<Op("layout", n, new, {})>>

EditorCommand(c) ==
    /\ \E n \in Nodes : Updates(c, n) \/ Creates(c, n) \/ Deletes(c, n) \/ Arranges(c, n)
    /\ c.group # "none" => Updates(c, c.group)

\* Between the documents of a history redo and undo take one to the next.
Fits(c, before, after) == Replay(after, c.undo) = before /\ Replay(before, c.redo) = after

UndoHistory(stack, doc) == \E docs \in [0..Len(stack) -> Document] :
    /\ docs[Len(stack)] = doc
    /\ \A k \in 1..Len(stack) : Fits(stack[k], docs[k - 1], docs[k])

RedoHistory(stack, doc) == \E docs \in [0..Len(stack) -> Document] :
    /\ docs[Len(stack)] = doc
    /\ \A k \in 1..Len(stack) : Fits(stack[k], docs[k], docs[k - 1])

Histories ==
    /\ undo \in Seq({c \in Command : EditorCommand(c)})
    /\ redo \in Seq({c \in Command : EditorCommand(c)})
    /\ UndoHistory(undo, shown) /\ RedoHistory(redo, shown)

\* What there is to commit takes doc to result.
Stands(doc, queue, batch, n, result) ==
    /\ doc \in Document /\ result \in Document
    /\ Queued(queue, batch, n) /\ EndsWith(queue, result) /\ Means(doc, queue, batch, result)

Standing ==
    /\ made \in 0..MaxMutations
    /\ server \in Document /\ Clean(shown)
    /\ Stands(Replay(server, inflight), pending, inflight, made, shown)

EditorIInv == Standing /\ Histories

---------------------------------------------------------------------------
(* FlowEdits: what an operation does to a document                          *)

LEMMA SameDocument ==
    ASSUME NEW d \in Document, NEW e \in Document, \A n \in Nodes : d[n] = e[n]
    PROVE  d = e
BY DEF Document

\* d is what op makes of doc.
Effect(doc, op, d) ==
    /\ doc \in Document /\ op \in FlowOperation /\ d \in Document
    /\ \A n \in Nodes : n # op.node => d[n] = doc[n]
    /\ op.kind = "create" => d[op.node].exists /\ d[op.node].layout = Default
                             /\ d[op.node].config = op.config
    /\ op.kind = "delete" => d[op.node] = Absent
    /\ op.kind \in {"layout", "update"} /\ ~doc[op.node].exists => d[op.node] = doc[op.node]
    /\ op.kind = "layout" /\ doc[op.node].exists =>
         d[op.node].exists /\ d[op.node].layout = op.layout
         /\ d[op.node].config = doc[op.node].config
    /\ op.kind = "update" /\ doc[op.node].exists =>
         d[op.node].exists /\ d[op.node].layout = doc[op.node].layout
         /\ d[op.node].config = op.config

LEMMA InNode ==
    ASSUME NEW l \in Layouts, NEW c \in SUBSET Keys
    PROVE  [layout |-> l, config |-> c, exists |-> TRUE] \in Node
BY DEF Node

LEMMA ApplyIs ==
    ASSUME NEW doc \in Document, NEW op \in FlowOperation
    PROVE  Effect(doc, op, ApplyOperation(doc, op))
<1> DEFINE n == op.node
           old == doc[n]
           new == CASE op.kind = "create" ->
                         [layout |-> Default, config |-> op.config, exists |-> TRUE]
                    [] op.kind = "delete" -> Absent
                    [] op.kind = "layout" /\ old.exists -> [old EXCEPT !.layout = op.layout]
                    [] op.kind = "update" /\ old.exists -> [old EXCEPT !.config = op.config]
                    [] OTHER -> old
           d == ApplyOperation(doc, op)
<1>1. /\ n \in Nodes /\ old \in Node /\ Default \in Layouts
      /\ op.layout \in Layouts /\ op.config \in SUBSET Keys
      /\ op.kind \in {"create", "delete", "layout", "update"}
  BY DefaultAssumption DEF Document, FlowOperation
<1>2. d = [doc EXCEPT ![n] = new]
  BY DEF ApplyOperation
<1>3. doc \in [Nodes -> Node]
  BY DEF Document
<1>4. d[n] = new /\ \A m \in Nodes : m # n => d[m] = doc[m]
  BY <1>1, <1>2, <1>3
<1>5. old = [layout |-> old.layout, config |-> old.config, exists |-> old.exists]
      /\ old.layout \in Layouts /\ old.config \in SUBSET Keys /\ old.exists \in BOOLEAN
  BY <1>1 DEF Node
<1>c. CASE op.kind = "create"
  <2>1. new = [layout |-> Default, config |-> op.config, exists |-> TRUE]
    BY <1>c
  <2>2. new \in Node
    BY <2>1, <1>1, InNode
  <2>3. d \in Document
    BY <2>2, <1>1, <1>2, <1>3 DEF Document
  <2> QED  BY <1>c, <2>1, <2>3, <1>1, <1>4 DEF Effect
<1>d. CASE op.kind = "delete"
  <2>1. new = Absent
    BY <1>d
  <2>2. new \in Node
    BY <2>1, <1>1 DEF Node, Absent
  <2>3. d \in Document
    BY <2>2, <1>1, <1>2, <1>3 DEF Document
  <2> QED  BY <1>d, <2>1, <2>3, <1>1, <1>4 DEF Effect
<1>g. CASE op.kind \in {"layout", "update"} /\ ~old.exists
  <2>1. new = old
    BY <1>g
  <2>3. d \in Document
    BY <2>1, <1>1, <1>2, <1>3 DEF Document
  <2> QED  BY <1>g, <2>1, <2>3, <1>1, <1>4 DEF Effect
<1>l. CASE op.kind = "layout" /\ old.exists
  <2>1. new = [old EXCEPT !.layout = op.layout]
    BY <1>l
  <2>2. new = [layout |-> op.layout, config |-> old.config, exists |-> TRUE]
    BY <2>1, <1>l, <1>5
  <2>3. new \in Node
    BY <2>2, <1>1, <1>5, InNode
  <2>4. d \in Document
    BY <2>3, <1>1, <1>2, <1>3 DEF Document
  <2> QED  BY <1>l, <2>2, <2>4, <1>1, <1>4 DEF Effect
<1>u. CASE op.kind = "update" /\ old.exists
  <2>1. new = [old EXCEPT !.config = op.config]
    BY <1>u
  <2>2. new = [layout |-> old.layout, config |-> op.config, exists |-> TRUE]
    BY <2>1, <1>u, <1>5
  <2>3. new \in Node
    BY <2>2, <1>1, <1>5, InNode
  <2>4. d \in Document
    BY <2>3, <1>1, <1>2, <1>3 DEF Document
  <2> QED  BY <1>u, <2>2, <2>4, <1>1, <1>4 DEF Effect
<1> QED  BY <1>1, <1>c, <1>d, <1>g, <1>l, <1>u

LEMMA SameNode ==
    ASSUME NEW d \in Document, NEW e \in Document, NEW n \in Nodes,
           d[n].exists <=> e[n].exists, d[n].layout = e[n].layout, d[n].config = e[n].config
    PROVE  d[n] = e[n]
<1>1. d[n] \in Node /\ e[n] \in Node
  BY DEF Document
<1>2. d[n].exists = e[n].exists
  BY <1>1 DEF Node
<1> QED  BY <1>1, <1>2 DEF Node

\* The mutationId does not matter, nor what the operation does not use.
LEMMA SameEffect ==
    ASSUME NEW doc \in Document, NEW op \in FlowOperation, NEW o \in FlowOperation,
           o.kind = op.kind, o.node = op.node, o.layout = op.layout,
           (op.kind = "update" /\ doc[op.node].exists) \/ op.kind = "create"
               => o.config = op.config
    PROVE  ApplyOperation(doc, o) = ApplyOperation(doc, op)
<1> DEFINE d == ApplyOperation(doc, o)
           e == ApplyOperation(doc, op)
<1>1. Effect(doc, o, d) /\ Effect(doc, op, e)
  BY ApplyIs
<1> HIDE DEF d, e
<1>2. d \in Document /\ e \in Document /\ op.node \in Nodes
      /\ op.kind \in {"create", "delete", "layout", "update"}
  BY <1>1 DEF Effect, FlowOperation
<1>3. d[op.node] = e[op.node]
  <2>1. CASE op.kind = "delete" \/ (op.kind \in {"layout", "update"} /\ ~doc[op.node].exists)
    BY <2>1, <1>1 DEF Effect
  <2>2. CASE op.kind = "create" \/ (op.kind \in {"layout", "update"} /\ doc[op.node].exists)
    <3>1. d[op.node].exists /\ e[op.node].exists /\ d[op.node].layout = e[op.node].layout
          /\ d[op.node].config = e[op.node].config
      BY <2>2, <1>1 DEF Effect
    <3> QED  BY <3>1, <1>2, SameNode
  <2> QED  BY <1>2, <2>1, <2>2
<1>4. \A n \in Nodes : d[n] = e[n]
  BY <1>1, <1>3 DEF Effect
<1>5. d = e
  BY <1>2, <1>4, SameDocument
<1> QED  BY <1>5 DEF d, e

\* A layout may as well come after an operation that neither is another layout
\* of the node nor creates it.
LEMMA LayoutLater ==
    ASSUME NEW doc \in Document, NEW x \in FlowOperation, NEW y \in FlowOperation,
           x.kind = "layout", y.node = x.node => y.kind \notin {"layout", "create"}
    PROVE  ApplyOperation(ApplyOperation(doc, x), y) = ApplyOperation(ApplyOperation(doc, y), x)
<1> DEFINE dx == ApplyOperation(doc, x)
           dy == ApplyOperation(doc, y)
           d == ApplyOperation(dx, y)
           e == ApplyOperation(dy, x)
<1>1. Effect(doc, x, dx) /\ Effect(doc, y, dy)
  BY ApplyIs
<1>1a. dx \in Document /\ dy \in Document
  BY <1>1 DEF Effect
<1>2. Effect(dx, y, d) /\ Effect(dy, x, e)
  BY <1>1a, ApplyIs
<1> HIDE DEF dx, dy, d, e
<1>3. /\ x.node \in Nodes /\ y.node \in Nodes /\ d \in Document /\ e \in Document
      /\ y.kind \in {"create", "delete", "layout", "update"}
  BY <1>2 DEF FlowOperation, Effect
<1>4. ASSUME NEW m \in Nodes PROVE d[m] = e[m]
  <2>1. CASE m # x.node /\ m # y.node
    BY <2>1, <1>1, <1>2 DEF Effect
  <2>2. CASE m = x.node /\ m # y.node
    <3>1. d[m] = dx[m] /\ dy[m] = doc[m]
      BY <2>2, <1>1, <1>2 DEF Effect
    <3>2. CASE doc[m].exists
      <4>1. d[m].exists /\ e[m].exists /\ d[m].layout = e[m].layout /\ d[m].config = e[m].config
        BY <3>1, <3>2, <2>2, <1>1, <1>2 DEF Effect
      <4> QED  BY <4>1, <1>3, SameNode
    <3>3. CASE ~doc[m].exists
      BY <3>1, <3>3, <2>2, <1>1, <1>2 DEF Effect
    <3> QED  BY <3>2, <3>3
  <2>3. CASE m = y.node /\ m # x.node
    <3>1. e[m] = dy[m] /\ dx[m] = doc[m]
      BY <2>3, <1>1, <1>2 DEF Effect
    <3>2. CASE y.kind = "delete" \/ (y.kind \in {"layout", "update"} /\ ~doc[m].exists)
      BY <3>1, <3>2, <2>3, <1>1, <1>2 DEF Effect
    <3>3. CASE y.kind = "create" \/ (y.kind \in {"layout", "update"} /\ doc[m].exists)
      <4>1. d[m].exists /\ e[m].exists /\ d[m].layout = e[m].layout /\ d[m].config = e[m].config
        BY <3>1, <3>3, <2>3, <1>1, <1>2 DEF Effect
      <4> QED  BY <4>1, <1>3, SameNode
    <3> QED  BY <1>3, <3>2, <3>3
  <2>4. CASE m = x.node /\ m = y.node
    <3>1. y.kind \in {"delete", "update"}
      BY <2>4, <1>3
    <3>2. CASE y.kind = "delete"
      BY <3>2, <2>4, <1>1, <1>2 DEF Effect, Absent
    <3>3. CASE y.kind = "update" /\ doc[m].exists
      <4>1. dx[m].exists /\ dy[m].exists
        BY <3>3, <2>4, <1>1 DEF Effect
      <4>2. d[m].exists /\ e[m].exists /\ d[m].layout = e[m].layout /\ d[m].config = e[m].config
        BY <4>1, <3>3, <2>4, <1>1, <1>2 DEF Effect
      <4> QED  BY <4>2, <1>3, SameNode
    <3>4. CASE y.kind = "update" /\ ~doc[m].exists
      <4>1. dx[m] = doc[m] /\ dy[m] = doc[m]
        BY <3>4, <2>4, <1>1 DEF Effect
      <4> QED  BY <4>1, <3>4, <2>4, <1>2 DEF Effect
    <3> QED  BY <3>1, <3>2, <3>3, <3>4
  <2> QED  BY <2>1, <2>2, <2>3, <2>4
<1>5. d = e
  BY <1>3, <1>4, SameDocument
<1> QED  BY <1>5 DEF dx, dy, d, e

\* The later of two layouts, or of two updates, of a node is the one that counts.
LEMMA LaterCounts ==
    ASSUME NEW doc \in Document, NEW x \in FlowOperation, NEW y \in FlowOperation,
           x.kind = y.kind, x.kind \in {"layout", "update"}, y.node = x.node
    PROVE  ApplyOperation(ApplyOperation(doc, x), y) = ApplyOperation(doc, y)
<1> DEFINE dx == ApplyOperation(doc, x)
           d == ApplyOperation(dx, y)
           e == ApplyOperation(doc, y)
           n == x.node
<1>1. Effect(doc, x, dx) /\ Effect(doc, y, e)
  BY ApplyIs
<1>1a. dx \in Document
  BY <1>1 DEF Effect
<1>2. Effect(dx, y, d)
  BY <1>1a, ApplyIs
<1> HIDE DEF dx, d, e
<1>3. d \in Document /\ e \in Document /\ n \in Nodes
      /\ \A m \in Nodes : m # n => d[m] = e[m]
  BY <1>1, <1>2 DEF Effect, FlowOperation
<1>4. d[n] = e[n]
  <2>1. CASE ~doc[n].exists
    BY <2>1, <1>1, <1>2 DEF Effect
  <2>2. CASE doc[n].exists
    <3>1. dx[n].exists
      BY <2>2, <1>1 DEF Effect
    <3>2. d[n].exists /\ e[n].exists /\ d[n].layout = e[n].layout /\ d[n].config = e[n].config
      BY <2>2, <3>1, <1>1, <1>2 DEF Effect
    <3> QED  BY <3>2, <1>3, SameNode
  <2> QED  BY <2>1, <2>2
<1>5. d = e
  BY <1>3, <1>4, SameDocument
<1> QED  BY <1>5 DEF dx, d, e

LEMMA StaysClean ==
    ASSUME NEW doc, Clean(doc), NEW op \in FlowOperation
    PROVE  Clean(ApplyOperation(doc, op))
<1> DEFINE d == ApplyOperation(doc, op)
<1>1. doc \in Document /\ \A m \in Nodes : ~doc[m].exists => doc[m] = Absent
  BY DEF Clean
<1>2. op.node \in Nodes /\ op.kind \in {"create", "delete", "layout", "update"}
  BY DEF FlowOperation
<1>3. Effect(doc, op, d)
  BY <1>1, ApplyIs
<1> HIDE DEF d
<1>4. ASSUME NEW m \in Nodes, ~d[m].exists PROVE d[m] = Absent
  <2>1. CASE m # op.node
    BY <2>1, <1>1, <1>3, <1>4 DEF Effect
  <2>2. CASE m = op.node
    BY <2>2, <1>1, <1>2, <1>3, <1>4 DEF Effect
  <2> QED  BY <2>1, <2>2
<1>5. Clean(d)
  BY <1>3, <1>4 DEF Clean, Effect
<1> QED  BY <1>5 DEF d

---------------------------------------------------------------------------
(* FlowEdits: what Replay and Uncommitted compute                           *)

\* The documents on the way when ops are replayed, less those with an id in B.
Skips(doc, ops, B, n, g) ==
    \A k \in 0..n :
        g[k] = IF k = 0 THEN doc
               ELSE IF ops[k].id \in B THEN g[k - 1] ELSE ApplyOperation(g[k - 1], ops[k])

LEMMA SkipsFromStart ==
    ASSUME NEW doc, NEW ops, NEW B, NEW n \in Nat, NEW g, Skips(doc, ops, B, n, g)
    PROVE  g[0] = doc
<1>1. 0 \in 0..n
  OBVIOUS
<1> QED  BY <1>1 DEF Skips

LEMMA SkipsExists ==
    ASSUME NEW doc \in Document, NEW ops \in Seq(FlowOperation), NEW B
    PROVE  \E g \in [0..Len(ops) -> Document] : Skips(doc, ops, B, Len(ops), g)
<1> DEFINE G == {n \in 0..Len(ops) : \E g \in [0..n -> Document] : Skips(doc, ops, B, n, g)}
<1>1. 0 \in G
  <2> DEFINE g == [k \in 0..0 |-> doc]
  <2>1. g \in [0..0 -> Document] /\ Skips(doc, ops, B, 0, g)
    BY DEF Skips
  <2> HIDE DEF g
  <2> QED  BY <2>1
<1>2. ASSUME NEW k \in 1..Len(ops), k - 1 \in G
      PROVE  k \in G
  <2>1. PICK g \in [0..k-1 -> Document] : Skips(doc, ops, B, k - 1, g)
    BY <1>2
  <2> DEFINE last == IF ops[k].id \in B THEN g[k-1] ELSE ApplyOperation(g[k-1], ops[k])
             h == [i \in 0..k |-> IF i = k THEN last ELSE g[i]]
  <2>2. k - 1 \in 0..k-1 /\ ops[k] \in FlowOperation /\ g[k-1] \in Document
    BY <2>1
  <2>3. last \in Document
    BY <2>2, ApplyIs DEF Effect
  <2> HIDE DEF last
  <2>4. \A i \in 0..k-1 : i \in 0..k /\ i # k /\ h[i] = g[i]
    OBVIOUS
  <2>4a. \A i \in 0..k : i = k \/ i \in 0..k-1
    OBVIOUS
  <2>5. h \in [0..k -> Document]
    BY <2>1, <2>3, <2>4a
  <2>6. h[k] = last
    OBVIOUS
  <2> HIDE DEF h
  <2>7. ASSUME NEW i \in 0..k
        PROVE  h[i] = IF i = 0 THEN doc
               ELSE IF ops[i].id \in B THEN h[i - 1] ELSE ApplyOperation(h[i - 1], ops[i])
    <3>1. CASE i = k
      BY <3>1, <2>2, <2>4, <2>6 DEF last
    <3>2. CASE i # k
      <4>1. i \in 0..k-1 /\ (i # 0 => i - 1 \in 0..k-1)
        BY <3>2
      <4> QED  BY <4>1, <2>1, <2>4 DEF Skips
    <3> QED  BY <3>1, <3>2
  <2>8. Skips(doc, ops, B, k, h)
    BY <2>7 DEF Skips
  <2>9. \E f \in [0..k -> Document] : Skips(doc, ops, B, k, f)
    BY <2>5, <2>8
  <2>10. k \in 0..Len(ops)
    OBVIOUS
  <2> HIDE DEF Skips
  <2> QED  BY <2>9, <2>10
<1> HIDE DEF G
<1>n. Len(ops) \in Nat
  OBVIOUS
<1>3. 0..Len(ops) \subseteq G
  BY <1>n, <1>1, <1>2, Upto
<1>4. Len(ops) \in G
  BY <1>n, <1>3
<1> QED  BY <1>4 DEF G

LEMMA ReplayIs ==
    ASSUME NEW S, NEW doc, NEW ops \in Seq(S), NEW g, Skips(doc, ops, {}, Len(ops), g)
    PROVE  Replay(doc, ops) = g[Len(ops)]
<1> DEFINE N == Len(ops)
           Step(f) == [k \in 0..N |->
                         IF k = 0 THEN doc ELSE ApplyOperation(f[k - 1], ops[k])]
           after == CHOOSE f : f = Step(f)
           h == [k \in 0..N |-> g[k]]
<1>n. N \in Nat
  OBVIOUS
<1>1. h = Step(h)
  <2>1. ASSUME NEW k \in 0..N
        PROVE  g[k] = IF k = 0 THEN doc ELSE ApplyOperation(h[k - 1], ops[k])
    <3>1. k # 0 => k - 1 \in 0..N
      BY <1>n
    <3> QED  BY <3>1 DEF Skips
  <2> QED  BY <2>1
<1>2. after = Step(after)
  BY <1>1
<1>3. Replay(doc, ops) = after[N]
  BY DEF Replay
<1> HIDE DEF after
<1>4. after[0] = doc /\ \A k \in 1..N : after[k] = ApplyOperation(after[k - 1], ops[k])
  BY <1>2, <1>n
<1>5. g[0] = doc /\ \A k \in 1..N : g[k] = ApplyOperation(g[k - 1], ops[k])
  BY <1>n DEF Skips
<1> DEFINE G == {k \in 0..N : after[k] = g[k]}
<1>6. 0 \in G
  BY <1>4, <1>5, <1>n
<1>7. \A k \in 1..N : k - 1 \in G => k \in G
  BY <1>4, <1>5
<1> HIDE DEF G
<1>8. 0..N \subseteq G
  BY <1>6, <1>7, <1>n, Upto
<1>9. N \in G
  BY <1>8, <1>n
<1> QED  BY <1>3, <1>9 DEF G

LEMMA ReplayAppend ==
    ASSUME NEW doc \in Document, NEW ops \in Seq(FlowOperation), NEW op \in FlowOperation
    PROVE  Replay(doc, Append(ops, op)) = ApplyOperation(Replay(doc, ops), op)
<1> DEFINE N == Len(ops)
           more == Append(ops, op)
<1>n. N \in Nat
  OBVIOUS
<1>1. PICK g \in [0..N -> Document] : Skips(doc, ops, {}, N, g)
  BY SkipsExists
<1>2. more \in Seq(FlowOperation) /\ Len(more) = N + 1 /\ more[N + 1] = op
      /\ \A k \in 1..N : more[k] = ops[k]
  OBVIOUS
<1> DEFINE h == [k \in 0..(N + 1) |-> IF k = N + 1 THEN ApplyOperation(g[N], op) ELSE g[k]]
<1>3. h[N + 1] = ApplyOperation(g[N], op) /\ \A k \in 0..N : h[k] = g[k]
  BY <1>n
<1> HIDE DEF h, more
<1>4. Skips(doc, more, {}, N + 1, h)
  <2>1. ASSUME NEW k \in 0..(N + 1)
        PROVE  h[k] = IF k = 0 THEN doc ELSE ApplyOperation(h[k - 1], more[k])
    <3>1. CASE k = N + 1
      BY <3>1, <1>2, <1>3, <1>n
    <3>2. CASE k = 0
      BY <3>2, <1>1, <1>3, <1>n DEF Skips
    <3>3. CASE k \in 1..N
      <4>1. k - 1 \in 0..N /\ k \in 0..N /\ k # 0
        BY <3>3, <1>n
      <4> QED  BY <4>1, <3>3, <1>1, <1>2, <1>3 DEF Skips
    <3> QED  BY <3>1, <3>2, <3>3, <1>n
  <2> QED  BY <2>1 DEF Skips
<1>5. Replay(doc, more) = h[N + 1] /\ Replay(doc, ops) = g[N]
  BY <1>1, <1>2, <1>4, ReplayIs
<1> QED  BY <1>3, <1>5 DEF more

LEMMA ReplayNone ==
    ASSUME NEW doc
    PROVE  Replay(doc, <<>>) = doc
<1> DEFINE g == [k \in 0..0 |-> doc]
<1>1. g[0] = doc /\ Skips(doc, <<>>, {}, 0, g)
  BY DEF Skips
<1> HIDE DEF g
<1>2. <<>> \in Seq({}) /\ Len(<<>>) = 0
  OBVIOUS
<1> QED  BY <1>1, <1>2, ReplayIs

LEMMA ReplayTyped ==
    ASSUME NEW doc \in Document, NEW ops \in Seq(FlowOperation)
    PROVE  Replay(doc, ops) \in Document
<1>1. PICK g \in [0..Len(ops) -> Document] : Skips(doc, ops, {}, Len(ops), g)
  BY SkipsExists
<1>2. Replay(doc, ops) = g[Len(ops)] /\ Len(ops) \in 0..Len(ops)
  BY <1>1, ReplayIs
<1> QED  BY <1>1, <1>2

LEMMA ReplayOne ==
    ASSUME NEW doc \in Document, NEW op \in FlowOperation
    PROVE  Replay(doc, <<op>>) = ApplyOperation(doc, op)
<1>1. <<op>> = Append(<<>>, op) /\ <<>> \in Seq(FlowOperation)
  OBVIOUS
<1> QED  BY <1>1, ReplayAppend, ReplayNone

LEMMA ReplayTwo ==
    ASSUME NEW doc \in Document, NEW x \in FlowOperation, NEW y \in FlowOperation
    PROVE  Replay(doc, <<x, y>>) = ApplyOperation(ApplyOperation(doc, x), y)
<1>1. PICK one : one = <<x>>
  OBVIOUS
<1>2. one \in Seq(FlowOperation) /\ <<x, y>> = Append(one, y)
  BY <1>1
<1>3. Replay(doc, one) = ApplyOperation(doc, x)
  BY <1>1, ReplayOne
<1>4. Replay(doc, Append(one, y)) = ApplyOperation(Replay(doc, one), y)
  BY <1>2, ReplayAppend
<1> QED  BY <1>2, <1>3, <1>4

LEMMA UncommittedKept ==
    ASSUME NEW S, NEW queue \in Seq(S), NEW batch
    PROVE  \E g : /\ Kept(queue, Accepted(batch), Len(queue), g)
                  /\ Uncommitted(queue, batch) = g[Len(queue)]
<1> DEFINE N == Len(queue)
           B == Accepted(batch)
           Step(g) == [n \in 0..N |->
                         IF n = 0 THEN <<>>
                         ELSE IF queue[n].id \in B THEN g[n - 1]
                         ELSE Append(g[n - 1], queue[n])]
           kept == CHOOSE g : g = Step(g)
<1>1. PICK g \in [0..N -> Seq(S)] : Kept(queue, B, N, g)
  BY SMTT(30), KeptExists
<1>2. g = Step(g)
  BY <1>1 DEF Kept
<1>3. kept = Step(kept)
  BY <1>2
<1>4. Uncommitted(queue, batch) = kept[N]
  BY DEF Uncommitted, Accepted
<1>5. Kept(queue, B, N, kept)
  BY <1>3 DEF Kept
<1> QED  BY <1>4, <1>5

LEMMA UncommittedFacts ==
    ASSUME NEW S, NEW queue \in Seq(S), NEW batch
    PROVE  /\ Uncommitted(queue, batch) \in Seq(S)
           /\ KeptOf(queue, Accepted(batch), Len(queue), Uncommitted(queue, batch))
BY UncommittedKept, KeptIs

\* Replaying what is left is replaying all but what the backend has accepted.
LEMMA SkipsIs ==
    ASSUME NEW doc \in Document, NEW ops \in Seq(FlowOperation), NEW batch, NEW g,
           Skips(doc, ops, Accepted(batch), Len(ops), g)
    PROVE  Replay(doc, Uncommitted(ops, batch)) = g[Len(ops)]
<1> DEFINE N == Len(ops)
           B == Accepted(batch)
<1>n. N \in Nat
  OBVIOUS
<1>1. PICK h : Kept(ops, B, N, h) /\ Uncommitted(ops, batch) = h[N]
  BY UncommittedKept
<1>2. h[0] = <<>> /\ g[0] = doc
  <2>1. g[0] = doc
    BY <1>n, SkipsFromStart
  <2>2. 0 \in 0..N
    BY <1>n
  <2>3. h[0] = <<>>
    BY <2>2, <1>1 DEF Kept
  <2> QED  BY <2>1, <2>3
<1>3. ASSUME NEW k \in 1..N
      PROVE  /\ ops[k] \in FlowOperation
             /\ ops[k].id \in B => h[k] = h[k - 1] /\ g[k] = g[k - 1]
             /\ ops[k].id \notin B => /\ h[k] = Append(h[k - 1], ops[k])
                                      /\ g[k] = ApplyOperation(g[k - 1], ops[k])
  <2>1. k \in 0..N /\ k # 0
    BY <1>n
  <2>2. h[k] = IF ops[k].id \in B THEN h[k - 1] ELSE Append(h[k - 1], ops[k])
    BY <2>1, <1>1 DEF Kept
  <2>3. g[k] = IF ops[k].id \in B THEN g[k - 1] ELSE ApplyOperation(g[k - 1], ops[k])
    BY <2>1 DEF Skips
  <2>4. ops[k] \in FlowOperation
    OBVIOUS
  <2> QED  BY <2>2, <2>3, <2>4
<1> DEFINE G == {k \in 0..N : h[k] \in Seq(FlowOperation) /\ Replay(doc, h[k]) = g[k]}
<1>4. 0 \in G
  <2>1. <<>> \in Seq(FlowOperation) /\ Replay(doc, <<>>) = doc /\ 0 \in 0..N
    BY <1>n, ReplayNone
  <2> QED  BY <2>1, <1>2
<1>5. ASSUME NEW k \in 1..N, k - 1 \in G PROVE k \in G
  <2>1. h[k - 1] \in Seq(FlowOperation) /\ Replay(doc, h[k - 1]) = g[k - 1] /\ k \in 0..N
    BY <1>5
  <2>2. CASE ops[k].id \in B
    BY <2>1, <2>2, <1>3
  <2>3. CASE ops[k].id \notin B
    <3>1. h[k] = Append(h[k - 1], ops[k]) /\ g[k] = ApplyOperation(g[k - 1], ops[k])
          /\ ops[k] \in FlowOperation
      BY <2>3, <1>3
    <3>2. h[k] \in Seq(FlowOperation) /\ Replay(doc, h[k]) = g[k]
      BY <2>1, <3>1, ReplayAppend
    <3> QED  BY <2>1, <3>2
  <2> QED  BY <2>2, <2>3
<1> HIDE DEF G
<1>6. 0..N \subseteq G
  BY <1>n, <1>4, <1>5, Upto
<1>7. N \in G
  BY <1>n, <1>6
<1> QED  BY <1>1, <1>7 DEF G

---------------------------------------------------------------------------
(* FlowEdits: merging keeps the meaning of the outbox                       *)

\* What the user has done allows op to be merged.
Mergeable(queue, result, op) ==
    /\ op.kind = "create" =>
         \A i \in DOMAIN queue : queue[i].node = op.node => queue[i].kind # "layout"
    /\ Adjacent(queue, op) /\ result[op.node].exists => result[op.node].config \subseteq op.config

LEMMA KnownMore ==
    ASSUME NEW n \in Nat
    PROVE  Known(n) \subseteq Known(n + 1) /\ Seq(Known(n)) \subseteq Seq(Known(n + 1))
<1>1. Known(n) \subseteq Known(n + 1)
  BY DEF Known
<1>2. ASSUME NEW q \in Seq(Known(n)) PROVE q \in Seq(Known(n + 1))
  <2>1. \A i \in 1..Len(q) : q[i] \in Known(n + 1)
    BY <1>1
  <2> QED  BY <2>1
<1> QED  BY <1>1, <1>2

LEMMA KnownOperations ==
    ASSUME NEW n, NEW q \in Seq(Known(n))
    PROVE  q \in Seq(FlowOperation)
<1>1. \A i \in 1..Len(q) : q[i] \in FlowOperation
  BY DEF Known
<1> QED  BY <1>1

LEMMA NotAccepted ==
    ASSUME NEW n \in Nat, NEW batch \in Seq(Known(n))
    PROVE  n + 1 \notin Accepted(batch)
<1>1. \A i \in DOMAIN batch : batch[i].id \in 1..n
  BY DEF Known
<1> QED  BY <1>1 DEF Accepted

LEMMA LastReplaced ==
    ASSUME NEW S, NEW s \in Seq(S), s # <<>>, NEW e \in S
    PROVE  LET t == Append(Front(s), e) IN
           /\ t \in Seq(S) /\ Len(t) = Len(s) /\ Len(s) \in Nat \ {0}
           /\ t[Len(s)] = e /\ Last(s) = s[Len(s)] /\ s[Len(s)] \in S
           /\ \A k \in 1..(Len(s) - 1) : t[k] = s[k]
           /\ Front(s) \in Seq(S) /\ Len(Front(s)) = Len(s) - 1
<1> DEFINE N == Len(s)
<1>1. N \in Nat \ {0} /\ N = Len(s) /\ N - 1 <= N
  OBVIOUS
<1> HIDE DEF N
<1>2. /\ Front(s) \in Seq(S) /\ Len(Front(s)) = N - 1
      /\ \A k \in 1..(N - 1) : Front(s)[k] = s[k]
  <2>1. Front(s) = SubSeq(s, 1, N - 1)
    BY <1>1 DEF Front
  <2>2. SubSeq(s, 1, N - 1) \in Seq(S)
    BY <1>1
  <2>3. Len(SubSeq(s, 1, N - 1)) = N - 1
    BY <1>1
  <2>4. \A k \in 1..(N - 1) : SubSeq(s, 1, N - 1)[k] = s[k]
    BY <1>1
  <2> QED  BY <2>1, <2>2, <2>3, <2>4
<1> DEFINE f == Front(s)
<1>3. f \in Seq(S) /\ Len(f) = Len(s) - 1 /\ \A k \in 1..(Len(s) - 1) : f[k] = s[k]
  BY <1>1, <1>2
<1> HIDE DEF f
<1>4. /\ Append(f, e) \in Seq(S) /\ Len(Append(f, e)) = Len(s)
      /\ Append(f, e)[Len(s)] = e
      /\ \A k \in 1..(Len(s) - 1) : Append(f, e)[k] = s[k]
  BY <1>1, <1>3
<1> QED  BY <1>1, <1>2, <1>4 DEF f, Last

LEMMA MergeAppends ==
    ASSUME NEW n \in Nat, NEW doc, NEW queue, NEW batch, NEW result,
           Stands(doc, queue, batch, n, result),
           NEW op \in FlowOperation, op.id = n + 1, Mergeable(queue, result, op),
           SameKey(queue, op) = {}
    PROVE  Stands(doc, Append(queue, op), batch, n + 1, ApplyOperation(result, op))
<1> DEFINE q == Append(queue, op)
           N == Len(queue)
           r == ApplyOperation(result, op)
<1>1. /\ doc \in Document /\ result \in Document
      /\ queue \in Seq(Known(n)) /\ batch \in Seq(Known(n)) /\ Len(batch) <= N
      /\ Arranged(queue) /\ Means(doc, queue, batch, result)
  BY DEF Stands, Queued
<1>2. /\ queue \in Seq(FlowOperation) /\ queue \in Seq(Known(n + 1))
      /\ batch \in Seq(Known(n + 1)) /\ op \in Known(n + 1)
  <2>1. n + 1 \in 1..(n + 1)
    OBVIOUS
  <2> QED  BY <2>1, <1>1, KnownMore, KnownOperations DEF Known
<1>3. /\ q \in Seq(Known(n + 1)) /\ q \in Seq(FlowOperation) /\ N \in Nat /\ Len(q) = N + 1
      /\ q[N + 1] = op /\ \A k \in 1..N : q[k] = queue[k]
      /\ DOMAIN q = 1..(N + 1) /\ DOMAIN queue = 1..N /\ Len(batch) \in Nat
  BY <1>1, <1>2
<1>4. Effect(result, op, r)
  BY <1>1, ApplyIs
<1>5. op.id \notin Accepted(batch)
  BY <1>1, NotAccepted
<1> HIDE DEF q, r
<1>6. Arranged(q)
  <2> SUFFICES ASSUME NEW i \in DOMAIN q, NEW j \in DOMAIN q, i < j,
                      q[i].kind = "layout", q[j].node = q[i].node
               PROVE  q[j].kind \notin {"layout", "create"}
    BY DEF Arranged
  <2>1. i \in 1..N /\ q[i] = queue[i]
    BY <1>3
  <2>2. CASE j \in 1..N
    BY <2>1, <2>2, <1>1, <1>3 DEF Arranged
  <2>3. CASE j = N + 1
    <3>1. op.kind # "layout"
      BY <2>1, <2>3, <1>3 DEF SameKey
    <3>2. op.kind # "create"
      BY <2>1, <2>3, <1>3 DEF Mergeable
    <3> QED  BY <3>1, <3>2, <2>3, <1>3
  <2> QED  BY <2>2, <2>3, <1>3
<1>7. Queued(q, batch, n + 1)
  <2>1. ASSUME NEW i \in DOMAIN q
        PROVE  /\ i < Len(batch) /\ q[i].id \notin Accepted(batch) => q[i].kind = "layout"
               /\ i > Len(batch) => q[i].id \notin Accepted(batch)
    <3>1. CASE i \in 1..N
      <4>1. q[i] = queue[i] /\ i \in DOMAIN queue
        BY <3>1, <1>3
      <4> QED  BY <4>1 DEF Stands, Queued
    <3>2. CASE i = N + 1
      BY <3>2, <1>1, <1>3, <1>5
    <3> QED  BY <3>1, <3>2, <1>3
  <2> QED  BY <2>1, <1>1, <1>2, <1>3, <1>6 DEF Queued
<1>8. EndsWith(q, r)
  <2>1. op.kind = "update" /\ r[op.node].exists => r[op.node].config = op.config
    BY <1>4 DEF Effect
  <2> QED  BY <2>1, <1>3 DEF EndsWith
<1>9. Means(doc, q, batch, r)
  <2>1. PICK g \in [0..N -> Document] : Skips(doc, queue, Accepted(batch), N, g)
    BY <1>1, <1>2, SkipsExists
  <2>2. g[N] = result
    BY <2>1, <1>1, <1>2, SkipsIs DEF Means
  <2> DEFINE h == [k \in 0..(N + 1) |-> IF k = N + 1 THEN r ELSE g[k]]
  <2>3. h[N + 1] = r /\ \A k \in 0..N : h[k] = g[k]
    BY <1>3
  <2> HIDE DEF h
  <2>4. ASSUME NEW k \in 0..(N + 1)
        PROVE  h[k] = IF k = 0 THEN doc
               ELSE IF q[k].id \in Accepted(batch) THEN h[k - 1]
               ELSE ApplyOperation(h[k - 1], q[k])
    <3>1. CASE k = N + 1
      <4>1. k - 1 = N /\ k # 0 /\ N \in 0..N
        BY <3>1, <1>3
      <4> QED  BY <3>1, <4>1, <2>2, <2>3, <1>3, <1>5 DEF r
    <3>2. CASE k = 0
      <4>1. 0 \in 0..N
        BY <1>3
      <4>2. g[0] = doc
        BY <4>1, <2>1 DEF Skips
      <4> QED  BY <3>2, <4>1, <4>2, <2>3
    <3>3. CASE k \in 1..N
      <4>1. k - 1 \in 0..N /\ k \in 0..N /\ k # 0 /\ q[k] = queue[k]
        BY <3>3, <1>3
      <4>2. g[k] = IF queue[k].id \in Accepted(batch) THEN g[k - 1]
                   ELSE ApplyOperation(g[k - 1], queue[k])
        BY <4>1, <2>1 DEF Skips
      <4> QED  BY <4>1, <4>2, <2>3
    <3> QED  BY <3>1, <3>2, <3>3, <1>3
  <2>5. Skips(doc, q, Accepted(batch), Len(q), h)
    BY <2>4, <1>3 DEF Skips
  <2> QED  BY <2>3, <2>5, <1>1, <1>3, SkipsIs DEF Means
<1>10. r \in Document
  BY <1>4 DEF Effect
<1> QED  BY <1>1, <1>7, <1>8, <1>9, <1>10 DEF Stands, q, r

LEMMA MergeAdjacent ==
    ASSUME NEW n \in Nat, NEW doc, NEW queue, NEW batch, NEW result,
           Stands(doc, queue, batch, n, result),
           NEW op \in FlowOperation, op.id = n + 1, Mergeable(queue, result, op),
           Adjacent(queue, op)
    PROVE  Stands(doc, Append(Front(queue), [op EXCEPT !.config = @ \cup Last(queue).config]),
                  batch, n + 1, ApplyOperation(result, op))
<1> DEFINE N == Len(queue)
           last == queue[N]
           o == [op EXCEPT !.config = @ \cup Last(queue).config]
           q == Append(Front(queue), o)
           r == ApplyOperation(result, op)
<1>1. /\ doc \in Document /\ result \in Document
      /\ queue \in Seq(Known(n)) /\ batch \in Seq(Known(n)) /\ Len(batch) <= N
      /\ Arranged(queue) /\ EndsWith(queue, result) /\ Means(doc, queue, batch, result)
  BY DEF Stands, Queued
<1>2. /\ queue \in Seq(FlowOperation) /\ queue \in Seq(Known(n + 1))
      /\ batch \in Seq(Known(n + 1)) /\ op \in Known(n + 1)
  <2>1. n + 1 \in 1..(n + 1)
    OBVIOUS
  <2> QED  BY <2>1, <1>1, KnownMore, KnownOperations DEF Known
<1>3. /\ N \in Nat \ {0} /\ queue # <<>> /\ Last(queue) = last /\ last \in FlowOperation
      /\ op.kind = "update" /\ last.kind = "update" /\ last.node = op.node
  BY <1>2 DEF Adjacent, Last
<1> HIDE DEF last
<1>4. /\ o \in FlowOperation /\ o.id = n + 1 /\ o.kind = "update" /\ o.node = op.node
      /\ o.layout = op.layout /\ o.config = op.config \cup last.config
  <2>1. o = [op EXCEPT !.config = op.config \cup last.config]
    BY <1>3
  <2>2. op.config \cup last.config \in SUBSET Keys
    BY <1>3 DEF FlowOperation
  <2>3. op = [id |-> op.id, kind |-> op.kind, node |-> op.node,
              layout |-> op.layout, config |-> op.config]
    BY DEF FlowOperation
  <2>4. /\ op.id \in 0..MaxMutations /\ op.kind \in {"create", "delete", "layout", "update"}
        /\ op.node \in Nodes /\ op.layout \in Layouts
    BY DEF FlowOperation
  <2>5. o = [id |-> op.id, kind |-> op.kind, node |-> op.node,
             layout |-> op.layout, config |-> op.config \cup last.config]
    <3> DEFINE c == op.config \cup last.config
    <3>1. o = [op EXCEPT !.config = c]
      BY <2>1
    <3> HIDE DEF o, c
    <3>2. o = [id |-> op.id, kind |-> op.kind, node |-> op.node,
               layout |-> op.layout, config |-> c]
      BY <3>1, <2>3
    <3> QED  BY <3>2 DEF c
  <2> HIDE DEF o
  <2> QED  BY <1>3, <2>2, <2>4, <2>5 DEF FlowOperation
<1> HIDE DEF o
<1>5. o \in Known(n + 1)
  BY <1>4 DEF Known
<1>6. /\ q \in Seq(Known(n + 1)) /\ Len(q) = N /\ q[N] = o
      /\ \A k \in 1..(N - 1) : q[k] = queue[k]
  BY <1>2, <1>3, <1>5, LastReplaced
<1>7. /\ q \in Seq(FlowOperation) /\ DOMAIN q = 1..N /\ DOMAIN queue = 1..N
      /\ Len(batch) \in Nat
  <2> HIDE DEF q
  <2>1. q \in Seq(FlowOperation) /\ N \in Nat /\ Len(batch) \in Nat
    BY <1>1, <1>6, KnownOperations
  <2>2. DOMAIN q = 1..Len(q) /\ DOMAIN queue = 1..N
    BY <2>1, <1>1
  <2> QED  BY <2>1, <2>2, <1>6
<1>8. o.id \notin Accepted(batch)
  BY <1>1, <1>4, NotAccepted
<1>9. Effect(result, op, r)
  BY <1>1, ApplyIs
<1>10. result[op.node].exists => o.config = op.config
  <2> SUFFICES ASSUME result[op.node].exists PROVE o.config = op.config
    OBVIOUS
  <2>1. result[op.node].config = last.config
    BY <1>1, <1>3 DEF EndsWith, last
  <2>2. result[op.node].config \subseteq op.config
    BY DEF Mergeable
  <2> QED  BY <2>1, <2>2, <1>4
<1> HIDE DEF q, r
<1>11. Arranged(q)
  <2> SUFFICES ASSUME NEW i \in DOMAIN q, NEW j \in DOMAIN q, i < j,
                      q[i].kind = "layout", q[j].node = q[i].node
               PROVE  q[j].kind \notin {"layout", "create"}
    BY DEF Arranged
  <2>1. i \in 1..(N - 1) /\ q[i] = queue[i] /\ i \in DOMAIN queue /\ j \in DOMAIN queue
    BY <1>3, <1>6, <1>7
  <2>2. CASE j \in 1..(N - 1)
    <3>1. q[j] = queue[j]
      BY <2>2, <1>6
    <3> QED  BY <2>1, <3>1, <1>1 DEF Arranged
  <2>3. CASE j = N
    BY <2>3, <1>4, <1>6
  <2> QED  BY <2>2, <2>3, <1>3, <1>7
<1>12. Queued(q, batch, n + 1)
  <2>1. ASSUME NEW i \in DOMAIN q
        PROVE  /\ i < Len(batch) /\ q[i].id \notin Accepted(batch) => q[i].kind = "layout"
               /\ i > Len(batch) => q[i].id \notin Accepted(batch)
    <3>1. CASE i \in 1..(N - 1)
      <4>1. q[i] = queue[i] /\ i \in DOMAIN queue
        BY <3>1, <1>6, <1>7
      <4> QED  BY <4>1 DEF Stands, Queued
    <3>2. CASE i = N
      <4>1. ~(N < Len(batch))
        BY <1>1, <1>3, <1>7
      <4> QED  BY <3>2, <4>1, <1>6, <1>8
    <3> QED  BY <3>1, <3>2, <1>3, <1>7
  <2> QED  BY <2>1, <1>1, <1>2, <1>6, <1>11 DEF Queued
<1>13. EndsWith(q, r)
  <2>1. r[op.node].exists => r[op.node].config = o.config
    BY <1>3, <1>9, <1>10 DEF Effect
  <2> QED  BY <2>1, <1>4, <1>6 DEF EndsWith
<1>14. ApplyOperation(result, o) = r
  BY <1>1, <1>3, <1>4, <1>10, SameEffect DEF r
<1>15. Means(doc, q, batch, r)
  <2>1. PICK g \in [0..N -> Document] : Skips(doc, queue, Accepted(batch), N, g)
    BY <1>1, <1>2, SkipsExists
  <2>2. g[N] = result
    BY <2>1, <1>1, <1>2, SkipsIs DEF Means
  <2>3. ApplyOperation(g[N - 1], o) = r
    <3>1. N \in 0..N /\ N - 1 \in 0..N /\ N # 0
      BY <1>3
    <3>2. g[N] = IF last.id \in Accepted(batch) THEN g[N - 1]
                 ELSE ApplyOperation(g[N - 1], last)
      BY <3>1, <2>1 DEF Skips, last
    <3>3. CASE last.id \in Accepted(batch)
      BY <3>2, <3>3, <2>2, <1>14
    <3>4. CASE last.id \notin Accepted(batch)
      <4>1. g[N] = ApplyOperation(g[N - 1], last) /\ g[N - 1] \in Document
        BY <3>1, <3>2, <3>4
      <4>2. ApplyOperation(g[N], o) = ApplyOperation(g[N - 1], o)
        BY <4>1, <1>3, <1>4, LaterCounts
      <4> QED  BY <4>2, <2>2, <1>14
    <3> QED  BY <3>3, <3>4
  <2> DEFINE h == [k \in 0..N |-> IF k = N THEN r ELSE g[k]]
  <2>4. h[N] = r /\ \A k \in 0..(N - 1) : h[k] = g[k]
    BY <1>3
  <2> HIDE DEF h
  <2>5. ASSUME NEW k \in 0..N
        PROVE  h[k] = IF k = 0 THEN doc
               ELSE IF q[k].id \in Accepted(batch) THEN h[k - 1]
               ELSE ApplyOperation(h[k - 1], q[k])
    <3>1. CASE k = N
      <4>1. k # 0 /\ k - 1 \in 0..(N - 1) /\ q[k] = o
        BY <3>1, <1>3, <1>6
      <4>2. h[k] = r /\ h[k - 1] = g[k - 1]
        BY <3>1, <4>1, <2>4
      <4> QED  BY <3>1, <4>1, <4>2, <2>3, <1>8
    <3>2. CASE k = 0
      BY <3>2, <2>1, <2>4, <1>3 DEF Skips
    <3>3. CASE k \in 1..(N - 1)
      <4>1. k - 1 \in 0..(N - 1) /\ k \in 0..(N - 1) /\ k \in 0..N /\ k # 0 /\ q[k] = queue[k]
        BY <3>3, <1>3, <1>6
      <4>2. g[k] = IF queue[k].id \in Accepted(batch) THEN g[k - 1]
                   ELSE ApplyOperation(g[k - 1], queue[k])
        BY <4>1, <2>1 DEF Skips
      <4> QED  BY <4>1, <4>2, <2>4
    <3> QED  BY <3>1, <3>2, <3>3, <1>3
  <2>6. Skips(doc, q, Accepted(batch), Len(q), h)
    BY <2>5, <1>6 DEF Skips
  <2> QED  BY <2>4, <2>6, <1>1, <1>6, <1>7, SkipsIs DEF Means
<1>16. r \in Document
  BY <1>9 DEF Effect
<1> QED  BY <1>1, <1>12, <1>13, <1>15, <1>16 DEF Stands, q, r, o

LEMMA MergeReplaces ==
    ASSUME NEW n \in Nat, NEW doc, NEW queue, NEW batch, NEW result,
           Stands(doc, queue, batch, n, result),
           NEW op \in FlowOperation, op.id = n + 1,
           NEW p \in SameKey(queue, op)
    PROVE  Stands(doc, [queue EXCEPT ![p] = op], batch, n + 1, ApplyOperation(result, op))
<1> DEFINE N == Len(queue)
           q == [queue EXCEPT ![p] = op]
           r == ApplyOperation(result, op)
<1>1. /\ doc \in Document /\ result \in Document
      /\ queue \in Seq(Known(n)) /\ batch \in Seq(Known(n)) /\ Len(batch) <= N
      /\ Arranged(queue) /\ EndsWith(queue, result) /\ Means(doc, queue, batch, result)
  BY DEF Stands, Queued
<1>2. /\ queue \in Seq(FlowOperation) /\ queue \in Seq(Known(n + 1))
      /\ batch \in Seq(Known(n + 1)) /\ op \in Known(n + 1)
  <2>1. n + 1 \in 1..(n + 1)
    OBVIOUS
  <2> QED  BY <2>1, <1>1, KnownMore, KnownOperations DEF Known
<1>3. /\ p \in 1..N /\ N \in Nat /\ Len(batch) \in Nat
      /\ op.kind = "layout" /\ queue[p].kind = "layout" /\ queue[p].node = op.node
  BY <1>1, <1>2 DEF SameKey
<1>4. /\ q \in Seq(Known(n + 1)) /\ Len(q) = N /\ q[p] = op
      /\ \A k \in 1..N : k # p => q[k] = queue[k]
  BY <1>2, <1>3
<1>5. /\ q \in Seq(FlowOperation) /\ DOMAIN q = 1..N /\ DOMAIN queue = 1..N
  BY <1>1, <1>4, KnownOperations
<1>6. op.id \notin Accepted(batch)
  BY <1>1, NotAccepted
<1>7. Effect(result, op, r)
  BY <1>1, ApplyIs
<1> HIDE DEF q, r
<1>8. \A k \in 1..N : q[k].kind = queue[k].kind /\ q[k].node = queue[k].node
  BY <1>3, <1>4
<1>9. Arranged(q)
  BY <1>1, <1>5, <1>8 DEF Arranged
<1>10. Queued(q, batch, n + 1)
  <2>1. ASSUME NEW i \in DOMAIN q
        PROVE  /\ i < Len(batch) /\ q[i].id \notin Accepted(batch) => q[i].kind = "layout"
               /\ i > Len(batch) => q[i].id \notin Accepted(batch)
    <3>1. CASE i # p
      <4>1. q[i] = queue[i] /\ i \in DOMAIN queue
        BY <3>1, <1>4, <1>5
      <4> QED  BY <4>1 DEF Stands, Queued
    <3>2. CASE i = p
      BY <3>2, <1>3, <1>4, <1>6
    <3> QED  BY <3>1, <3>2
  <2> QED  BY <2>1, <1>1, <1>2, <1>4, <1>9 DEF Queued
<1>11. EndsWith(q, r)
  <2>1. N \in 1..N
    BY <1>3
  <2>2. CASE p = N
    BY <2>2, <1>3, <1>4 DEF EndsWith
  <2>3. CASE p # N
    <3> DEFINE e == queue[N]
    <3>1. q[N] = e /\ queue # <<>> /\ e \in FlowOperation
      BY <2>1, <2>3, <1>2, <1>4
    <3>2. e.kind = "update" /\ result[e.node].exists => result[e.node].config = e.config
      BY <3>1, <1>1 DEF EndsWith
    <3> HIDE DEF e
    <3>3. r[e.node].exists => result[e.node].exists /\ r[e.node].config = result[e.node].config
      <4>1. e.node \in Nodes
        BY <3>1 DEF FlowOperation
      <4>2. CASE e.node # op.node
        BY <4>1, <4>2, <1>7 DEF Effect
      <4>3. CASE e.node = op.node
        BY <4>3, <1>3, <1>7 DEF Effect
      <4> QED  BY <4>2, <4>3
    <3> QED  BY <3>1, <3>2, <3>3, <1>4 DEF EndsWith
  <2> QED  BY <2>2, <2>3
<1>12. Means(doc, q, batch, r)
  <2> DEFINE B == Accepted(batch)
  <2>1. PICK g \in [0..N -> Document] : Skips(doc, queue, B, N, g)
    BY <1>1, <1>2, SkipsExists
  <2>2. g[N] = result
    BY <2>1, <1>1, <1>2, SkipsIs DEF Means
  <2>3. ASSUME NEW k \in 1..N
        PROVE  /\ queue[k] \in FlowOperation /\ k - 1 \in 0..N /\ k \in 0..N
               /\ g[k] \in Document /\ g[k - 1] \in Document
               /\ g[k] = IF queue[k].id \in B THEN g[k - 1]
                         ELSE ApplyOperation(g[k - 1], queue[k])
    <3>1. queue[k] \in FlowOperation /\ k - 1 \in 0..N /\ k \in 0..N /\ k # 0
      BY <1>2, <1>3
    <3>2. g[k] = IF queue[k].id \in B THEN g[k - 1] ELSE ApplyOperation(g[k - 1], queue[k])
      BY <3>1, <2>1 DEF Skips
    <3> QED  BY <3>1, <3>2
  <2>4. g[0] = doc
    BY <2>1, <1>3, SkipsFromStart
  <2> DEFINE h == [k \in 0..N |-> IF k < p THEN g[k] ELSE ApplyOperation(g[k], op)]
  <2>5. \A k \in 0..N : h[k] = IF k < p THEN g[k] ELSE ApplyOperation(g[k], op)
    OBVIOUS
  <2> HIDE DEF h, B
  <2>6. ASSUME NEW k \in 1..N
        PROVE  h[k] = IF q[k].id \in B THEN h[k - 1] ELSE ApplyOperation(h[k - 1], q[k])
    <3>1. k \in Nat /\ p \in Nat /\ k - 1 \in 0..N /\ k \in 0..N
      BY <1>3
    <3>2. CASE k < p
      <4>1. h[k] = g[k] /\ h[k - 1] = g[k - 1] /\ q[k] = queue[k]
        BY <3>1, <3>2, <2>5, <1>4
      <4> QED  BY <4>1, <2>3
    <3>3. CASE k = p
      <4>1. h[k] = ApplyOperation(g[k], op) /\ h[k - 1] = g[k - 1] /\ q[k] = op
        BY <3>1, <3>3, <2>5, <1>4
      <4>2. ApplyOperation(g[k], op) = ApplyOperation(g[k - 1], op)
        <5>1. CASE queue[k].id \in B
          BY <5>1, <2>3
        <5>2. CASE queue[k].id \notin B
          BY <5>2, <2>3, <3>3, <1>3, LaterCounts
        <5> QED  BY <5>1, <5>2
      <4> QED  BY <4>1, <4>2, <1>6 DEF B
    <3>4. CASE k > p
      <4>1. /\ h[k] = ApplyOperation(g[k], op) /\ h[k - 1] = ApplyOperation(g[k - 1], op)
            /\ q[k] = queue[k]
        BY <3>1, <3>4, <2>5, <1>4
      <4>2. queue[k].node = op.node => queue[k].kind \notin {"layout", "create"}
        BY <3>4, <1>1, <1>3, <1>5 DEF Arranged
      <4>3. CASE queue[k].id \in B
        BY <4>1, <4>3, <2>3
      <4>4. CASE queue[k].id \notin B
        <5>1. g[k] = ApplyOperation(g[k - 1], queue[k])
          BY <4>4, <2>3
        <5>2. ApplyOperation(ApplyOperation(g[k - 1], op), queue[k])
                = ApplyOperation(ApplyOperation(g[k - 1], queue[k]), op)
          BY <2>3, <4>2, <1>3, LayoutLater
        <5> QED  BY <5>1, <5>2, <4>1, <4>4
      <4> QED  BY <4>3, <4>4
    <3> QED  BY <3>1, <3>2, <3>3, <3>4
  <2>7. h[0] = doc /\ h[N] = r
    BY <2>2, <2>4, <2>5, <1>3 DEF r
  <2>8. Skips(doc, q, B, Len(q), h)
    <3>1. \A k \in 0..N : k = 0 \/ k \in 1..N
      BY <1>3
    <3> QED  BY <3>1, <2>6, <2>7, <1>4 DEF Skips
  <2> QED  BY <2>7, <2>8, <1>1, <1>4, <1>5, SkipsIs DEF Means, B
<1>13. r \in Document
  BY <1>7 DEF Effect
<1> QED  BY <1>1, <1>10, <1>11, <1>12, <1>13 DEF Stands, q, r

LEMMA MergeStands ==
    ASSUME NEW n \in Nat, NEW doc, NEW queue, NEW batch, NEW result,
           Stands(doc, queue, batch, n, result),
           NEW op \in FlowOperation, op.id = n + 1, Mergeable(queue, result, op)
    PROVE  Stands(doc, Merge(queue, op), batch, n + 1, ApplyOperation(result, op))
<1>1. CASE Adjacent(queue, op)
  <2>1. Merge(queue, op)
          = Append(Front(queue), [op EXCEPT !.config = @ \cup Last(queue).config])
    BY <1>1 DEF Merge
  <2> QED  BY <2>1, <1>1, MergeAdjacent
<1>2. CASE ~Adjacent(queue, op) /\ SameKey(queue, op) # {}
  <2> DEFINE p == CHOOSE i \in SameKey(queue, op) : TRUE
  <2>1. p \in SameKey(queue, op)
    BY <1>2
  <2>2. Merge(queue, op) = [queue EXCEPT ![p] = op]
    BY <1>2 DEF Merge
  <2> HIDE DEF p
  <2>3. Stands(doc, [queue EXCEPT ![p] = op], batch, n + 1, ApplyOperation(result, op))
    BY <2>1, MergeReplaces
  <2> QED  BY <2>2, <2>3
<1>3. CASE ~Adjacent(queue, op) /\ SameKey(queue, op) = {}
  <2>1. Merge(queue, op) = Append(queue, op)
    BY <1>3 DEF Merge
  <2> QED  BY <2>1, <1>3, MergeAppends
<1> QED  BY <1>1, <1>2, <1>3

---------------------------------------------------------------------------
(* FlowEdits: making operations                                             *)

\* The operations of a command, on a node that is not there when it is created.
Allowed(ops, n, doc) ==
    \/ ops = <<Op("delete", n, Default, {})>>
    \/ \E layout \in Layouts : ops = <<Op("layout", n, layout, {})>>
    \/ \E config \in SUBSET Keys : ops = <<Op("update", n, Default, config)>>
    \/ ~doc[n].exists /\ \E config \in SUBSET Keys : ops = <<Op("create", n, Default, config)>>
    \/ /\ ~doc[n].exists
       /\ \E config \in SUBSET Keys, layout \in Layouts :
            ops = <<Op("create", n, Default, config), Op("layout", n, layout, {})>>

LEMMA OpIs ==
    ASSUME NEW kind \in {"create", "delete", "layout", "update"}, NEW n \in Nodes,
           NEW layout \in Layouts, NEW config \in SUBSET Keys
    PROVE  /\ Op(kind, n, layout, config) \in FlowOperation
           /\ Op(kind, n, layout, config).kind = kind
           /\ Op(kind, n, layout, config).node = n
           /\ Op(kind, n, layout, config).layout = layout
           /\ Op(kind, n, layout, config).config = config
<1>1. 0 \in 0..MaxMutations
  BY MutationsAssumption
<1> QED  BY <1>1 DEF Op, FlowOperation

\* op with the mutationId a.
WithId(op, a) == [op EXCEPT !.id = a]

LEMMA WithIdIs ==
    ASSUME NEW op \in FlowOperation, NEW a \in 0..MaxMutations
    PROVE  LET o == WithId(op, a) IN
           /\ o \in FlowOperation /\ o.id = a /\ o.kind = op.kind /\ o.node = op.node
           /\ o.layout = op.layout /\ o.config = op.config
<1>1. op = [id |-> op.id, kind |-> op.kind, node |-> op.node,
            layout |-> op.layout, config |-> op.config]
  BY DEF FlowOperation
<1>2. WithId(op, a) = [id |-> a, kind |-> op.kind, node |-> op.node,
                       layout |-> op.layout, config |-> op.config]
  BY <1>1 DEF WithId
<1>3. /\ op.kind \in {"create", "delete", "layout", "update"} /\ op.node \in Nodes
      /\ op.layout \in Layouts /\ op.config \in SUBSET Keys
  BY DEF FlowOperation
<1> QED  BY <1>2, <1>3 DEF FlowOperation

LEMMA NumberedIs ==
    ASSUME NEW x, NEW y
    PROVE  /\ Numbered(<<x>>) = <<WithId(x, made + 1)>>
           /\ Numbered(<<x, y>>) = <<WithId(x, made + 1), WithId(y, made + 2)>>
BY DEF Numbered, WithId

LEMMA EnqueuedOne ==
    ASSUME NEW queue, NEW x
    PROVE  Enqueued(queue, <<x>>) = Merge(queue, x)
<1> DEFINE Step(f) == [k \in 0..1 |-> IF k = 0 THEN queue ELSE Merge(f[k - 1], <<x>>[k])]
           after == CHOOSE f : f = Step(f)
           h == [k \in 0..1 |-> IF k = 0 THEN queue ELSE Merge(queue, x)]
<1>1. h = Step(h)
  OBVIOUS
<1>2. after = Step(after)
  BY <1>1
<1>3. Len(<<x>>) = 1
  OBVIOUS
<1>4. Enqueued(queue, <<x>>) = after[1]
  BY <1>3 DEF Enqueued
<1> HIDE DEF after
<1>5. after[0] = queue /\ after[1] = Merge(after[0], x)
  BY <1>2
<1> QED  BY <1>4, <1>5

LEMMA EnqueuedTwo ==
    ASSUME NEW queue, NEW x, NEW y
    PROVE  Enqueued(queue, <<x, y>>) = Merge(Merge(queue, x), y)
<1> DEFINE Step(f) == [k \in 0..2 |-> IF k = 0 THEN queue ELSE Merge(f[k - 1], <<x, y>>[k])]
           after == CHOOSE f : f = Step(f)
           h == [k \in 0..2 |-> IF k = 0 THEN queue
                                ELSE IF k = 1 THEN Merge(queue, x)
                                ELSE Merge(Merge(queue, x), y)]
<1>1. h = Step(h)
  OBVIOUS
<1>2. after = Step(after)
  BY <1>1
<1>3. Len(<<x, y>>) = 2
  OBVIOUS
<1>4. Enqueued(queue, <<x, y>>) = after[2]
  BY <1>3 DEF Enqueued
<1> HIDE DEF after
<1>5. after[0] = queue /\ after[1] = Merge(after[0], x) /\ after[2] = Merge(after[1], y)
  BY <1>2
<1> QED  BY <1>4, <1>5

\* What op makes of the outbox does not depend on its mutationId.
LEMMA SameMergeable ==
    ASSUME NEW queue, NEW result, NEW op, NEW o, Mergeable(queue, result, op),
           o.kind = op.kind, o.node = op.node, o.config = op.config
    PROVE  Mergeable(queue, result, o)
BY DEF Mergeable, Adjacent

LEMMA MakeOneIs ==
    ASSUME made \in 0..MaxMutations, shown \in Document,
           NEW op \in FlowOperation, Make(<<op>>)
    PROVE  /\ made + 1 \in 0..MaxMutations /\ made' = made + 1
           /\ shown' = ApplyOperation(shown, op) /\ shown' = Replay(shown, <<op>>)
           /\ pending' = Merge(pending, WithId(op, made + 1))
           /\ server' = server /\ inflight' = inflight
<1> DEFINE o == WithId(op, made + 1)
<1>1. Len(<<op>>) = 1
  OBVIOUS
<1>2. made + 1 \in 0..MaxMutations /\ made' = made + 1
  BY <1>1, MutationsAssumption DEF Make
<1>3. /\ o \in FlowOperation /\ o.kind = op.kind /\ o.node = op.node
      /\ o.layout = op.layout /\ o.config = op.config
  BY <1>2, WithIdIs
<1>4. Numbered(<<op>>) = <<o>>
  BY NumberedIs
<1> HIDE DEF o
<1>5. shown' = Replay(shown, <<o>>) /\ pending' = Enqueued(pending, <<o>>)
      /\ server' = server /\ inflight' = inflight
  BY <1>4 DEF Make
<1>6. Replay(shown, <<o>>) = ApplyOperation(shown, o)
      /\ Replay(shown, <<op>>) = ApplyOperation(shown, op)
  BY <1>3, ReplayOne
<1>7. ApplyOperation(shown, o) = ApplyOperation(shown, op)
  BY <1>3, SameEffect
<1>8. Enqueued(pending, <<o>>) = Merge(pending, o)
  BY EnqueuedOne
<1> QED  BY <1>2, <1>5, <1>6, <1>7, <1>8 DEF o

LEMMA MakeOne ==
    ASSUME Standing, NEW op \in FlowOperation, Make(<<op>>), Mergeable(pending, shown, op)
    PROVE  Standing'
<1> DEFINE o == WithId(op, made + 1)
<1>1. /\ made \in 0..MaxMutations /\ made \in Nat /\ server \in Document
      /\ Clean(shown) /\ shown \in Document
      /\ Stands(Replay(server, inflight), pending, inflight, made, shown)
  BY MutationsAssumption DEF Standing, Stands
<1>2. /\ made + 1 \in 0..MaxMutations /\ made' = made + 1
      /\ shown' = ApplyOperation(shown, op) /\ pending' = Merge(pending, o)
      /\ server' = server /\ inflight' = inflight
  BY <1>1, MakeOneIs
<1>3. /\ o \in FlowOperation /\ o.id = made + 1 /\ o.kind = op.kind /\ o.node = op.node
      /\ o.layout = op.layout /\ o.config = op.config
  BY <1>2, WithIdIs
<1> HIDE DEF o
<1>4. Mergeable(pending, shown, o)
  BY <1>3, SameMergeable
<1>5. ApplyOperation(shown, o) = ApplyOperation(shown, op)
  BY <1>1, <1>3, SameEffect
<1>6. Stands(Replay(server, inflight), Merge(pending, o), inflight, made + 1,
             ApplyOperation(shown, o))
  BY <1>1, <1>3, <1>4, MergeStands
<1>7. Clean(shown')
  BY <1>1, <1>2, StaysClean
<1>8. Stands(Replay(server', inflight'), pending', inflight', made', shown')
  BY <1>2, <1>5, <1>6
<1> QED  BY <1>1, <1>2, <1>7, <1>8 DEF Standing

\* A node is created, and given its layout.
LEMMA MakeTwo ==
    ASSUME Standing, NEW x \in FlowOperation, NEW y \in FlowOperation, y.kind = "layout",
           Make(<<x, y>>), Mergeable(pending, shown, x)
    PROVE  Standing'
<1> DEFINE u == WithId(x, made + 1)
           v == WithId(y, made + 2)
<1>1. /\ made \in 0..MaxMutations /\ made \in Nat /\ server \in Document
      /\ Clean(shown) /\ shown \in Document
      /\ Stands(Replay(server, inflight), pending, inflight, made, shown)
  BY MutationsAssumption DEF Standing, Stands
<1>2. Len(<<x, y>>) = 2
  OBVIOUS
<1>3. made + 2 \in 0..MaxMutations /\ made + 1 \in 0..MaxMutations /\ made' = made + 2
  BY <1>1, <1>2, MutationsAssumption DEF Make
<1>4. /\ u \in FlowOperation /\ u.id = made + 1 /\ u.kind = x.kind /\ u.node = x.node
      /\ u.layout = x.layout /\ u.config = x.config
  BY <1>3, WithIdIs
<1>5. /\ v \in FlowOperation /\ v.id = made + 2 /\ v.kind = y.kind /\ v.node = y.node
      /\ v.layout = y.layout /\ v.config = y.config
  BY <1>3, WithIdIs
<1>6. Numbered(<<x, y>>) = <<u, v>>
  BY NumberedIs
<1> HIDE DEF u, v
<1>7. shown' = Replay(shown, <<u, v>>) /\ pending' = Enqueued(pending, <<u, v>>)
      /\ server' = server /\ inflight' = inflight
  BY <1>6 DEF Make
<1>8. shown' = ApplyOperation(ApplyOperation(shown, u), v)
      /\ pending' = Merge(Merge(pending, u), v)
  <2>1. Replay(shown, <<u, v>>) = ApplyOperation(ApplyOperation(shown, u), v)
    BY <1>1, <1>4, <1>5, ReplayTwo
  <2>2. Enqueued(pending, <<u, v>>) = Merge(Merge(pending, u), v)
    BY EnqueuedTwo
  <2> QED  BY <1>7, <2>1, <2>2
<1>9. Mergeable(pending, shown, u)
  BY <1>4, SameMergeable
<1>10. Stands(Replay(server, inflight), Merge(pending, u), inflight, made + 1,
              ApplyOperation(shown, u))
  BY <1>1, <1>4, <1>9, MergeStands
<1>11. Mergeable(Merge(pending, u), ApplyOperation(shown, u), v)
  BY <1>5 DEF Mergeable, Adjacent
<1>12. made + 1 \in Nat /\ v.id = (made + 1) + 1 /\ (made + 1) + 1 = made + 2
  BY <1>1, <1>5
<1>13. Stands(Replay(server, inflight), Merge(Merge(pending, u), v), inflight, (made + 1) + 1,
              ApplyOperation(ApplyOperation(shown, u), v))
  BY <1>5, <1>10, <1>11, <1>12, MergeStands
<1>14. Stands(Replay(server', inflight'), pending', inflight', made', shown')
  BY <1>3, <1>7, <1>8, <1>12, <1>13
<1>15. Clean(ApplyOperation(shown, u))
  BY <1>1, <1>4, StaysClean
<1>16. Clean(shown')
  BY <1>5, <1>8, <1>15, StaysClean
<1> QED  BY <1>1, <1>3, <1>7, <1>14, <1>16 DEF Standing

LEMMA MakeTwoIs ==
    ASSUME made \in 0..MaxMutations, shown \in Document,
           NEW x \in FlowOperation, NEW y \in FlowOperation, y.kind = "layout", Make(<<x, y>>)
    PROVE  /\ shown' = ApplyOperation(ApplyOperation(shown, x), y)
           /\ shown' = Replay(shown, <<x, y>>)
<1> DEFINE u == WithId(x, made + 1)
           v == WithId(y, made + 2)
<1>1. Len(<<x, y>>) = 2
  OBVIOUS
<1>2. made + 2 \in 0..MaxMutations /\ made + 1 \in 0..MaxMutations
  BY <1>1, MutationsAssumption DEF Make
<1>3. /\ u \in FlowOperation /\ u.kind = x.kind /\ u.node = x.node
      /\ u.layout = x.layout /\ u.config = x.config
  BY <1>2, WithIdIs
<1>4. /\ v \in FlowOperation /\ v.kind = y.kind /\ v.node = y.node
      /\ v.layout = y.layout /\ v.config = y.config
  BY <1>2, WithIdIs
<1>5. Numbered(<<x, y>>) = <<u, v>>
  BY NumberedIs
<1> HIDE DEF u, v
<1>6. shown' = ApplyOperation(ApplyOperation(shown, u), v)
  BY <1>3, <1>4, <1>5, ReplayTwo DEF Make
<1>7. ApplyOperation(shown, u) = ApplyOperation(shown, x)
  BY <1>3, SameEffect
<1>8. ApplyOperation(shown, x) \in Document
  BY ApplyIs DEF Effect
<1>9. ApplyOperation(ApplyOperation(shown, x), v) = ApplyOperation(ApplyOperation(shown, x), y)
  BY <1>4, <1>8, SameEffect
<1> QED  BY <1>6, <1>7, <1>9, ReplayTwo

LEMMA MakeKeeps ==
    ASSUME Standing, Growing, NEW n \in Nodes, NEW ops, Allowed(ops, n, shown), Make(ops)
    PROVE  Standing' /\ shown' = Replay(shown, ops)
<1>1. /\ made \in 0..MaxMutations /\ shown \in Document
      /\ Default \in Layouts /\ {} \in SUBSET Keys
  BY DefaultAssumption DEF Standing, Stands
<1>2. CASE ops = <<Op("delete", n, Default, {})>>
  <2> DEFINE op == Op("delete", n, Default, {})
  <2>1. op \in FlowOperation /\ op.kind = "delete" /\ ops = <<op>>
    BY <1>1, <1>2, OpIs
  <2> HIDE DEF op
  <2>2. Mergeable(pending, shown, op)
    BY <2>1 DEF Mergeable, Adjacent
  <2> QED  BY <1>1, <2>1, <2>2, MakeOne, MakeOneIs
<1>3. ASSUME NEW layout \in Layouts, ops = <<Op("layout", n, layout, {})>>
      PROVE  Standing' /\ shown' = Replay(shown, ops)
  <2> DEFINE op == Op("layout", n, layout, {})
  <2>1. op \in FlowOperation /\ op.kind = "layout" /\ ops = <<op>>
    BY <1>1, <1>3, OpIs
  <2> HIDE DEF op
  <2>2. Mergeable(pending, shown, op)
    BY <2>1 DEF Mergeable, Adjacent
  <2> QED  BY <1>1, <2>1, <2>2, MakeOne, MakeOneIs
<1>4. ASSUME NEW config \in SUBSET Keys, ops = <<Op("update", n, Default, config)>>
      PROVE  Standing' /\ shown' = Replay(shown, ops)
  <2> DEFINE op == Op("update", n, Default, config)
             any == Op("update", n, Default, {})
  <2>1. /\ op \in FlowOperation /\ op.kind = "update" /\ op.node = n /\ op.config = config
        /\ ops = <<op>> /\ any.kind = "update" /\ any.node = n
    BY <1>1, <1>4, OpIs
  <2>2. Adjacent(pending, any) /\ shown'[n].exists => shown[n].config \subseteq shown'[n].config
    BY DEF Growing
  <2> HIDE DEF op, any
  <2>3. Effect(shown, op, shown')
    BY <1>1, <2>1, MakeOneIs, ApplyIs
  <2>4. ASSUME Adjacent(pending, op), shown[n].exists PROVE shown[n].config \subseteq config
    <3>1. shown'[n].exists /\ shown'[n].config = config
      BY <2>1, <2>3, <2>4 DEF Effect
    <3>2. Adjacent(pending, any)
      BY <2>1, <2>4 DEF Adjacent
    <3> QED  BY <2>2, <3>1, <3>2
  <2>5. Mergeable(pending, shown, op)
    BY <2>1, <2>4 DEF Mergeable
  <2> QED  BY <1>1, <2>1, <2>5, MakeOne, MakeOneIs
<1>5. ASSUME ~shown[n].exists, NEW config \in SUBSET Keys,
             ops = <<Op("create", n, Default, config)>>
      PROVE  Standing' /\ shown' = Replay(shown, ops)
  <2> DEFINE op == Op("create", n, Default, config)
  <2>1. op \in FlowOperation /\ op.kind = "create" /\ op.node = n /\ ops = <<op>>
    BY <1>1, <1>5, OpIs
  <2> HIDE DEF op
  <2>2. Effect(shown, op, shown')
    BY <1>1, <2>1, MakeOneIs, ApplyIs
  <2>3. shown'[n].exists
    BY <2>1, <2>2 DEF Effect
  <2>4. \A i \in DOMAIN pending : pending[i].node = n => pending[i].kind # "layout"
    BY <1>5, <2>3 DEF Growing
  <2>5. Mergeable(pending, shown, op)
    BY <2>1, <2>4 DEF Mergeable, Adjacent
  <2> QED  BY <1>1, <2>1, <2>5, MakeOne, MakeOneIs
<1>6. ASSUME ~shown[n].exists, NEW config \in SUBSET Keys, NEW layout \in Layouts,
             ops = <<Op("create", n, Default, config), Op("layout", n, layout, {})>>
      PROVE  Standing' /\ shown' = Replay(shown, ops)
  <2> DEFINE x == Op("create", n, Default, config)
             y == Op("layout", n, layout, {})
             first == ApplyOperation(shown, x)
  <2>1. /\ x \in FlowOperation /\ x.kind = "create" /\ x.node = n
        /\ y \in FlowOperation /\ y.kind = "layout" /\ y.node = n /\ ops = <<x, y>>
    BY <1>1, <1>6, OpIs
  <2> HIDE DEF x, y
  <2>2. Effect(shown, x, first)
    BY <1>1, <2>1, ApplyIs
  <2>3. first \in Document /\ shown' = ApplyOperation(first, y)
    BY <1>1, <2>1, <2>2, MakeTwoIs DEF Effect
  <2> HIDE DEF first
  <2>4. Effect(first, y, shown')
    BY <2>1, <2>3, ApplyIs
  <2>5. shown'[n].exists
    BY <2>1, <2>2, <2>4 DEF Effect
  <2>6. \A i \in DOMAIN pending : pending[i].node = n => pending[i].kind # "layout"
    BY <1>6, <2>5 DEF Growing
  <2>7. Mergeable(pending, shown, x)
    BY <2>1, <2>6 DEF Mergeable, Adjacent
  <2> QED  BY <1>1, <2>1, <2>7, MakeTwo, MakeTwoIs
<1> QED  BY <1>2, <1>3, <1>4, <1>5, <1>6 DEF Allowed

---------------------------------------------------------------------------
(* FlowEdits: histories                                                     *)

Commands == {c \in Command : EditorCommand(c)}

LEMMA TakeLast ==
    ASSUME NEW S, NEW s \in Seq(S), s # <<>>
    PROVE  /\ Len(s) \in Nat \ {0} /\ Last(s) = s[Len(s)] /\ Last(s) \in S
           /\ Front(s) \in Seq(S) /\ Len(Front(s)) = Len(s) - 1
           /\ \A k \in 1..(Len(s) - 1) : Front(s)[k] = s[k]
<1> DEFINE N == Len(s)
           f == Front(s)
<1>1. N \in Nat \ {0} /\ N = Len(s) /\ s[N] \in S
  OBVIOUS
<1>2. f \in Seq(S) /\ Len(f) = N - 1 /\ Last(s) = s[N]
  BY <1>1, LastReplaced
<1>3. /\ Append(f, s[N]) \in Seq(S)
      /\ \A k \in 1..(N - 1) : Append(f, s[N])[k] = s[k]
  BY <1>1, LastReplaced
<1> HIDE DEF f, N
<1>4. \A k \in 1..(N - 1) : Append(f, s[N])[k] = f[k]
  BY <1>1, <1>2
<1> QED  BY <1>1, <1>2, <1>3, <1>4 DEF f, N

LEMMA UndoTop ==
    ASSUME NEW S, NEW stack \in Seq(S), NEW doc, UndoHistory(stack, doc), stack # <<>>
    PROVE  \E next \in Document : Fits(Last(stack), next, doc) /\ UndoHistory(Front(stack), next)
<1> DEFINE N == Len(stack)
           front == Front(stack)
<1>1. PICK docs \in [0..N -> Document] :
        docs[N] = doc /\ \A k \in 1..N : Fits(stack[k], docs[k - 1], docs[k])
  BY DEF UndoHistory
<1>2. /\ N \in Nat \ {0} /\ Last(stack) = stack[N] /\ Len(front) = N - 1
      /\ \A k \in 1..(N - 1) : front[k] = stack[k]
  BY TakeLast
<1> HIDE DEF N, front
<1> DEFINE next == docs[N - 1]
           before == [k \in 0..(N - 1) |-> docs[k]]
<1>3. /\ next \in Document /\ before \in [0..(N - 1) -> Document]
      /\ \A k \in 0..(N - 1) : before[k] = docs[k]
  BY <1>1, <1>2
<1> HIDE DEF before
<1>4. Fits(Last(stack), next, doc)
  BY <1>1, <1>2
<1>5. ASSUME NEW k \in 1..(N - 1)
      PROVE  Fits(front[k], before[k - 1], before[k])
  <2>1. k \in 1..N /\ k \in 0..(N - 1) /\ k - 1 \in 0..(N - 1)
    BY <1>2
  <2> QED  BY <2>1, <1>1, <1>2, <1>3
<1>6. before[N - 1] = next
  BY <1>2, <1>3
<1> HIDE DEF next
<1>7. UndoHistory(front, next)
  BY <1>2, <1>3, <1>5, <1>6 DEF UndoHistory
<1> QED  BY <1>3, <1>4, <1>7 DEF next, front

LEMMA UndoPush ==
    ASSUME NEW S, NEW stack \in Seq(S), NEW doc, UndoHistory(stack, doc),
           NEW c \in S, NEW next \in Document, Fits(c, doc, next)
    PROVE  UndoHistory(Append(stack, c), next)
<1> DEFINE N == Len(stack)
           more == Append(stack, c)
<1>1. PICK docs \in [0..N -> Document] :
        docs[N] = doc /\ \A k \in 1..N : Fits(stack[k], docs[k - 1], docs[k])
  BY DEF UndoHistory
<1>2. N \in Nat /\ Len(more) = N + 1 /\ more[N + 1] = c
      /\ \A k \in 1..N : more[k] = stack[k]
  OBVIOUS
<1> HIDE DEF N, more
<1> DEFINE on == [k \in 0..(N + 1) |-> IF k = N + 1 THEN next ELSE docs[k]]
<1>3. /\ on[N + 1] = next /\ \A k \in 0..N : on[k] = docs[k]
  BY <1>2
<1>4. on \in [0..(N + 1) -> Document]
  <2>1. \A k \in 0..(N + 1) : k = N + 1 \/ k \in 0..N
    BY <1>2
  <2> QED  BY <2>1, <1>1
<1> HIDE DEF on
<1>5. ASSUME NEW k \in 1..(N + 1)
      PROVE  Fits(more[k], on[k - 1], on[k])
  <2>1. CASE k = N + 1
    <3>1. k - 1 = N /\ N \in 0..N
      BY <2>1, <1>2
    <3> QED  BY <2>1, <3>1, <1>1, <1>2, <1>3
  <2>2. CASE k \in 1..N
    <3>1. k \in 0..N /\ k - 1 \in 0..N
      BY <2>2, <1>2
    <3> QED  BY <2>2, <3>1, <1>1, <1>2, <1>3
  <2> QED  BY <2>1, <2>2, <1>2
<1>6. UndoHistory(more, next)
  BY <1>2, <1>3, <1>4, <1>5 DEF UndoHistory
<1> QED  BY <1>6 DEF more

LEMMA RedoTop ==
    ASSUME NEW S, NEW stack \in Seq(S), NEW doc, RedoHistory(stack, doc), stack # <<>>
    PROVE  \E next \in Document : Fits(Last(stack), doc, next) /\ RedoHistory(Front(stack), next)
<1> DEFINE N == Len(stack)
           front == Front(stack)
<1>1. PICK docs \in [0..N -> Document] :
        docs[N] = doc /\ \A k \in 1..N : Fits(stack[k], docs[k], docs[k - 1])
  BY DEF RedoHistory
<1>2. /\ N \in Nat \ {0} /\ Last(stack) = stack[N] /\ Len(front) = N - 1
      /\ \A k \in 1..(N - 1) : front[k] = stack[k]
  BY TakeLast
<1> HIDE DEF N, front
<1> DEFINE next == docs[N - 1]
           before == [k \in 0..(N - 1) |-> docs[k]]
<1>3. /\ next \in Document /\ before \in [0..(N - 1) -> Document]
      /\ \A k \in 0..(N - 1) : before[k] = docs[k]
  BY <1>1, <1>2
<1> HIDE DEF before
<1>4. Fits(Last(stack), doc, next)
  BY <1>1, <1>2
<1>5. ASSUME NEW k \in 1..(N - 1)
      PROVE  Fits(front[k], before[k], before[k - 1])
  <2>1. k \in 1..N /\ k \in 0..(N - 1) /\ k - 1 \in 0..(N - 1)
    BY <1>2
  <2> QED  BY <2>1, <1>1, <1>2, <1>3
<1>6. before[N - 1] = next
  BY <1>2, <1>3
<1> HIDE DEF next
<1>7. RedoHistory(front, next)
  BY <1>2, <1>3, <1>5, <1>6 DEF RedoHistory
<1> QED  BY <1>3, <1>4, <1>7 DEF next, front

LEMMA RedoPush ==
    ASSUME NEW S, NEW stack \in Seq(S), NEW doc, RedoHistory(stack, doc),
           NEW c \in S, NEW next \in Document, Fits(c, next, doc)
    PROVE  RedoHistory(Append(stack, c), next)
<1> DEFINE N == Len(stack)
           more == Append(stack, c)
<1>1. PICK docs \in [0..N -> Document] :
        docs[N] = doc /\ \A k \in 1..N : Fits(stack[k], docs[k], docs[k - 1])
  BY DEF RedoHistory
<1>2. N \in Nat /\ Len(more) = N + 1 /\ more[N + 1] = c
      /\ \A k \in 1..N : more[k] = stack[k]
  OBVIOUS
<1> HIDE DEF N, more
<1> DEFINE on == [k \in 0..(N + 1) |-> IF k = N + 1 THEN next ELSE docs[k]]
<1>3. /\ on[N + 1] = next /\ \A k \in 0..N : on[k] = docs[k]
  BY <1>2
<1>4. on \in [0..(N + 1) -> Document]
  <2>1. \A k \in 0..(N + 1) : k = N + 1 \/ k \in 0..N
    BY <1>2
  <2> QED  BY <2>1, <1>1
<1> HIDE DEF on
<1>5. ASSUME NEW k \in 1..(N + 1)
      PROVE  Fits(more[k], on[k], on[k - 1])
  <2>1. CASE k = N + 1
    <3>1. k - 1 = N /\ N \in 0..N
      BY <2>1, <1>2
    <3> QED  BY <2>1, <3>1, <1>1, <1>2, <1>3
  <2>2. CASE k \in 1..N
    <3>1. k \in 0..N /\ k - 1 \in 0..N
      BY <2>2, <1>2
    <3> QED  BY <2>2, <3>1, <1>1, <1>2, <1>3
  <2> QED  BY <2>1, <2>2, <1>2
<1>6. RedoHistory(more, next)
  BY <1>2, <1>3, <1>4, <1>5 DEF RedoHistory
<1> QED  BY <1>6 DEF more

\* The oldest commands may be forgotten.
LEMMA RecentHistory ==
    ASSUME NEW S, NEW stack \in Seq(S), NEW doc, UndoHistory(stack, doc)
    PROVE  Recent(stack) \in Seq(S) /\ UndoHistory(Recent(stack), doc)
<1> DEFINE N == Len(stack)
           d == N - MaxHistory + 1
           rest == SubSeq(stack, d + 1, N)
<1>1. CASE N < MaxHistory
  BY <1>1 DEF Recent
<1>2. CASE ~(N < MaxHistory)
  <2>1. PICK docs \in [0..N -> Document] :
          docs[N] = doc /\ \A k \in 1..N : Fits(stack[k], docs[k - 1], docs[k])
    BY DEF UndoHistory
  <2>2. N \in Nat /\ d \in 1..N /\ d + 1 \in Nat /\ N - d \in Nat
    BY <1>2, HistoryAssumption
  <2>3. Recent(stack) = rest
    <3>1. N - MaxHistory + 2 = d + 1
      BY HistoryAssumption
    <3> QED  BY <1>2, <3>1 DEF Recent
  <2>4. stack \in Seq(S) /\ N = Len(stack)
    OBVIOUS
  <2> HIDE DEF N, d
  <2>5. rest \in Seq(S) /\ Len(rest) = N - d /\ \A k \in 1..(N - d) : rest[k] = stack[k + d]
    <3>1. Len(rest) = N - d
      BY <2>2, <2>4
    <3>2. \A k \in 1..(N - d) : rest[k] = stack[k + d] /\ stack[k + d] \in S
      BY <2>2, <2>4
    <3>3. rest \in Seq(S)
      BY <2>2, <2>4
    <3> QED  BY <3>1, <3>2, <3>3
  <2> HIDE DEF rest
  <2> DEFINE later == [k \in 0..(N - d) |-> docs[k + d]]
  <2>6. \A k \in 0..(N - d) : later[k] = docs[k + d] /\ k + d \in 0..N
    BY <2>2
  <2>7. later \in [0..(N - d) -> Document] /\ later[N - d] = doc
    <3>1. (N - d) + d = N /\ N - d \in 0..(N - d)
      BY <2>2
    <3> QED  BY <3>1, <2>1, <2>6
  <2> HIDE DEF later
  <2>8. ASSUME NEW k \in 1..(N - d)
        PROVE  Fits(rest[k], later[k - 1], later[k])
    <3>1. /\ k + d \in 1..N /\ k \in 0..(N - d) /\ k - 1 \in 0..(N - d)
          /\ (k - 1) + d = (k + d) - 1
      BY <2>2
    <3> QED  BY <3>1, <2>1, <2>5, <2>6
  <2>9. UndoHistory(rest, doc)
    BY <2>5, <2>7, <2>8 DEF UndoHistory
  <2> QED  BY <2>3, <2>5, <2>9
<1> QED  BY <1>1, <1>2

LEMMA NoHistory ==
    ASSUME NEW doc \in Document
    PROVE  UndoHistory(<<>>, doc) /\ RedoHistory(<<>>, doc)
<1> DEFINE docs == [k \in 0..0 |-> doc]
<1>1. docs \in [0..0 -> Document] /\ docs[0] = doc /\ Len(<<>>) = 0
  OBVIOUS
<1> HIDE DEF docs
<1>2. \A k \in 1..0 : FALSE
  OBVIOUS
<1> QED  BY <1>1, <1>2 DEF UndoHistory, RedoHistory

---------------------------------------------------------------------------
(* FlowEdits: commands undo what they do                                    *)

LEMMA SameAsBefore ==
    ASSUME NEW doc \in Document, NEW e \in Document, NEW n \in Nodes, doc[n].exists,
           \A m \in Nodes : m # n => e[m] = doc[m],
           e[n].exists, e[n].layout = doc[n].layout, e[n].config = doc[n].config
    PROVE  e = doc
<1>1. e[n] = doc[n]
  BY SameNode
<1>2. \A m \in Nodes : e[m] = doc[m]
  BY <1>1
<1> QED  BY <1>2, SameDocument

LEMMA NodeIs ==
    ASSUME NEW doc \in Document, NEW n \in Nodes
    PROVE  /\ doc[n].layout \in Layouts /\ doc[n].config \in SUBSET Keys
           /\ doc[n].exists \in BOOLEAN
BY DEF Document, Node

LEMMA InverseFits ==
    ASSUME NEW doc, Clean(doc), NEW n \in Nodes, NEW group \in {"none", n}, NEW op,
           \/ ~doc[n].exists /\ group = "none"
                /\ \E config \in SUBSET Keys : op = Op("create", n, Default, config)
           \/ doc[n].exists /\ group = "none" /\ op = Op("delete", n, Default, {})
           \/ doc[n].exists /\ group = "none"
                /\ \E layout \in Layouts : op = Op("layout", n, layout, {})
           \/ doc[n].exists /\ \E config \in SUBSET Keys : op = Op("update", n, Default, config)
    PROVE  LET c == [undo |-> InverseOf(doc, op), redo |-> <<op>>, group |-> group] IN
           /\ op \in FlowOperation /\ c \in Commands
           /\ ApplyOperation(doc, op) \in Document /\ Fits(c, doc, ApplyOperation(doc, op))
<1> DEFINE c == [undo |-> InverseOf(doc, op), redo |-> <<op>>, group |-> group]
           after == ApplyOperation(doc, op)
           old == doc[n]
<1>1. /\ doc \in Document /\ Default \in Layouts /\ {} \in SUBSET Keys
      /\ old.layout \in Layouts /\ old.config \in SUBSET Keys
  BY DefaultAssumption, NodeIs DEF Clean
<1>2. ASSUME NEW inverse \in Seq(FlowOperation), InverseOf(doc, op) = inverse,
             op \in FlowOperation, Replay(after, inverse) = doc,
             \A x : x.undo = inverse /\ x.redo = <<op>> =>
                 \/ Updates(x, n)
                 \/ group = "none" /\ (Creates(x, n) \/ Deletes(x, n) \/ Arranges(x, n))
      PROVE  /\ op \in FlowOperation /\ c \in Commands
             /\ ApplyOperation(doc, op) \in Document /\ Fits(c, doc, after)
  <2>1. c.undo = inverse /\ c.redo = <<op>> /\ c.group = group
    BY <1>2
  <2>2. c \in Command
    BY <1>2 DEF Command
  <2>3. Effect(doc, op, after)
    BY <1>1, <1>2, ApplyIs
  <2>4. Replay(doc, <<op>>) = after
    BY <1>1, <1>2, ReplayOne
  <2> HIDE DEF c, after
  <2>5. EditorCommand(c)
    BY <2>1, <1>2 DEF EditorCommand
  <2>6. Fits(c, doc, after)
    BY <2>1, <2>4, <1>2 DEF Fits
  <2> QED  BY <1>2, <2>2, <2>3, <2>5, <2>6 DEF Commands, Effect, after
<1>3. ASSUME ~old.exists, group = "none",
             NEW config \in SUBSET Keys, op = Op("create", n, Default, config)
      PROVE  /\ op \in FlowOperation /\ c \in Commands
             /\ ApplyOperation(doc, op) \in Document /\ Fits(c, doc, after)
  <2> DEFINE x == Op("delete", n, Default, {})
             e == ApplyOperation(after, x)
  <2>1. /\ op \in FlowOperation /\ op.kind = "create" /\ op.node = n
        /\ x \in FlowOperation /\ x.kind = "delete" /\ x.node = n
    BY <1>1, <1>3, OpIs
  <2>2. InverseOf(doc, op) = <<x>>
    BY <2>1 DEF InverseOf
  <2>3. Effect(doc, op, after)
    BY <1>1, <2>1, ApplyIs
  <2>3a. after \in Document
    BY <2>3 DEF Effect
  <2>3b. Effect(after, x, e)
    BY <2>1, <2>3a, ApplyIs
  <2>3c. Replay(after, <<x>>) = e
    BY <2>1, <2>3a, ReplayOne
  <2>4. Effect(after, x, e) /\ Replay(after, <<x>>) = e
    BY <2>3b, <2>3c
  <2>5. \A y : y.undo = <<x>> /\ y.redo = <<op>> => Creates(y, n)
    BY <1>3 DEF Creates
  <2> HIDE DEF x, e, after, c
  <2>6. e[n] = Absent /\ old = Absent /\ \A m \in Nodes : m # n => e[m] = doc[m]
    BY <1>3, <2>1, <2>3, <2>4 DEF Effect, Clean
  <2>7. e = doc
    <3>1. \A m \in Nodes : e[m] = doc[m]
      BY <2>6
    <3> QED  BY <3>1, <1>1, <2>4, SameDocument DEF Effect
  <2>8. <<x>> \in Seq(FlowOperation)
    BY <2>1
  <2> QED  BY <1>2, <1>3, <2>1, <2>2, <2>4, <2>5, <2>7, <2>8
<1>4. ASSUME old.exists, group = "none", op = Op("delete", n, Default, {})
      PROVE  /\ op \in FlowOperation /\ c \in Commands
             /\ ApplyOperation(doc, op) \in Document /\ Fits(c, doc, after)
  <2> DEFINE x == Op("create", n, Default, old.config)
             y == Op("layout", n, old.layout, {})
             first == ApplyOperation(after, x)
             e == ApplyOperation(first, y)
  <2>1. /\ op \in FlowOperation /\ op.kind = "delete" /\ op.node = n
        /\ x \in FlowOperation /\ x.kind = "create" /\ x.node = n /\ x.config = old.config
        /\ y \in FlowOperation /\ y.kind = "layout" /\ y.node = n /\ y.layout = old.layout
    BY <1>1, <1>4, OpIs
  <2>2. InverseOf(doc, op) = <<x, y>>
    BY <1>4, <2>1 DEF InverseOf
  <2>3. Effect(doc, op, after)
    BY <1>1, <2>1, ApplyIs
  <2>3a. after \in Document
    BY <2>3 DEF Effect
  <2>4. Effect(after, x, first)
    BY <2>1, <2>3a, ApplyIs
  <2>4a. first \in Document
    BY <2>4 DEF Effect
  <2>5. Effect(first, y, e)
    BY <2>1, <2>4a, ApplyIs
  <2>5a. Replay(after, <<x, y>>) = e
    BY <2>1, <2>3a, ReplayTwo
  <2>6. \A z : z.undo = <<x, y>> /\ z.redo = <<op>> => Deletes(z, n)
    BY <1>1, <1>4 DEF Deletes
  <2> HIDE DEF x, y, first, e, after, c
  <2>7. /\ e[n].exists /\ e[n].layout = old.layout /\ e[n].config = old.config
        /\ e \in Document /\ \A m \in Nodes : m # n => e[m] = doc[m]
    BY <2>1, <2>3, <2>4, <2>5 DEF Effect
  <2>8. e = doc
    BY <2>7, <1>1, <1>4, SameAsBefore
  <2>9. <<x, y>> \in Seq(FlowOperation)
    BY <2>1
  <2> QED  BY <1>2, <1>4, <2>1, <2>2, <2>5a, <2>6, <2>8, <2>9
<1>5. ASSUME old.exists, group = "none",
             NEW layout \in Layouts, op = Op("layout", n, layout, {})
      PROVE  /\ op \in FlowOperation /\ c \in Commands
             /\ ApplyOperation(doc, op) \in Document /\ Fits(c, doc, after)
  <2> DEFINE x == Op("layout", n, old.layout, {})
             e == ApplyOperation(after, x)
  <2>1. /\ op \in FlowOperation /\ op.kind = "layout" /\ op.node = n
        /\ x \in FlowOperation /\ x.kind = "layout" /\ x.node = n /\ x.layout = old.layout
    BY <1>1, <1>5, OpIs
  <2>2. InverseOf(doc, op) = <<x>>
    BY <1>5, <2>1 DEF InverseOf
  <2>3. Effect(doc, op, after)
    BY <1>1, <2>1, ApplyIs
  <2>3a. after \in Document
    BY <2>3 DEF Effect
  <2>3b. Effect(after, x, e)
    BY <2>1, <2>3a, ApplyIs
  <2>3c. Replay(after, <<x>>) = e
    BY <2>1, <2>3a, ReplayOne
  <2>4. Effect(after, x, e) /\ Replay(after, <<x>>) = e
    BY <2>3b, <2>3c
  <2>5. \A y : y.undo = <<x>> /\ y.redo = <<op>> => Arranges(y, n)
    BY <1>1, <1>5 DEF Arranges
  <2> HIDE DEF x, e, after, c
  <2>6. /\ e[n].exists /\ e[n].layout = old.layout /\ e[n].config = old.config
        /\ e \in Document /\ \A m \in Nodes : m # n => e[m] = doc[m]
    BY <1>5, <2>1, <2>3, <2>4 DEF Effect
  <2>7. e = doc
    BY <2>6, <1>1, <1>5, SameAsBefore
  <2>8. <<x>> \in Seq(FlowOperation)
    BY <2>1
  <2> QED  BY <1>2, <1>5, <2>1, <2>2, <2>4, <2>5, <2>7, <2>8
<1>6. ASSUME old.exists, NEW config \in SUBSET Keys, op = Op("update", n, Default, config)
      PROVE  /\ op \in FlowOperation /\ c \in Commands
             /\ ApplyOperation(doc, op) \in Document /\ Fits(c, doc, after)
  <2> DEFINE x == Op("update", n, Default, old.config)
             e == ApplyOperation(after, x)
  <2>1. /\ op \in FlowOperation /\ op.kind = "update" /\ op.node = n
        /\ x \in FlowOperation /\ x.kind = "update" /\ x.node = n /\ x.config = old.config
    BY <1>1, <1>6, OpIs
  <2>2. InverseOf(doc, op) = <<x>>
    BY <1>6, <2>1 DEF InverseOf
  <2>3. Effect(doc, op, after)
    BY <1>1, <2>1, ApplyIs
  <2>3a. after \in Document
    BY <2>3 DEF Effect
  <2>3b. Effect(after, x, e)
    BY <2>1, <2>3a, ApplyIs
  <2>3c. Replay(after, <<x>>) = e
    BY <2>1, <2>3a, ReplayOne
  <2>4. Effect(after, x, e) /\ Replay(after, <<x>>) = e
    BY <2>3b, <2>3c
  <2>5. \A y : y.undo = <<x>> /\ y.redo = <<op>> => Updates(y, n)
    BY <1>1, <1>6 DEF Updates
  <2> HIDE DEF x, e, after, c
  <2>6. /\ e[n].exists /\ e[n].layout = old.layout /\ e[n].config = old.config
        /\ e \in Document /\ \A m \in Nodes : m # n => e[m] = doc[m]
    BY <1>6, <2>1, <2>3, <2>4 DEF Effect
  <2>7. e = doc
    BY <2>6, <1>1, <1>6, SameAsBefore
  <2>8. <<x>> \in Seq(FlowOperation)
    BY <2>1
  <2> QED  BY <1>2, <2>1, <2>2, <2>4, <2>5, <2>7, <2>8
<1> HIDE DEF c, after
<1>7. /\ op \in FlowOperation /\ c \in Commands
      /\ ApplyOperation(doc, op) \in Document /\ Fits(c, doc, after)
  BY <1>3, <1>4, <1>5, <1>6
<1> QED  BY <1>7 DEF c, after

---------------------------------------------------------------------------
(* FlowEdits: every step keeps the invariant                                *)

\* What the user may do to node n.
Edited(op, group, n) ==
    \/ ~shown[n].exists /\ group = "none"
         /\ \E config \in SUBSET Keys : op = Op("create", n, Default, config)
    \/ shown[n].exists /\ group = "none" /\ op = Op("delete", n, Default, {})
    \/ shown[n].exists /\ group = "none"
         /\ \E layout \in Layouts : op = Op("layout", n, layout, {})
    \/ shown[n].exists /\ \E config \in SUBSET Keys : op = Op("update", n, Default, config)

LEMMA EditKeeps ==
    ASSUME EditorIInv, Growing, NEW n \in Nodes, NEW group \in {"none", n}, NEW op,
           Edited(op, group, n), Edit(op, group)
    PROVE  EditorIInv'
<1> DEFINE c == [undo |-> InverseOf(shown, op), redo |-> <<op>>, group |-> group]
<1>1. /\ Standing /\ Clean(shown) /\ shown \in Document
      /\ undo \in Seq(Commands) /\ UndoHistory(undo, shown)
  BY DEF EditorIInv, Standing, Stands, Histories, Commands
<1>2. Allowed(<<op>>, n, shown)
  BY DEF Allowed, Edited
<1>3. Make(<<op>>)
  BY DEF Edit
<1>4. Standing' /\ shown' = Replay(shown, <<op>>)
  BY <1>1, <1>2, <1>3, MakeKeeps
<1>5. op \in FlowOperation /\ c \in Commands /\ Fits(c, shown, ApplyOperation(shown, op))
      /\ ApplyOperation(shown, op) \in Document
  BY <1>1, InverseFits DEF Edited
<1>6. shown' = ApplyOperation(shown, op) /\ shown' \in Document
  BY <1>1, <1>4, <1>5, ReplayOne
<1>7. redo' = <<>> /\ undo' = IF undo # <<>> /\ group # "none" /\ Last(undo).group = group
                              THEN Append(Front(undo), [Last(undo) EXCEPT !.redo = <<op>>])
                              ELSE Append(Recent(undo), c)
  BY DEF Edit
<1> HIDE DEF c
<1>8. undo' \in Seq(Commands) /\ UndoHistory(undo', shown')
  <2>1. CASE ~(undo # <<>> /\ group # "none" /\ Last(undo).group = group)
    <3>1. undo' = Append(Recent(undo), c)
      BY <2>1, <1>7
    <3>2. Recent(undo) \in Seq(Commands) /\ UndoHistory(Recent(undo), shown)
      BY <1>1, RecentHistory
    <3> QED  BY <3>1, <3>2, <1>5, <1>6, UndoPush
  <2>2. CASE undo # <<>> /\ group # "none" /\ Last(undo).group = group
    <3> DEFINE l == Last(undo)
               more == [l EXCEPT !.redo = <<op>>]
    <3>1. l \in Commands /\ Front(undo) \in Seq(Commands) /\ group = n /\ l.group = n
          /\ l.group # "none" /\ undo' = Append(Front(undo), more)
      BY <2>2, <1>1, <1>7, TakeLast
    <3>2. PICK before \in Document :
            Fits(l, before, shown) /\ UndoHistory(Front(undo), before)
      BY <2>2, <1>1, UndoTop
    <3> HIDE DEF l
    <3>3. PICK old \in SUBSET Keys : l.undo = <<Op("update", n, Default, old)>>
      BY <3>1 DEF Commands, EditorCommand, Updates
    <3>4. PICK config \in SUBSET Keys : op = Op("update", n, Default, config)
      BY <2>2 DEF Edited
    <3> DEFINE u == Op("update", n, Default, old)
    <3>5. /\ u \in FlowOperation /\ u.kind = "update" /\ u.node = n
          /\ op.kind = "update" /\ op.node = n
      BY <3>4, DefaultAssumption, OpIs
    <3>6. more \in Commands /\ more.undo = <<u>> /\ more.redo = <<op>>
      <4>1. l \in Command
        BY <3>1 DEF Commands
      <4>2. <<op>> \in Seq(FlowOperation)
        BY <1>5
      <4>3. /\ more \in Command /\ more.undo = l.undo /\ more.redo = <<op>>
            /\ more.group = l.group
        BY <4>1, <4>2 DEF Command
      <4> HIDE DEF more
      <4>4. Updates(more, n)
        BY <4>3, <3>3, <3>4 DEF Updates
      <4>5. EditorCommand(more)
        BY <4>3, <4>4, <3>1 DEF EditorCommand
      <4> QED  BY <4>3, <4>5, <3>3 DEF Commands
    <3> HIDE DEF more, u
    <3>7. before = ApplyOperation(shown, u)
      BY <3>2, <3>3, <3>5, <1>1, ReplayOne DEF Fits, u
    <3>8. Replay(shown', more.undo) = before
      <4>1. Replay(shown', <<u>>) = ApplyOperation(shown', u)
        BY <3>5, <1>6, ReplayOne
      <4>2. ApplyOperation(ApplyOperation(shown, op), u) = ApplyOperation(shown, u)
        BY <3>5, <1>1, <1>5, LaterCounts
      <4> QED  BY <4>1, <4>2, <3>6, <3>7, <1>6
    <3>9. Replay(before, more.redo) = shown'
      <4>1. Replay(before, <<op>>) = ApplyOperation(before, op)
        BY <3>2, <1>5, ReplayOne
      <4>2. ApplyOperation(ApplyOperation(shown, u), op) = ApplyOperation(shown, op)
        BY <3>5, <1>1, <1>5, LaterCounts
      <4> QED  BY <4>1, <4>2, <3>6, <3>7, <1>6
    <3>10. Fits(more, before, shown')
      BY <3>8, <3>9 DEF Fits
    <3>11. UndoHistory(Append(Front(undo), more), shown')
      BY <3>1, <3>2, <3>6, <3>10, <1>6, UndoPush
    <3> QED  BY <3>1, <3>6, <3>11
  <2> QED  BY <2>1, <2>2
<1>9. redo' \in Seq(Commands) /\ RedoHistory(redo', shown')
  BY <1>6, <1>7, NoHistory
<1> QED  BY <1>4, <1>8, <1>9 DEF EditorIInv, Histories, Commands

LEMMA ChangeKeeps ==
    ASSUME EditorIInv, Growing, NEW n \in Nodes, Change(n)
    PROVE  EditorIInv'
<1>1. CASE Delete(n)
  <2>1. Edited(Op("delete", n, Default, {}), "none", n) /\ Edit(Op("delete", n, Default, {}), "none")
    BY <1>1 DEF Delete, Edited
  <2> QED  BY <2>1, EditKeeps
<1>2. ASSUME NEW config \in SUBSET Keys, Create(n, config) PROVE EditorIInv'
  <2> DEFINE op == Op("create", n, Default, config)
  <2>1. Edited(op, "none", n) /\ Edit(op, "none")
    BY <1>2 DEF Create, Edited
  <2> HIDE DEF op
  <2> QED  BY <2>1, EditKeeps
<1>3. ASSUME NEW config \in SUBSET Keys, Update(n, config) PROVE EditorIInv'
  <2> DEFINE op == Op("update", n, Default, config)
  <2>1. PICK group \in {"none", n} : shown[n].exists /\ Edit(op, group)
    BY <1>3 DEF Update
  <2>2. Edited(op, group, n)
    BY <2>1 DEF Edited
  <2> HIDE DEF op
  <2> QED  BY <2>1, <2>2, EditKeeps
<1>4. ASSUME NEW layout \in Layouts, Arrange(n, layout) PROVE EditorIInv'
  <2> DEFINE op == Op("layout", n, layout, {})
  <2>1. Edited(op, "none", n) /\ Edit(op, "none")
    BY <1>4 DEF Arrange, Edited
  <2> HIDE DEF op
  <2> QED  BY <2>1, EditKeeps
<1> QED  BY <1>1, <1>2, <1>3, <1>4 DEF Change

\* A node that a command deletes is gone when it has been done.
LEMMA GoneAfter ==
    ASSUME NEW doc \in Document, NEW n \in Nodes
    PROVE  ~Replay(doc, <<Op("delete", n, Default, {})>>)[n].exists
<1> DEFINE x == Op("delete", n, Default, {})
           e == ApplyOperation(doc, x)
<1>1. x \in FlowOperation /\ x.kind = "delete" /\ x.node = n
  BY DefaultAssumption, OpIs
<1>2. Effect(doc, x, e) /\ Replay(doc, <<x>>) = e
  BY <1>1, ApplyIs, ReplayOne
<1> HIDE DEF x, e
<1>3. e[n] = Absent
  BY <1>1, <1>2 DEF Effect
<1>4. ~Replay(doc, <<x>>)[n].exists
  BY <1>2, <1>3 DEF Absent
<1> QED  BY <1>4 DEF x

LEMMA UndoKeeps ==
    ASSUME EditorIInv, Growing, Undo
    PROVE  EditorIInv'
<1> DEFINE c == Last(undo)
<1>1. /\ Standing /\ shown \in Document
      /\ undo \in Seq(Commands) /\ UndoHistory(undo, shown)
      /\ redo \in Seq(Commands) /\ RedoHistory(redo, shown)
  BY DEF EditorIInv, Standing, Stands, Histories, Commands
<1>2. /\ undo # <<>> /\ Make(c.undo)
      /\ undo' = Front(undo) /\ redo' = Append(redo, c)
  BY DEF Undo
<1>3. c \in Commands /\ Front(undo) \in Seq(Commands)
  BY <1>1, <1>2, TakeLast
<1>4. PICK before \in Document : Fits(c, before, shown) /\ UndoHistory(Front(undo), before)
  BY <1>1, <1>2, UndoTop
<1> HIDE DEF c
<1>5. PICK n \in Nodes : Updates(c, n) \/ Creates(c, n) \/ Deletes(c, n) \/ Arranges(c, n)
  BY <1>3 DEF Commands, EditorCommand
<1>6. Allowed(c.undo, n, shown)
  <2>1. CASE Updates(c, n)
    BY <2>1 DEF Updates, Allowed
  <2>2. CASE Creates(c, n)
    BY <2>2 DEF Creates, Allowed
  <2>3. CASE Deletes(c, n)
    <3>1. c.redo = <<Op("delete", n, Default, {})>>
      BY <2>3 DEF Deletes
    <3>2. Replay(before, c.redo) = shown
      BY <1>4 DEF Fits
    <3>3. ~shown[n].exists
      BY <3>1, <3>2, GoneAfter
    <3> QED  BY <2>3, <3>3 DEF Deletes, Allowed
  <2>4. CASE Arranges(c, n)
    BY <2>4 DEF Arranges, Allowed
  <2> QED  BY <1>5, <2>1, <2>2, <2>3, <2>4
<1>7. Standing' /\ shown' = Replay(shown, c.undo)
  BY <1>1, <1>2, <1>6, MakeKeeps
<1>8. shown' = before
  BY <1>4, <1>7 DEF Fits
<1>9. undo' \in Seq(Commands) /\ UndoHistory(undo', shown')
  BY <1>2, <1>3, <1>4, <1>8
<1>10. redo' \in Seq(Commands) /\ RedoHistory(redo', shown')
  BY <1>1, <1>2, <1>3, <1>4, <1>8, RedoPush
<1> QED  BY <1>7, <1>9, <1>10 DEF EditorIInv, Histories, Commands

LEMMA RedoKeeps ==
    ASSUME EditorIInv, Growing, Redo
    PROVE  EditorIInv'
<1> DEFINE c == Last(redo)
<1>1. /\ Standing /\ shown \in Document
      /\ undo \in Seq(Commands) /\ UndoHistory(undo, shown)
      /\ redo \in Seq(Commands) /\ RedoHistory(redo, shown)
  BY DEF EditorIInv, Standing, Stands, Histories, Commands
<1>2. /\ redo # <<>> /\ Make(c.redo)
      /\ redo' = Front(redo) /\ undo' = Append(undo, c)
  BY DEF Redo
<1>3. c \in Commands /\ Front(redo) \in Seq(Commands)
  BY <1>1, <1>2, TakeLast
<1>4. PICK after \in Document : Fits(c, shown, after) /\ RedoHistory(Front(redo), after)
  BY <1>1, <1>2, RedoTop
<1> HIDE DEF c
<1>5. PICK n \in Nodes : Updates(c, n) \/ Creates(c, n) \/ Deletes(c, n) \/ Arranges(c, n)
  BY <1>3 DEF Commands, EditorCommand
<1>6. Allowed(c.redo, n, shown)
  <2>1. CASE Updates(c, n)
    BY <2>1 DEF Updates, Allowed
  <2>2. CASE Creates(c, n)
    <3>1. c.undo = <<Op("delete", n, Default, {})>>
      BY <2>2 DEF Creates
    <3>2. Replay(after, c.undo) = shown
      BY <1>4 DEF Fits
    <3>3. ~shown[n].exists
      BY <3>1, <3>2, GoneAfter
    <3> QED  BY <2>2, <3>3 DEF Creates, Allowed
  <2>3. CASE Deletes(c, n)
    BY <2>3 DEF Deletes, Allowed
  <2>4. CASE Arranges(c, n)
    BY <2>4 DEF Arranges, Allowed
  <2> QED  BY <1>5, <2>1, <2>2, <2>3, <2>4
<1>7. Standing' /\ shown' = Replay(shown, c.redo)
  BY <1>1, <1>2, <1>6, MakeKeeps
<1>8. shown' = after
  BY <1>4, <1>7 DEF Fits
<1>9. redo' \in Seq(Commands) /\ RedoHistory(redo', shown')
  BY <1>2, <1>3, <1>4, <1>8
<1>10. undo' \in Seq(Commands) /\ UndoHistory(undo', shown')
  BY <1>1, <1>2, <1>3, <1>4, <1>8, UndoPush
<1> QED  BY <1>7, <1>9, <1>10 DEF EditorIInv, Histories, Commands

\* All of the outbox is sent, and none of it is committed yet.
LEMMA SendKeeps ==
    ASSUME EditorIInv, Send
    PROVE  EditorIInv'
<1>1. /\ made \in 0..MaxMutations /\ server \in Document /\ Clean(shown) /\ shown \in Document
      /\ pending \in Seq(Known(made)) /\ Arranged(pending) /\ EndsWith(pending, shown)
      /\ Means(Replay(server, inflight), pending, inflight, shown)
  BY DEF EditorIInv, Standing, Stands, Queued
<1>2. /\ inflight = <<>> /\ pending # <<>> /\ inflight' = pending
      /\ UNCHANGED <<server, shown, pending, undo, redo, made>>
  BY DEF Send
<1>3. pending \in Seq(FlowOperation) /\ <<>> \in Seq(FlowOperation)
      /\ Len(pending) \in Nat /\ DOMAIN pending = 1..Len(pending)
  BY <1>1, KnownOperations
<1>4. \A i \in DOMAIN pending : pending[i].id \in Accepted(pending)
  BY DEF Accepted
<1>5. Accepted(<<>>) = {}
  BY DEF Accepted
<1>6. Uncommitted(pending, <<>>) = pending
  <2> DEFINE rest == Uncommitted(pending, <<>>)
  <2>1. rest \in Seq(FlowOperation) /\ KeptOf(pending, {}, Len(pending), rest)
    BY <1>3, <1>5, UncommittedFacts
  <2> HIDE DEF rest
  <2>2. Len(rest) = Len(pending) /\ \A i \in 1..Len(pending) : rest[i] = pending[i]
    BY <2>1 DEF KeptOf
  <2>3. rest = pending
    BY <2>1, <2>2, <1>3
  <2> QED  BY <2>3 DEF rest
<1>7. Uncommitted(pending, pending) = <<>>
  <2> DEFINE rest == Uncommitted(pending, pending)
  <2>1. rest \in Seq(FlowOperation) /\ KeptOf(pending, Accepted(pending), Len(pending), rest)
    BY <1>3, UncommittedFacts
  <2> HIDE DEF rest
  <2>2. \A j \in 1..Len(rest) : FALSE
    BY <2>1, <1>3, <1>4 DEF KeptOf
  <2>3. rest = <<>>
    BY <2>1, <2>2
  <2> QED  BY <2>3 DEF rest
<1>8. Replay(server, pending) = shown /\ Replay(server, pending) \in Document
  BY <1>1, <1>2, <1>3, <1>6, ReplayNone, ReplayTyped DEF Means
<1>9. Means(Replay(server, pending), pending, pending, shown)
  BY <1>7, <1>8, ReplayNone DEF Means
<1>10. Queued(pending, pending, made)
  BY <1>1, <1>3, <1>4 DEF Queued
<1>11. Stands(Replay(server', inflight'), pending', inflight', made', shown')
  BY <1>1, <1>2, <1>8, <1>9, <1>10 DEF Stands
<1>12. Standing'
  BY <1>1, <1>2, <1>11 DEF Standing
<1>13. Histories'
  BY <1>2 DEF EditorIInv, Histories
<1> QED  BY <1>12, <1>13 DEF EditorIInv

\* The backend has taken the batch; what was merged meanwhile is still to come.
LEMMA CommitKeeps ==
    ASSUME EditorIInv, Commit
    PROVE  EditorIInv'
<1> DEFINE B == Accepted(inflight)
           rest == Uncommitted(pending, inflight)
           N == Len(pending)
<1>1. /\ made \in 0..MaxMutations /\ server \in Document /\ Clean(shown) /\ shown \in Document
      /\ pending \in Seq(Known(made)) /\ inflight \in Seq(Known(made))
      /\ Arranged(pending) /\ EndsWith(pending, shown)
      /\ Len(inflight) <= N
      /\ Means(Replay(server, inflight), pending, inflight, shown)
      /\ Replay(server, inflight) \in Document
  BY DEF EditorIInv, Standing, Stands, Queued
<1>2. /\ inflight # <<>> /\ server' = Replay(server, inflight) /\ pending' = rest
      /\ inflight' = <<>> /\ UNCHANGED <<shown, undo, redo, made>>
  BY DEF Commit
<1>3. pending \in Seq(FlowOperation) /\ <<>> \in Seq(Known(made))
      /\ N \in Nat /\ DOMAIN pending = 1..N
  BY <1>1, KnownOperations
<1>4. rest \in Seq(Known(made)) /\ KeptOf(pending, B, N, rest)
  BY <1>1, UncommittedFacts
<1>5. ASSUME NEW i \in 1..N
      PROVE  /\ i < Len(inflight) /\ pending[i].id \notin B => pending[i].kind = "layout"
             /\ i > Len(inflight) => pending[i].id \notin B
  BY <1>3 DEF EditorIInv, Standing, Stands, Queued
<1> HIDE DEF B, rest, N
<1>6. /\ DOMAIN rest = 1..Len(rest) /\ Len(rest) \in Nat
      /\ Len(inflight) \in Nat \ {0} /\ Accepted(<<>>) = {} /\ Len(<<>>) = 0
  BY <1>1, <1>2, <1>4 DEF Accepted
<1>7. Arranged(rest)
  <2> SUFFICES ASSUME NEW j \in 1..Len(rest), NEW l \in 1..Len(rest), j < l,
                      rest[j].kind = "layout", rest[l].node = rest[j].node
               PROVE  rest[l].kind \notin {"layout", "create"}
    BY <1>6 DEF Arranged
  <2>1. PICK i \in 1..N, m \in 1..N : i < m /\ rest[j] = pending[i] /\ rest[l] = pending[m]
    BY <1>4 DEF KeptOf
  <2> QED  BY <2>1, <1>1, <1>3 DEF Arranged
<1>8. EndsWith(rest, shown)
  <2> SUFFICES ASSUME rest # <<>>, rest[Len(rest)].kind = "update",
                      shown[rest[Len(rest)].node].exists
               PROVE  shown[rest[Len(rest)].node].config = rest[Len(rest)].config
    BY DEF EndsWith
  <2> DEFINE L == Len(rest)
  <2>1. L \in 1..Len(rest) /\ \A j \in 1..Len(rest) : j <= L
    BY <1>4, <1>6
  <2>2. PICK i \in 1..N : rest[L] = pending[i] /\ pending[i].id \notin B
    BY <2>1, <1>4 DEF KeptOf
  <2>3. i >= Len(inflight)
    BY <2>2, <1>5, <1>6
  <2>4. rest[L] = pending[N]
    <3>1. CASE i = N
      BY <3>1, <2>2
    <3>2. CASE i # N
      <4>1. N \in 1..N /\ N > Len(inflight)
        BY <3>2, <2>3, <1>3, <1>6
      <4>2. pending[N].id \notin B
        BY <4>1, <1>5
      <4> QED  BY <4>1, <4>2, <1>4 DEF KeptOf
    <3> QED  BY <3>1, <3>2
  <2>5. pending # <<>>
    BY <2>2, <1>3
  <2> QED  BY <2>4, <2>5, <1>1 DEF EndsWith, N
<1>9. Uncommitted(rest, <<>>) = rest
  <2>1. rest \in Seq(FlowOperation)
    BY <1>4, KnownOperations
  <2> DEFINE left == Uncommitted(rest, <<>>)
  <2>2. left \in Seq(FlowOperation) /\ KeptOf(rest, {}, Len(rest), left)
    BY <2>1, <1>6, UncommittedFacts
  <2> HIDE DEF left
  <2>3. Len(left) = Len(rest) /\ \A i \in 1..Len(rest) : left[i] = rest[i]
    BY <2>2 DEF KeptOf
  <2>4. left = rest
    BY <2>1, <2>2, <2>3
  <2> QED  BY <2>4 DEF left
<1>10. Means(Replay(Replay(server, inflight), <<>>), rest, <<>>, shown)
  BY <1>1, <1>9, ReplayNone DEF Means, rest
<1>11. Queued(rest, <<>>, made)
  BY <1>3, <1>4, <1>6, <1>7 DEF Queued
<1>12. Replay(Replay(server, inflight), <<>>) \in Document
  BY <1>1, ReplayNone
<1>13. Stands(Replay(server', inflight'), pending', inflight', made', shown')
  BY <1>1, <1>2, <1>8, <1>10, <1>11, <1>12 DEF Stands
<1>14. Standing'
  BY <1>1, <1>2, <1>13 DEF Standing
<1>15. Histories'
  BY <1>2 DEF EditorIInv, Histories
<1> QED  BY <1>14, <1>15 DEF EditorIInv

LEMMA EditorStarts == EditorInit => EditorIInv
<1> SUFFICES ASSUME EditorInit PROVE EditorIInv
  OBVIOUS
<1>1. PICK present \in SUBSET Nodes :
        server = [n \in Nodes |-> [Absent EXCEPT !.exists = n \in present]]
  BY DEF EditorInit
<1>2. /\ shown = server /\ pending = <<>> /\ inflight = <<>>
      /\ undo = <<>> /\ redo = <<>> /\ made = 0
  BY DEF EditorInit
<1>3. ASSUME NEW n \in Nodes
      PROVE  /\ server[n] \in Node
             /\ ~server[n].exists => server[n] = Absent
  <2>1. server[n] = [layout |-> Default, config |-> {}, exists |-> n \in present]
    BY <1>1 DEF Absent
  <2>2. CASE n \in present
    <3>1. server[n] = [layout |-> Default, config |-> {}, exists |-> TRUE]
      BY <2>1, <2>2
    <3> QED  BY <3>1, DefaultAssumption DEF Node
  <2>3. CASE n \notin present
    <3>1. server[n] = [layout |-> Default, config |-> {}, exists |-> FALSE]
      <4>1. (n \in present) = FALSE
        BY <2>3
      <4> QED  BY <2>1, <4>1, Zenon
    <3> QED  BY <3>1, DefaultAssumption DEF Node, Absent
  <2> QED  BY <2>2, <2>3
<1>4. server \in Document
  BY <1>1, <1>3 DEF Document
<1>5. Clean(shown)
  BY <1>2, <1>3, <1>4 DEF Clean
<1>6. <<>> \in Seq(Known(0)) /\ Len(<<>>) = 0 /\ DOMAIN <<>> = {} /\ <<>> \in Seq(FlowOperation)
      /\ <<>> \in Seq({c \in Command : EditorCommand(c)})
  OBVIOUS
<1>7. Uncommitted(<<>>, <<>>) = <<>>
  <2> DEFINE left == Uncommitted(<<>>, <<>>)
  <2>1. left \in Seq(FlowOperation) /\ KeptOf(<<>>, Accepted(<<>>), 0, left)
    BY <1>6, UncommittedFacts
  <2> HIDE DEF left
  <2>2. Len(left) = 0
    BY <2>1 DEF KeptOf
  <2>3. left = <<>>
    BY <2>1, <2>2
  <2> QED  BY <2>3 DEF left
<1>8. Means(Replay(server, <<>>), <<>>, <<>>, shown) /\ Replay(server, <<>>) \in Document
  BY <1>2, <1>4, <1>7, ReplayNone DEF Means
<1>9. Queued(<<>>, <<>>, 0) /\ EndsWith(<<>>, shown)
  BY <1>6 DEF Queued, Arranged, EndsWith
<1>10. Standing
  BY <1>2, <1>4, <1>5, <1>8, <1>9, MutationsAssumption DEF Standing, Stands
<1>11. Histories
  BY <1>2, <1>4, <1>6, NoHistory DEF Histories
<1> QED  BY <1>10, <1>11 DEF EditorIInv

LEMMA EditorStep == EditorIInv /\ [EditorNext /\ Growing]_editorVars => EditorIInv'
<1> SUFFICES ASSUME EditorIInv, [EditorNext /\ Growing]_editorVars PROVE EditorIInv'
  OBVIOUS
<1>1. ASSUME NEW n \in Nodes, Change(n), Growing PROVE EditorIInv'
  BY <1>1, ChangeKeeps
<1>2. CASE Undo /\ Growing
  BY <1>2, UndoKeeps
<1>3. CASE Redo /\ Growing
  BY <1>3, RedoKeeps
<1>4. CASE Send
  BY <1>4, SendKeeps
<1>5. CASE Commit
  BY <1>5, CommitKeeps
<1>6. CASE UNCHANGED editorVars
  BY <1>6 DEF editorVars, EditorIInv, Standing, Histories
<1> QED  BY <1>1, <1>2, <1>3, <1>4, <1>5, <1>6 DEF EditorNext

LEMMA EditorInvariance == GrowingSpec => []EditorIInv
<1>1. EditorInit => EditorIInv
  BY EditorStarts
<1>2. EditorIInv /\ [EditorNext /\ Growing]_editorVars => EditorIInv'
  BY EditorStep
<1> QED  BY <1>1, <1>2, PTL DEF GrowingSpec

---------------------------------------------------------------------------
(* FlowEdits: theorems about the editor                                     *)

\* The editor's state has its type.
THEOREM EditorTypeCorrect == GrowingSpec => []EditorTypeOK
<1>1. EditorIInv => EditorTypeOK
  <2> SUFFICES ASSUME EditorIInv PROVE EditorTypeOK
    OBVIOUS
  <2>1. /\ made \in 0..MaxMutations /\ server \in Document /\ shown \in Document
        /\ pending \in Seq(Known(made)) /\ inflight \in Seq(Known(made))
    BY DEF EditorIInv, Standing, Stands, Queued
  <2>2. pending \in Seq(FlowOperation) /\ inflight \in Seq(FlowOperation)
    BY <2>1, KnownOperations
  <2>3. ASSUME NEW s \in Seq({c \in Command : EditorCommand(c)}) PROVE s \in Seq(Command)
    <3>1. \A k \in 1..Len(s) : s[k] \in Command
      OBVIOUS
    <3> QED  BY <3>1
  <2>4. undo \in Seq(Command) /\ redo \in Seq(Command)
    BY <2>3 DEF EditorIInv, Histories
  <2> QED  BY <2>1, <2>2, <2>4 DEF EditorTypeOK
<1> QED  BY <1>1, EditorInvariance, PTL

\* Whatever is merged, sent and committed in whatever order, the backend ends up
\* with the document the user sees: applyFlowOperation of what is in flight and
\* then of what is left of the outbox gives what is shown.
THEOREM MergingKeepsMeaning == GrowingSpec => []MergedMeansTheSame
<1>1. EditorIInv => MergedMeansTheSame
  BY DEF EditorIInv, Standing, Stands, Means, MergedMeansTheSame
<1> QED  BY <1>1, EditorInvariance, PTL

\* replayHistory: undo and redo take the document to and fro between the same
\* two states, also with grouped commands and any number of undos and redos.
THEOREM HistoryIsReversible == GrowingSpec => []UndoThenRedo
<1>1. EditorIInv => UndoThenRedo
  <2> SUFFICES ASSUME EditorIInv PROVE UndoThenRedo
    OBVIOUS
  <2>1. /\ undo \in Seq(Commands) /\ UndoHistory(undo, shown)
        /\ redo \in Seq(Commands) /\ RedoHistory(redo, shown)
    BY DEF EditorIInv, Histories, Commands
  <2>2. ASSUME undo # <<>>
        PROVE  Replay(Replay(shown, Last(undo).undo), Last(undo).redo) = shown
    BY <2>1, <2>2, UndoTop DEF Fits
  <2>3. ASSUME redo # <<>>
        PROVE  Replay(Replay(shown, Last(redo).redo), Last(redo).undo) = shown
    BY <2>1, <2>3, RedoTop DEF Fits
  <2> QED  BY <2>2, <2>3 DEF UndoThenRedo
<1> QED  BY <1>1, EditorInvariance, PTL
==============================================================================

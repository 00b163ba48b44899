------------------------- MODULE BackendUpdate_proofs -------------------------
(***************************************************************************)
(* Proofs about BackendUpdate when bootstrap and updater do not overlap, for  *)
(* any versions and any number of crashes and failures.                      *)
(***************************************************************************)
EXTENDS BackendUpdate, TLAPS

\* No version is current, or one that has been found healthy.
Settled == current = NoVersion \/ current \in proven

\* One process is at rest.
OneRests == \E p \in Procs : proc[p].at = "idle"

\* What a transaction goes back to has been found healthy.
PreviousProven == pending.previous = NoVersion \/ pending.previous \in proven

\* A backend that runs while nothing is in progress is the settled one.
RestingIsSettled == up /\ (\A p \in Procs : proc[p].at = "idle") => Settled

Undoing == {"undo", "reundo", "fall", "repair"}

\* What each step may rely on.
Prepared(p) ==
    LET at == proc[p].at goal == proc[p].goal v == proc[p].v IN
    /\ at \in {"choose", "place", "activate", "mark", "drop", "forget", "commit",
               "prune", "close", "legacy", "sweep"} => Settled
    /\ at \in {"place", "activate", "mark"} => goal = "install" /\ v \in Versions
    /\ at \in {"activate", "mark"} => Good(v)
    /\ at = "mark" => pending.candidate = v
    /\ at = "start" =>
          /\ goal \in {"commit", "recover", "retry", "keep", "undo", "reundo", "fall"}
          /\ goal \in {"commit", "recover", "retry"} => Good(current)
          /\ goal \in {"keep", "undo", "reundo", "fall"} => Settled
          /\ goal = "retry" => ~up
    /\ at \in {"commit", "prune", "close"} => goal \in {"commit", "recover"}
    /\ at \in {"rollback", "drop", "forget"} => goal \in Undoing
    /\ at = "forget" /\ v = NoVersion => pending = NoUpdate
    /\ at = "drop" => v \in Versions
    /\ p = "upd" => goal \in {"none", "install", "commit", "undo"}
    /\ at \in {"choose", "recover"} => goal \in {"none", "fall"}

IInv ==
    /\ TypeOK
    /\ OneRests
    /\ UnprovenIsPending
    /\ PreviousProven
    /\ RestingIsSettled
    /\ \A p \in Procs : Prepared(p)

USE UpdateAssumption
USE DEF IInv, TypeOK, OneRests, UnprovenIsPending, PreviousProven, RestingIsSettled,
        Prepared, Settled, Undoing, Procs, Steps, Goals, Markers, NoVersion, NoUpdate,
        Good, At, Go, GoWith, Status, Fails, Asked, Alone, disk, budget

\* Moving on keeps the type of the processes.
ProcType == [Procs -> [at: Steps, goal: Goals, v: Markers, prev: Markers]]

LEMMA GoTyped ==
    ASSUME proc \in ProcType, NEW p \in Procs, NEW at \in Steps, NEW goal \in Goals,
           Go(p, at, goal)
    PROVE  proc' \in ProcType
BY DEF ProcType

LEMMA GoWithTyped ==
    ASSUME proc \in ProcType, NEW p \in Procs, NEW at \in Steps, NEW goal \in Goals,
           NEW v \in Markers, NEW prev \in Markers, GoWith(p, at, goal, v, prev)
    PROVE  proc' \in ProcType
BY DEF ProcType

LEMMA InitIInv == Init => IInv
<1> SUFFICES ASSUME Init PROVE IInv
    OBVIOUS
<1> USE DEF Init
<1>1. TypeOK
    OBVIOUS
<1>2. OneRests
    OBVIOUS
<1>3. UnprovenIsPending /\ PreviousProven /\ RestingIsSettled
    OBVIOUS
<1>4. ASSUME NEW p \in Procs PROVE Prepared(p)
    OBVIOUS
<1> QED
    BY <1>1, <1>2, <1>3, <1>4

LEMMA PlaceIInv ==
    ASSUME IInv, NEW p \in Procs, Place(p) PROVE IInv'
BY DEF Place, Loses

LEMMA PlaceFailsIInv ==
    ASSUME IInv, NEW p \in Procs, PlaceFails(p) PROVE IInv'
BY DEF PlaceFails, Throws, Loses

LEMMA SelfTestFailsIInv ==
    ASSUME IInv, NEW p \in Procs, SelfTestFails(p) PROVE IInv'
BY DEF SelfTestFails, Throws, Loses

LEMMA ActivateIInv ==
    ASSUME IInv, NEW p \in Procs, Activate(p) PROVE IInv'
BY DEF Activate

LEMMA MarkIInv ==
    ASSUME IInv, NEW p \in Procs, Mark(p) PROVE IInv'
BY DEF Mark

LEMMA CommitIInv ==
    ASSUME IInv, NEW p \in Procs, Commit(p) PROVE IInv'
BY DEF Commit, Throws

LEMMA PruneIInv ==
    ASSUME IInv, NEW p \in Procs, Prune(p) PROVE IInv'
BY DEF Prune, Loses

LEMMA PruneFailsIInv ==
    ASSUME IInv, NEW p \in Procs, PruneFails(p) PROVE IInv'
BY DEF PruneFails, Throws, Loses, Sticks

LEMMA CloseIInv ==
    ASSUME IInv, NEW p \in Procs, Close(p) PROVE IInv'
BY DEF Close

LEMMA LegacyIInv ==
    ASSUME IInv, NEW p \in Procs, Legacy(p) PROVE IInv'
BY DEF Legacy

LEMMA SweepIInv ==
    ASSUME IInv, NEW p \in Procs, Sweep(p) PROVE IInv'
BY DEF Sweep

LEMMA SweepFailsIInv ==
    ASSUME IInv, NEW p \in Procs, SweepFails(p) PROVE IInv'
BY DEF SweepFails, Throws, Sticks

LEMMA RollbackIInv ==
    ASSUME IInv, NEW p \in Procs, Rollback(p) PROVE IInv'
BY SMTT(30) DEF Rollback

LEMMA DropIInv ==
    ASSUME IInv, NEW p \in Procs, Drop(p) PROVE IInv'
<1> USE DEF Drop
<1>1. TypeOK'
    OBVIOUS
<1>2. OneRests'
    OBVIOUS
<1>3. UnprovenIsPending' /\ PreviousProven' /\ RestingIsSettled'
    OBVIOUS
<1>4. ASSUME NEW q \in Procs PROVE Prepared(q)'
    OBVIOUS
<1> QED
    BY <1>1, <1>2, <1>3, <1>4

LEMMA DropFailsIInv ==
    ASSUME IInv, NEW p \in Procs, DropFails(p) PROVE IInv'
BY DEF DropFails, Throws, Sticks

LEMMA ForgetIInv ==
    ASSUME IInv, NEW p \in Procs, Forget(p) PROVE IInv'
<1> USE DEF Forget, Throws
<1> DEFINE goal == proc[p].goal
           prev == proc[p].prev
<1>1. TypeOK'
    OBVIOUS
<1>2. OneRests'
    OBVIOUS
<1>3. UnprovenIsPending' /\ PreviousProven' /\ RestingIsSettled'
    OBVIOUS
<1>4. pending' = NoUpdate /\ Settled' /\ UNCHANGED <<current, dir, proven>>
    OBVIOUS
<1>5. CASE goal = "repair"
    <2>1. p = "boot"
        BY <1>5
    <2>2. GoWith(p, "place", "install", Bundled, NoVersion)
        BY <1>5, <2>1
    <2> QED
        BY <2>1, <2>2, <1>1, <1>2, <1>3, <1>4
<1>6. CASE p = "upd"
    <2>1. Go(p, "start", goal) /\ goal = "undo"
        BY <1>6
    <2> QED
        BY <1>6, <2>1, <1>1, <1>2, <1>3, <1>4
<1>7. CASE p = "boot" /\ goal \in {"undo", "reundo"}
    <2>1. CASE prev # NoVersion
        <3>1. Go(p, "start", goal)
            BY <1>7, <2>1
        <3> QED
            BY <1>7, <2>1, <3>1, <1>1, <1>2, <1>3, <1>4
    <2>2. CASE prev = NoVersion
        <3>1. Throws(p)
            BY <1>7, <2>2
        <3>2. Go(p, "idle", "none") \/ Go(p, "rollback", "fall")
            BY <1>7, <3>1
        <3> QED
            BY <1>7, <3>2, <1>1, <1>2, <1>3, <1>4
    <2> QED
        BY <2>1, <2>2
<1>8. CASE p = "boot" /\ goal = "fall"
    <2>1. Go(p, "start", goal) \/ Go(p, "choose", goal)
        BY <1>8
    <2> QED
        BY <1>8, <2>1, <1>1, <1>2, <1>3, <1>4
<1> QED
    BY <1>5, <1>6, <1>7, <1>8

LEMMA StartIInv ==
    ASSUME IInv, NEW p \in Procs, Start(p) PROVE IInv'
BY DEF Start, LaunchTarget

LEMMA StartFailsIInv ==
    ASSUME IInv, NEW p \in Procs, StartFails(p) PROVE IInv'
BY SMTT(30) DEF StartFails, Throws

LEMMA PrepareIInv ==
    ASSUME IInv, Prepare, Alone PROVE IInv'
<1> USE DEF Prepare
<1>0. proc' \in ProcType
    <2>1. PICK at \in {"recover", "choose"} : Go("boot", at, "none")
        OBVIOUS
    <2>2. proc \in ProcType
        BY DEF ProcType
    <2> HIDE DEF Prepare, Go
    <2> QED
        BY <2>1, <2>2, GoTyped
<1>1. TypeOK'
    BY <1>0 DEF ProcType
<1>2. OneRests'
    OBVIOUS
<1>3. UnprovenIsPending' /\ PreviousProven' /\ RestingIsSettled'
    OBVIOUS
<1>4. ASSUME NEW q \in Procs PROVE Prepared(q)'
    OBVIOUS
<1> QED
    BY SMTT(30), <1>1, <1>2, <1>3, <1>4

LEMMA RecoverIInv ==
    ASSUME IInv, Recover, Alone PROVE IInv'
<1> USE DEF Recover
<1> DEFINE again == pending # NoUpdate /\ current = pending.candidate /\ Good(current)
<1>0. proc' \in ProcType
    <2>1. CASE again
        <3>1. GoWith("boot", "start", "recover", current, NoVersion)
            BY <2>1
        <3> QED
            BY <3>1, GoWithTyped DEF ProcType
    <2>2. CASE ~again
        BY ZenonT(60), <2>2, GoTyped DEF ProcType
    <2> QED
        BY <2>1, <2>2
<1>1. TypeOK'
    BY <1>0 DEF ProcType
<1>2. OneRests'
    OBVIOUS
<1>3. UnprovenIsPending' /\ PreviousProven' /\ RestingIsSettled'
    OBVIOUS
<1>4. ASSUME NEW q \in Procs PROVE Prepared(q)'
    OBVIOUS
<1> QED
    BY <1>1, <1>2, <1>3, <1>4

LEMMA ChooseIInv ==
    ASSUME IInv, Choose, Alone PROVE IInv'
<1> USE DEF Choose
<1> DEFINE damaged == current # NoVersion /\ ~Good(current)
           keeps   == Good(current) /\ current >= Bundled
<1>0. /\ proc' \in ProcType
      /\ \A q \in Procs : Prepared(q)'
    <2>1. CASE damaged
        <3>1. Go("boot", "idle", "none") /\ UNCHANGED <<disk, up, proven>>
            BY <2>1
        <3>2. proc' \in ProcType
            BY <3>1, GoTyped DEF ProcType
        <3>3. \A q \in Procs : Prepared(q)'
            BY <3>1, <3>2
        <3> QED
            BY <3>2, <3>3
    <2>2. CASE ~damaged /\ keeps
        <3>1. GoWith("boot", "start", "keep", current, NoVersion)
              /\ UNCHANGED <<disk, up, proven>>
            BY SMTT(30), <2>2
        <3>2. proc' \in ProcType
            BY <3>1, GoWithTyped DEF ProcType
        <3>3. \A q \in Procs : Prepared(q)'
            BY <2>2, <3>1, <3>2
        <3> QED
            BY <3>2, <3>3
    <2>3. CASE ~damaged /\ ~keeps
        <3>1. GoWith("boot", "place", "install", Bundled, NoVersion)
              /\ UNCHANGED <<disk, proven>>
            BY <2>3
        <3>2. proc' \in ProcType
            BY <3>1, GoWithTyped DEF ProcType
        <3>3. \A q \in Procs : Prepared(q)'
            BY <2>3, <3>1, <3>2
        <3> QED
            BY <3>2, <3>3
    <2> QED
        BY <2>1, <2>2, <2>3
<1>1. TypeOK'
    BY <1>0 DEF ProcType
<1>2. OneRests'
    OBVIOUS
<1>3. UnprovenIsPending' /\ PreviousProven' /\ RestingIsSettled'
    OBVIOUS
<1> QED
    BY <1>0, <1>1, <1>2, <1>3

LEMMA RepairIInv ==
    ASSUME IInv, Repair, Alone PROVE IInv'
<1> USE DEF Repair
<1>0. proc' \in ProcType
    BY GoTyped, GoWithTyped DEF ProcType
<1>1. TypeOK'
    BY <1>0 DEF ProcType
<1>2. OneRests'
    OBVIOUS
<1>3. UnprovenIsPending' /\ PreviousProven' /\ RestingIsSettled'
    OBVIOUS
<1>4. ASSUME NEW q \in Procs PROVE Prepared(q)'
    OBVIOUS
<1> QED
    BY <1>1, <1>2, <1>3, <1>4

LEMMA RetryIInv ==
    ASSUME IInv, Retry, Alone PROVE IInv'
<1> USE DEF Retry
<1>0. proc' \in ProcType
    BY GoTyped, GoWithTyped DEF ProcType
<1>1. TypeOK'
    BY <1>0 DEF ProcType
<1>2. OneRests'
    OBVIOUS
<1>3. UnprovenIsPending' /\ PreviousProven' /\ RestingIsSettled'
    OBVIOUS
<1>4. ASSUME NEW q \in Procs PROVE Prepared(q)'
    OBVIOUS
<1> QED
    BY SMTT(30), <1>1, <1>2, <1>3, <1>4

LEMMA RefuseIInv ==
    ASSUME IInv, Refuse, Alone PROVE IInv'
BY DEF Refuse

LEMMA UpdateIInv ==
    ASSUME IInv, NEW v \in Versions, Update(v), Alone PROVE IInv'
BY DEF Update

LEMMA CrashIInv ==
    ASSUME IInv, Crash PROVE IInv'
<1> USE DEF Crash
<1>1. TypeOK'
    OBVIOUS
<1>2. OneRests'
    OBVIOUS
<1>3. UnprovenIsPending' /\ PreviousProven' /\ RestingIsSettled'
    OBVIOUS
<1>4. ASSUME NEW q \in Procs PROVE Prepared(q)'
    OBVIOUS
<1> QED
    BY <1>1, <1>2, <1>3, <1>4

HIDE DEF IInv, TypeOK, OneRests, UnprovenIsPending, PreviousProven, RestingIsSettled,
         Prepared, Settled

LEMMA StepIInv ==
    ASSUME IInv, NEW p \in Procs, Step(p) PROVE IInv'
BY PlaceIInv, PlaceFailsIInv, SelfTestFailsIInv, ActivateIInv, MarkIInv, CommitIInv, PruneIInv,
   PruneFailsIInv, CloseIInv, LegacyIInv, SweepIInv, SweepFailsIInv,
   RollbackIInv, DropIInv, DropFailsIInv,
   ForgetIInv, StartIInv, StartFailsIInv
   DEF Step

LEMMA StutterIInv == IInv /\ UNCHANGED vars => IInv'
BY DEF vars, IInv, TypeOK, OneRests, UnprovenIsPending, PreviousProven,
       RestingIsSettled, Prepared, Settled

LEMMA NextIInv == IInv /\ [Next /\ Alone]_vars => IInv'
<1> SUFFICES ASSUME IInv, [Next /\ Alone]_vars PROVE IInv'
    OBVIOUS
<1> USE DEF Next
<1>1. CASE \E p \in Procs : Step(p)
    BY <1>1, StepIInv
<1>2. CASE Alone /\ (Prepare \/ Recover \/ Choose \/ Repair \/ Retry \/ Refuse)
    BY <1>2, PrepareIInv, RecoverIInv, ChooseIInv, RepairIInv, RetryIInv, RefuseIInv
<1>3. CASE Alone /\ \E v \in Versions : Update(v)
    BY <1>3, UpdateIInv
<1>4. CASE Crash
    BY <1>4, CrashIInv
<1>5. CASE UNCHANGED vars
    BY <1>5, StutterIInv
<1> QED
    BY <1>1, <1>2, <1>3, <1>4, <1>5

LEMMA AlwaysIInv == AloneSpec => []IInv
BY InitIInv, NextIInv, PTL DEF AloneSpec

\* Markers, transactions and the two processes keep their types.
THEOREM TypeCorrect == AloneSpec => []TypeOK
<1>1. IInv => TypeOK
    BY DEF IInv
<1> QED
    BY <1>1, AlwaysIInv, PTL

\* Wherever the application crashes and whatever fails, current.json names a
\* version that has not proven itself only while pending-update.json can take
\* it back.
THEOREM UnprovenCanGoBack == AloneSpec => []UnprovenIsPending
<1>1. IInv => UnprovenIsPending
    BY DEF IInv
<1> QED
    BY <1>1, AlwaysIInv, PTL

\* What it is taken back to has run before: rollbackBackendCandidate() never
\* activates a version that nobody has found healthy.
THEOREM GoesBackToProven == AloneSpec => []PreviousProven
<1>1. IInv => PreviousProven
    BY DEF IInv
<1> QED
    BY <1>1, AlwaysIInv, PTL

---------------------------------------------------------------------------
(* What the marker names stays installed                                   *)

\* The version the transaction would go back to is no longer there.
Pruned == pending.previous \in Versions /\ ~Good(pending.previous)

\* What a process knows of the marker and of the transaction at each step.
OnPath(p) ==
    LET at == proc[p].at goal == proc[p].goal v == proc[p].v IN
    /\ \/ at \in {"commit", "prune", "close"}
       \/ at = "start" /\ goal \in {"commit", "recover"}
       => current = v /\ (pending = NoUpdate \/ pending.candidate = v)
    /\ \/ at \in {"choose", "legacy", "sweep"}
       \/ at = "start" /\ goal \in {"keep", "fall"}
       => pending = NoUpdate
    /\ at = "sweep" => v = current
    /\ at = "drop" => current = proc[p].prev /\ pending.previous = proc[p].prev

Kinds == {updates, repairs, crashes, fails, stuck, flaws} \subseteq Nat

Safe == stuck = 0 /\ flaws = 0 /\ ~RollsBackAfterCrash

\* A transaction whose previous version is gone belongs to the version that is
\* current: without a crash the process that is about to close it holds it, and
\* nobody is about to go back.
Whole ==
    /\ MarkerInstalled
    /\ \A v \in Versions : dir[v] # "broken"
    /\ Pruned => current = pending.candidate
    /\ Pruned /\ crashes = 0 => \E p \in Procs : proc[p].at = "close"
    /\ \A p \in Procs : proc[p].at = "rollback" => ~Pruned

WholeInv ==
    /\ Kinds
    /\ \A p \in Procs : OnPath(p)
    /\ Safe => Whole

USE DEF IInv, TypeOK, OneRests, Prepared, Pruned, OnPath, Kinds, Safe, Whole, WholeInv,
        MarkerInstalled, RollsBackAfterCrash

LEMMA PlaceWhole ==
    ASSUME IInv, WholeInv, NEW p \in Procs, Place(p) PROVE WholeInv'
BY DEF Place, Loses

LEMMA PlaceFailsWhole ==
    ASSUME IInv, WholeInv, NEW p \in Procs, PlaceFails(p) PROVE WholeInv'
BY DEF PlaceFails, Throws, Loses

LEMMA SelfTestFailsWhole ==
    ASSUME IInv, WholeInv, NEW p \in Procs, SelfTestFails(p) PROVE WholeInv'
BY DEF SelfTestFails, Throws, Loses

LEMMA ActivateWhole ==
    ASSUME IInv, WholeInv, NEW p \in Procs, Activate(p) PROVE WholeInv'
BY DEF Activate

LEMMA MarkWhole ==
    ASSUME IInv, WholeInv, NEW p \in Procs, Mark(p) PROVE WholeInv'
BY DEF Mark

LEMMA CommitWhole ==
    ASSUME IInv, WholeInv, NEW p \in Procs, Commit(p) PROVE WholeInv'
BY DEF Commit, Throws

LEMMA PruneWhole ==
    ASSUME IInv, WholeInv, NEW p \in Procs, Prune(p) PROVE WholeInv'
BY DEF Prune, Loses

LEMMA PruneFailsWhole ==
    ASSUME IInv, WholeInv, NEW p \in Procs, PruneFails(p) PROVE WholeInv'
BY DEF PruneFails, Throws, Loses, Sticks

LEMMA CloseWhole ==
    ASSUME IInv, WholeInv, NEW p \in Procs, Close(p) PROVE WholeInv'
BY DEF Close

LEMMA LegacyWhole ==
    ASSUME IInv, WholeInv, NEW p \in Procs, Legacy(p) PROVE WholeInv'
BY DEF Legacy

LEMMA SweepWhole ==
    ASSUME IInv, WholeInv, NEW p \in Procs, Sweep(p) PROVE WholeInv'
BY DEF Sweep

LEMMA SweepFailsWhole ==
    ASSUME IInv, WholeInv, NEW p \in Procs, SweepFails(p) PROVE WholeInv'
BY DEF SweepFails, Throws, Sticks

LEMMA RollbackWhole ==
    ASSUME IInv, WholeInv, NEW p \in Procs, Rollback(p) PROVE WholeInv'
BY DEF Rollback

LEMMA DropWhole ==
    ASSUME IInv, WholeInv, NEW p \in Procs, Drop(p) PROVE WholeInv'
BY DEF Drop

LEMMA DropFailsWhole ==
    ASSUME IInv, WholeInv, NEW p \in Procs, DropFails(p) PROVE WholeInv'
BY DEF DropFails, Throws, Sticks

LEMMA ForgetWhole ==
    ASSUME IInv, WholeInv, NEW p \in Procs, Forget(p) PROVE WholeInv'
BY DEF Forget, Throws

LEMMA StartWhole ==
    ASSUME IInv, WholeInv, NEW p \in Procs, Start(p) PROVE WholeInv'
BY DEF Start, LaunchTarget

LEMMA StartFailsWhole ==
    ASSUME IInv, WholeInv, NEW p \in Procs, StartFails(p) PROVE WholeInv'
BY DEF StartFails, Throws

LEMMA PrepareWhole ==
    ASSUME IInv, WholeInv, Prepare, Alone PROVE WholeInv'
BY DEF Prepare

LEMMA RecoverWhole ==
    ASSUME IInv, WholeInv, Recover, Alone PROVE WholeInv'
BY DEF Recover

LEMMA ChooseWhole ==
    ASSUME IInv, WholeInv, Choose, Alone PROVE WholeInv'
<1> USE DEF Choose
<1>1. UNCHANGED <<disk, budget>> /\ At("boot", "choose")
    OBVIOUS
<1>2. \/ Go("boot", "idle", "none")
      \/ GoWith("boot", "start", "keep", current, NoVersion)
      \/ GoWith("boot", "place", "install", Bundled, NoVersion)
    OBVIOUS
<1> HIDE DEF Choose
<1>3. \A p \in Procs : proc[p].at # "close" /\ proc'[p].at # "close"
    BY <1>1, <1>2
<1>4. \A p \in Procs : OnPath(p)'
    BY <1>1, <1>2
<1> QED
    BY <1>1, <1>2, <1>3, <1>4

LEMMA RepairWhole ==
    ASSUME IInv, WholeInv, Repair, Alone PROVE WholeInv'
BY DEF Repair

LEMMA RetryWhole ==
    ASSUME IInv, WholeInv, Retry, Alone PROVE WholeInv'
BY DEF Retry

LEMMA RefuseWhole ==
    ASSUME IInv, WholeInv, Refuse, Alone PROVE WholeInv'
BY DEF Refuse

LEMMA UpdateWhole ==
    ASSUME IInv, WholeInv, NEW v \in Versions, Update(v), Alone PROVE WholeInv'
BY DEF Update

LEMMA CrashWhole ==
    ASSUME IInv, WholeInv, Crash PROVE WholeInv'
BY DEF Crash

HIDE DEF IInv, TypeOK, OneRests, Prepared, Pruned, OnPath, Kinds, Safe, Whole, WholeInv,
         MarkerInstalled, RollsBackAfterCrash

LEMMA StepWhole ==
    ASSUME IInv, WholeInv, NEW p \in Procs, Step(p) PROVE WholeInv'
BY PlaceWhole, PlaceFailsWhole, SelfTestFailsWhole, ActivateWhole, MarkWhole, CommitWhole, PruneWhole,
   PruneFailsWhole, CloseWhole, LegacyWhole, SweepWhole, SweepFailsWhole,
   RollbackWhole, DropWhole, DropFailsWhole,
   ForgetWhole, StartWhole, StartFailsWhole
   DEF Step

LEMMA StutterWhole == WholeInv /\ UNCHANGED vars => WholeInv'
BY DEF vars, WholeInv, Kinds, OnPath, Safe, Whole, Pruned, MarkerInstalled, RollsBackAfterCrash

LEMMA NextWhole == IInv /\ WholeInv /\ [Next /\ Alone]_vars => WholeInv'
<1> SUFFICES ASSUME IInv, WholeInv, [Next /\ Alone]_vars PROVE WholeInv'
    OBVIOUS
<1> USE DEF Next
<1>1. CASE \E p \in Procs : Step(p)
    BY <1>1, StepWhole
<1>2. CASE Alone /\ (Prepare \/ Recover \/ Choose \/ Repair \/ Retry \/ Refuse)
    BY <1>2, PrepareWhole, RecoverWhole, ChooseWhole, RepairWhole, RetryWhole, RefuseWhole
<1>3. CASE Alone /\ \E v \in Versions : Update(v)
    BY <1>3, UpdateWhole
<1>4. CASE Crash
    BY <1>4, CrashWhole
<1>5. CASE UNCHANGED vars
    BY <1>5, StutterWhole
<1> QED
    BY <1>1, <1>2, <1>3, <1>4, <1>5

---------------------------------------------------------------------------
(* How the marked version can be lost                                      *)

\* Neither what the marker names nor what the transaction would go back to is
\* missing unless it had been given up; what a process relies on, whatever has
\* failed before.
LossInv ==
    /\ LossIsExplained
    /\ pending.previous \in Versions /\ ~Good(pending.previous) =>
          pending.previous \in lost
    /\ \A p \in Procs : OnPath(p)

USE DEF IInv, TypeOK, OneRests, Prepared, OnPath, LossInv, LossIsExplained

LEMMA PlaceLoss ==
    ASSUME IInv, LossInv, NEW p \in Procs, Place(p) PROVE LossInv'
BY DEF Place, Loses

LEMMA PlaceFailsLoss ==
    ASSUME IInv, LossInv, NEW p \in Procs, PlaceFails(p) PROVE LossInv'
BY DEF PlaceFails, Throws, Loses

LEMMA SelfTestFailsLoss ==
    ASSUME IInv, LossInv, NEW p \in Procs, SelfTestFails(p) PROVE LossInv'
BY DEF SelfTestFails, Throws, Loses

LEMMA ActivateLoss ==
    ASSUME IInv, LossInv, NEW p \in Procs, Activate(p) PROVE LossInv'
BY DEF Activate

LEMMA MarkLoss ==
    ASSUME IInv, LossInv, NEW p \in Procs, Mark(p) PROVE LossInv'
BY DEF Mark

LEMMA CommitLoss ==
    ASSUME IInv, LossInv, NEW p \in Procs, Commit(p) PROVE LossInv'
BY DEF Commit, Throws

LEMMA PruneLoss ==
    ASSUME IInv, LossInv, NEW p \in Procs, Prune(p) PROVE LossInv'
BY DEF Prune, Loses

LEMMA PruneFailsLoss ==
    ASSUME IInv, LossInv, NEW p \in Procs, PruneFails(p) PROVE LossInv'
BY DEF PruneFails, Throws, Loses, Sticks

LEMMA CloseLoss ==
    ASSUME IInv, LossInv, NEW p \in Procs, Close(p) PROVE LossInv'
BY DEF Close

LEMMA LegacyLoss ==
    ASSUME IInv, LossInv, NEW p \in Procs, Legacy(p) PROVE LossInv'
BY DEF Legacy

LEMMA SweepLoss ==
    ASSUME IInv, LossInv, NEW p \in Procs, Sweep(p) PROVE LossInv'
BY DEF Sweep

LEMMA SweepFailsLoss ==
    ASSUME IInv, LossInv, NEW p \in Procs, SweepFails(p) PROVE LossInv'
BY DEF SweepFails, Throws, Sticks

LEMMA RollbackLoss ==
    ASSUME IInv, LossInv, NEW p \in Procs, Rollback(p) PROVE LossInv'
BY DEF Rollback

LEMMA DropLoss ==
    ASSUME IInv, LossInv, NEW p \in Procs, Drop(p) PROVE LossInv'
BY DEF Drop

LEMMA DropFailsLoss ==
    ASSUME IInv, LossInv, NEW p \in Procs, DropFails(p) PROVE LossInv'
BY DEF DropFails, Throws, Sticks

LEMMA ForgetLoss ==
    ASSUME IInv, LossInv, NEW p \in Procs, Forget(p) PROVE LossInv'
BY DEF Forget, Throws

LEMMA StartLoss ==
    ASSUME IInv, LossInv, NEW p \in Procs, Start(p) PROVE LossInv'
BY DEF Start, LaunchTarget

LEMMA StartFailsLoss ==
    ASSUME IInv, LossInv, NEW p \in Procs, StartFails(p) PROVE LossInv'
BY DEF StartFails, Throws

LEMMA PrepareLoss ==
    ASSUME IInv, LossInv, Prepare, Alone PROVE LossInv'
BY DEF Prepare

LEMMA RecoverLoss ==
    ASSUME IInv, LossInv, Recover, Alone PROVE LossInv'
BY DEF Recover

LEMMA ChooseLoss ==
    ASSUME IInv, LossInv, Choose, Alone PROVE LossInv'
<1> USE DEF Choose
<1>1. UNCHANGED <<disk, lost>> /\ At("boot", "choose")
    OBVIOUS
<1>2. \/ Go("boot", "idle", "none")
      \/ GoWith("boot", "start", "keep", current, NoVersion)
      \/ GoWith("boot", "place", "install", Bundled, NoVersion)
    OBVIOUS
<1> HIDE DEF Choose
<1>3. \A p \in Procs : OnPath(p)'
    BY <1>1, <1>2
<1> QED
    BY <1>1, <1>3

LEMMA RepairLoss ==
    ASSUME IInv, LossInv, Repair, Alone PROVE LossInv'
BY DEF Repair

LEMMA RetryLoss ==
    ASSUME IInv, LossInv, Retry, Alone PROVE LossInv'
BY DEF Retry

LEMMA RefuseLoss ==
    ASSUME IInv, LossInv, Refuse, Alone PROVE LossInv'
BY DEF Refuse

LEMMA UpdateLoss ==
    ASSUME IInv, LossInv, NEW v \in Versions, Update(v), Alone PROVE LossInv'
BY DEF Update

LEMMA CrashLoss ==
    ASSUME IInv, LossInv, Crash PROVE LossInv'
BY DEF Crash

HIDE DEF IInv, TypeOK, OneRests, Prepared, OnPath, LossInv, LossIsExplained

LEMMA StepLoss ==
    ASSUME IInv, LossInv, NEW p \in Procs, Step(p) PROVE LossInv'
BY PlaceLoss, PlaceFailsLoss, SelfTestFailsLoss, ActivateLoss, MarkLoss, CommitLoss,
   PruneLoss, PruneFailsLoss, CloseLoss, LegacyLoss, SweepLoss, SweepFailsLoss,
   RollbackLoss, DropLoss, DropFailsLoss, ForgetLoss, StartLoss, StartFailsLoss
   DEF Step

LEMMA StutterLoss == LossInv /\ UNCHANGED vars => LossInv'
BY DEF vars, LossInv, OnPath, LossIsExplained

LEMMA NextLoss == IInv /\ LossInv /\ [Next /\ Alone]_vars => LossInv'
<1> SUFFICES ASSUME IInv, LossInv, [Next /\ Alone]_vars PROVE LossInv'
    OBVIOUS
<1> USE DEF Next
<1>1. CASE \E p \in Procs : Step(p)
    BY <1>1, StepLoss
<1>2. CASE Alone /\ (Prepare \/ Recover \/ Choose \/ Repair \/ Retry \/ Refuse)
    BY <1>2, PrepareLoss, RecoverLoss, ChooseLoss, RepairLoss, RetryLoss, RefuseLoss
<1>3. CASE Alone /\ \E v \in Versions : Update(v)
    BY <1>3, UpdateLoss
<1>4. CASE Crash
    BY <1>4, CrashLoss
<1>5. CASE UNCHANGED vars
    BY <1>5, StutterLoss
<1> QED
    BY <1>1, <1>2, <1>3, <1>4, <1>5

\* However often the application crashes, or however many starts, installations
\* and repairs fail or are asked for, the version current.json names stays
\* installed and complete. With both, with a removal that stops half-way or a
\* self-test that is not passed it may be gone, but then a commit had given it
\* up or its self-test had failed.
THEOREM MarkerStaysInstalled == AloneSpec => []MarkerSurvivesFaults
<1>1. Init => WholeInv /\ LossInv
  <2>1. Init => WholeInv
      BY DEF Init, WholeInv, Kinds, OnPath, Safe, Whole, Pruned, MarkerInstalled
  <2>2. Init => LossInv
      BY DEF Init, LossInv, OnPath, LossIsExplained
  <2> QED
      BY <2>1, <2>2
<1>2. WholeInv /\ LossInv => MarkerSurvivesFaults
    BY DEF WholeInv, Safe, Whole, LossInv, MarkerSurvivesFaults
<1> QED
    BY <1>1, <1>2, AlwaysIInv, NextWhole, NextLoss, PTL DEF AloneSpec
=============================================================================

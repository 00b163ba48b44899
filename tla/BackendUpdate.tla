---------------------------- MODULE BackendUpdate ----------------------------
(***************************************************************************)
(* How an installed backend is replaced: the transaction on disk             *)
(* (src/main/services/backend-binary-store.ts), the bootstrap that runs at   *)
(* start, on repair and on retry (backend-bootstrap.ts) and the updater      *)
(* (app-update.ts).  current.json names the version to launch,               *)
(* pending-update.json remembers candidate and previous until the candidate  *)
(* has run.  Bootstrap and updater are two processes over the same files:    *)
(* every write or removal of a file is a step, the reads before it belong to *)
(* it, and the application may crash between any two.                        *)
(***************************************************************************)
EXTENDS Naturals, FiniteSets

CONSTANTS
    Versions,     \* backend versions, ordered as numbers
    Bundled,      \* the one that comes with the application
    MaxUpdates,   \* bound: updates the user installs
    MaxRepairs,   \* bound: repairs and retries the user asks for
    MaxCrashes,   \* bound: crashes of the application
    MaxFails,     \* bound: starts and installations that fail
    MaxStuck,     \* bound: directories that cannot be removed completely
    MaxFlaws      \* bound: self-tests that an installed version does not pass

ASSUME UpdateAssumption ==
    /\ Versions \subseteq Nat \ {0} /\ Bundled \in Versions
    /\ {MaxUpdates, MaxRepairs, MaxCrashes, MaxFails, MaxStuck, MaxFlaws}
          \subseteq Nat

VARIABLES
    current,   \* current.json
    pending,   \* pending-update.json
    dir,       \* versions/<version>: absent, complete, or partly removed
    proc,      \* the bootstrap and the updater
    status,    \* the bootstrap's state.status; "checking" stands for
               \* "installing" and "starting" too
    up,        \* a backend runs and answers
    proven,    \* history: versions found healthy while they were current
    lost,      \* history: versions that commit or a failed self-test removed
    updates, repairs, crashes, fails, stuck, flaws

disk == <<current, pending, dir>>
budget == <<updates, repairs, crashes, fails, stuck, flaws>>
vars == <<disk, proc, status, up, proven, lost, budget>>

NoVersion == 0

Markers == Versions \cup {NoVersion}

NoUpdate == [candidate |-> NoVersion, previous |-> NoVersion]

Procs == {"boot", "upd"}

\* Where a process is, and what the step it is in is for.
Steps == {"idle", "recover", "choose", "place", "activate", "mark", "start", "commit",
          "prune", "close", "legacy", "sweep", "rollback", "drop", "forget"}

\* "install": up to the marker; "commit", "keep": startAndCommitCurrent with and
\* without a transaction; "recover": the same inside recoverPendingUpdate;
\* "undo", "reundo": its rollback; "fall": recoverPendingUpdate's own rollback;
\* "repair", "retry": what the user asked for.
Goals == {"none", "install", "commit", "keep", "recover", "undo", "reundo",
          "fall", "repair", "retry"}

Init ==
    /\ \/ current = NoVersion /\ dir = [v \in Versions |-> "absent"] /\ proven = {}
       \/ \E v \in Versions :
             /\ current = v /\ proven = {v}
             /\ dir = [w \in Versions |-> IF w = v THEN "good" ELSE "absent"]
    /\ pending = NoUpdate
    /\ proc = [p \in Procs |-> [at |-> "idle", goal |-> "none",
                                v |-> NoVersion, prev |-> NoVersion]]
    /\ status = "checking" /\ up = FALSE /\ lost = {}
    /\ updates = 0 /\ repairs = 0 /\ crashes = 0 /\ fails = 0 /\ stuck = 0 /\ flaws = 0

\* inspectInstalledBackend(): the directory is complete and unchanged.
Good(v) == v \in Versions /\ dir[v] = "good"

\* resolveBackendLaunchTarget()
LaunchTarget == IF Good(current) THEN current ELSE Bundled

---------------------------------------------------------------------------
(* How a process goes on                                                   *)

At(p, at) == proc[p].at = at

Go(p, at, goal) == proc' = [proc EXCEPT ![p].at = at, ![p].goal = goal]

GoWith(p, at, goal, v, prev) ==
    proc' = [proc EXCEPT ![p] = [at |-> at, goal |-> goal, v |-> v, prev |-> prev]]

Status(p, s) == status' = IF p = "boot" THEN s ELSE status

\* The bootstrap ends with fail(), the updater with state "error".
Fails(p) == Go(p, "idle", "none") /\ Status(p, "error") /\ UNCHANGED up

\* Something throws.  With a transaction startAndCommitCurrent stops the backend
\* and rolls back; inside recoverPendingUpdate what fails then is caught once
\* more, and what fails in its own rollback's start leads on to the choice
\* between current and bundled backend.
Throws(p) ==
    LET goal == proc[p].goal IN
    \/ /\ goal = "commit"
       /\ Go(p, "rollback", "undo") /\ up' = FALSE /\ UNCHANGED status
    \/ /\ goal = "recover"
       /\ Go(p, "rollback", "reundo") /\ up' = FALSE /\ UNCHANGED status
    \/ /\ goal = "reundo"
       /\ Go(p, "rollback", "fall") /\ up' = FALSE /\ UNCHANGED status
    \/ /\ goal = "fall" /\ At(p, "start")
       /\ Go(p, "choose", "none") /\ UNCHANGED <<up, status>>
    \/ /\ goal \notin {"commit", "recover", "reundo"}
       /\ goal = "fall" => ~At(p, "start")
       /\ Fails(p)

---------------------------------------------------------------------------
(* The transaction: stage, activate, commit, rollback                      *)

\* Versions in S are given up; one that is installed again counts no longer.
Loses(S) == lost' = {v \in lost \cup S : dir'[v] # "good"}

\* finalizeStagingDirectory(): an installed version is kept when it is complete
\* and passes its self-test, a damaged one is removed; then the staging
\* directory is renamed.
Place(p) ==
    /\ At(p, "place")
    /\ LET v == proc[p].v IN
       IF dir[v] = "broken"
       THEN /\ dir' = [dir EXCEPT ![v] = "absent"] /\ UNCHANGED proc
       ELSE /\ dir' = [dir EXCEPT ![v] = "good"] /\ Go(p, "activate", "install")
    /\ Loses({})
    /\ UNCHANGED <<current, pending, status, up, proven, budget>>

\* The download, the copy or the checks fail before anything is renamed, or the
\* self-test of the version that has just been put in place.
PlaceFails(p) ==
    /\ At(p, "place") /\ fails < MaxFails
    /\ fails' = fails + 1
    /\ LET v == proc[p].v IN
       \/ UNCHANGED dir
       \/ dir[v] = "absent" /\ dir' = [dir EXCEPT ![v] = "good"]
    /\ Loses({})
    /\ Throws(p)
    /\ UNCHANGED <<current, pending, proven, updates, repairs, crashes, stuck, flaws>>

\* An installed and complete version does not pass its self-test: the staging
\* directory is gone by then, the version is removed as if it were damaged, and
\* there is nothing left to rename.
SelfTestFails(p) ==
    /\ At(p, "place") /\ Good(proc[p].v) /\ flaws < MaxFlaws
    /\ flaws' = flaws + 1
    /\ \E left \in {"absent", "broken"} : dir' = [dir EXCEPT ![proc[p].v] = left]
    /\ Loses({proc[p].v})
    /\ Throws(p)
    /\ UNCHANGED <<current, pending, proven, updates, repairs, crashes, fails, stuck>>

\* activateBackendCandidate(): first the transaction, then the marker.
BadActivate(p) ==
    /\ At(p, "activate")
    /\ current' = proc[p].v
    /\ Go(p, "mark", "install")
    /\ UNCHANGED <<pending, dir, status, up, proven, lost, budget>>

Activate(p) ==
    /\ At(p, "activate")
    /\ pending' = [candidate |-> proc[p].v, previous |-> current]
    /\ Go(p, "mark", "install")
    /\ UNCHANGED <<current, dir, status, up, proven, lost, budget>>

Mark(p) ==
    /\ At(p, "mark")
    /\ current' = proc[p].v
    /\ Go(p, "start", "commit")
    /\ UNCHANGED <<pending, dir, status, up, proven, lost, budget>>

\* commitBackendCandidate(): checks that the candidate is the active one (the
\* updater that it is installed too) and rewrites the marker without
\* previousVersion.
Commit(p) ==
    /\ At(p, "commit")
    /\ LET v == proc[p].v IN
       IF \/ current # v \/ (pending # NoUpdate /\ pending.candidate # v)
          \/ p = "upd" /\ ~Good(v)
       THEN Throws(p)
       ELSE /\ GoWith(p, "prune", proc[p].goal, v, pending.previous)
            /\ UNCHANGED <<status, up>>
    /\ UNCHANGED <<disk, proven, lost, budget>>

\* Then it removes the previous version and, last, the transaction.
Prune(p) ==
    /\ At(p, "prune")
    /\ LET gone == {proc[p].prev} \cap (Versions \ {proc[p].v}) IN
       /\ dir' = [v \in Versions |-> IF v \in gone THEN "absent" ELSE dir[v]]
       /\ Loses(gone)
    /\ Go(p, "close", proc[p].goal)
    /\ UNCHANGED <<current, pending, status, up, proven, budget>>

\* A file of a directory is in use: rm throws half-way.
Sticks(v) ==
    /\ stuck < MaxStuck /\ stuck' = stuck + 1
    /\ v \in Versions /\ dir[v] # "absent"
    /\ UNCHANGED <<updates, repairs, crashes, fails, flaws>>

PruneFails(p) ==
    /\ At(p, "prune") /\ proc[p].prev # proc[p].v /\ Sticks(proc[p].prev)
    /\ dir' = [dir EXCEPT ![proc[p].prev] = "broken"]
    /\ Loses({proc[p].prev})
    /\ Throws(p)
    /\ UNCHANGED <<current, pending, proven>>

Close(p) ==
    /\ At(p, "close")
    /\ pending' = NoUpdate
    /\ Go(p, "legacy", proc[p].goal)
    /\ UNCHANGED <<current, dir, status, up, proven, lost, budget>>

\* removeLegacyManagedBackends(): reads the marker, then removes every other
\* version.
Legacy(p) ==
    /\ At(p, "legacy")
    /\ GoWith(p, "sweep", proc[p].goal, current, NoVersion)
    /\ UNCHANGED <<disk, status, up, proven, lost, budget>>

Sweep(p) ==
    /\ At(p, "sweep")
    /\ dir' = [v \in Versions |-> IF v = proc[p].v THEN dir[v] ELSE "absent"]
    /\ Go(p, "idle", "none")
    /\ UNCHANGED <<current, pending, status, up, proven, lost, budget>>

SweepFails(p) ==
    /\ At(p, "sweep")
    /\ \E v \in Versions \ {proc[p].v} : \E gone \in SUBSET (Versions \ {v, proc[p].v}) :
          /\ Sticks(v)
          /\ dir' = [w \in Versions |-> IF w = v THEN "broken"
                                        ELSE IF w \in gone THEN "absent" ELSE dir[w]]
    /\ Throws(p)
    /\ UNCHANGED <<current, pending, proven, lost>>

\* rollbackBackendCandidate(): the marker back to the previous version; without
\* a transaction it only tells what is current.
Rollback(p) ==
    /\ At(p, "rollback")
    /\ IF pending = NoUpdate
       THEN /\ GoWith(p, "forget", proc[p].goal, NoVersion, current)
            /\ UNCHANGED current
       ELSE /\ GoWith(p, "drop", proc[p].goal, pending.candidate, pending.previous)
            /\ current' = pending.previous
    /\ UNCHANGED <<pending, dir, status, up, proven, lost, budget>>

BadDrop(p) ==
    /\ At(p, "drop")
    /\ dir' = [dir EXCEPT ![proc[p].v] = "absent"]
    /\ Go(p, "forget", proc[p].goal)
    /\ UNCHANGED <<current, pending, status, up, proven, lost, budget>>

\* Then it removes the candidate.
Drop(p) ==
    /\ At(p, "drop")
    /\ dir' = IF proc[p].v = proc[p].prev THEN dir
              ELSE [dir EXCEPT ![proc[p].v] = "absent"]
    /\ Go(p, "forget", proc[p].goal)
    /\ UNCHANGED <<current, pending, status, up, proven, lost, budget>>

DropFails(p) ==
    /\ At(p, "drop") /\ proc[p].v # proc[p].prev /\ Sticks(proc[p].v)
    /\ dir' = [dir EXCEPT ![proc[p].v] = "broken"]
    /\ Throws(p)
    /\ UNCHANGED <<current, pending, proven, lost>>

\* Last it removes the transaction and returns the previous version, with which
\* its callers go on: start it, or install the bundled one, or give up.
Forget(p) ==
    /\ At(p, "forget")
    /\ pending' = IF proc[p].v = NoVersion THEN pending ELSE NoUpdate
    /\ LET prev == proc[p].prev
           goal == proc[p].goal
       IN  CASE goal = "repair" -> /\ GoWith(p, "place", "install", Bundled, NoVersion)
                                   /\ UNCHANGED <<status, up>>
             [] p = "upd" \/ (goal \in {"undo", "reundo"} /\ prev # NoVersion) ->
                                   Go(p, "start", goal) /\ UNCHANGED <<status, up>>
             [] p = "boot" /\ goal \in {"undo", "reundo"} /\ prev = NoVersion ->
                                   Throws(p)
             [] OTHER ->           /\ Go(p, IF Good(current) /\ prev # NoVersion
                                            THEN "start" ELSE "choose", goal)
                                   /\ UNCHANGED <<status, up>>
    /\ UNCHANGED <<current, dir, proven, lost, budget>>

---------------------------------------------------------------------------
(* Starting the backend                                                    *)

\* start() or restart(), and waitUntilHealthy(): the launch target runs.
Start(p) ==
    /\ At(p, "start")
    /\ up' = TRUE
    /\ proven' = IF LaunchTarget = current THEN proven \cup {current} ELSE proven
    /\ LET goal == proc[p].goal IN
       CASE p = "upd" /\ goal = "commit" ->
                Go(p, "commit", goal)
         [] p = "boot" /\ goal \in {"commit", "recover"} ->
                Go(p, "commit", goal)
         [] goal = "keep" -> Go(p, "legacy", goal)
         [] OTHER -> Go(p, "idle", "none")
    /\ Status(p, "healthy")
    /\ UNCHANGED <<disk, lost, budget>>

\* It does not become healthy.
StartFails(p) ==
    /\ At(p, "start") /\ fails < MaxFails
    /\ fails' = fails + 1
    /\ Throws(p)
    /\ UNCHANGED <<disk, proven, lost, updates, repairs, crashes, stuck, flaws>>

---------------------------------------------------------------------------
(* The bootstrap                                                           *)

\* prepare(), at start and whenever a window asks for a connection.
Prepare ==
    /\ At("boot", "idle") /\ status # "healthy"
    /\ status' = "checking"
    /\ Go("boot", IF pending # NoUpdate THEN "recover" ELSE "choose", "none")
    /\ UNCHANGED <<disk, up, proven, lost, budget>>

BadRecover ==
    /\ At("boot", "recover")
    /\ IF pending # NoUpdate /\ current = pending.candidate /\ Good(current)
       THEN GoWith("boot", "start", "recover", current, NoVersion)
       ELSE Go("boot", "idle", "none")
    /\ UNCHANGED <<disk, status, up, proven, lost, budget>>

\* recoverPendingUpdate(): the candidate is tried once more when it is current
\* and complete, else rolled back.
Recover ==
    /\ At("boot", "recover")
    /\ IF pending # NoUpdate /\ current = pending.candidate /\ Good(current)
       THEN /\ GoWith("boot", "start", "recover", current, NoVersion)
            /\ UNCHANGED up
       ELSE /\ Go("boot", "rollback", "fall")
            /\ up' = FALSE
    /\ UNCHANGED <<disk, status, proven, lost, budget>>

\* The rest of runPrepare(): keep the current version, replace it with the
\* bundled one when it is older, install the bundled one when there is none.
Choose ==
    /\ At("boot", "choose")
    /\ CASE current # NoVersion /\ ~Good(current) ->
                Fails("boot")
         [] Good(current) /\ current >= Bundled ->
                /\ GoWith("boot", "start", "keep", current, NoVersion)
                /\ UNCHANGED <<status, up>>
         [] OTHER ->
                /\ GoWith("boot", "place", "install", Bundled, NoVersion)
                /\ up' = IF current = NoVersion THEN up ELSE FALSE
                /\ UNCHANGED status
    /\ UNCHANGED <<disk, proven, lost, budget>>

\* repair() and retryStart() while nothing is in progress; prepare() has been
\* called before the first window can ask for either.
Asked == At("boot", "idle") /\ status # "checking"

Repair ==
    /\ Asked /\ repairs < MaxRepairs
    /\ repairs' = repairs + 1
    /\ status' = "checking" /\ up' = FALSE
    /\ Go("boot", "rollback", "repair")
    /\ UNCHANGED <<disk, proven, lost, updates, crashes, fails, stuck, flaws>>

Retry ==
    /\ Asked /\ repairs < MaxRepairs
    /\ repairs' = repairs + 1
    /\ up' = FALSE
    /\ IF Good(current) THEN Go("boot", "start", "retry") /\ status' = "checking"
                        ELSE UNCHANGED proc /\ status' = "error"
    /\ UNCHANGED <<disk, proven, lost, updates, crashes, fails, stuck, flaws>>

\* Either is refused while a reply is active (runtimeBusy).
Refuse ==
    /\ Asked
    /\ status' = "error"
    /\ UNCHANGED <<disk, proc, up, proven, lost, budget>>

---------------------------------------------------------------------------
(* The updater and the application                                         *)

\* installBackendUpdate(), which asks the running backend first, for a release
\* newer than what is launched and what is bundled.
Update(v) ==
    /\ At("upd", "idle") /\ up /\ updates < MaxUpdates
    /\ v > LaunchTarget /\ v > Bundled
    /\ updates' = updates + 1
    /\ GoWith("upd", "place", "install", v, NoVersion)
    /\ UNCHANGED <<disk, status, up, proven, lost, repairs, crashes, fails, stuck, flaws>>

\* The application crashes and is started again.
Crash ==
    /\ crashes < MaxCrashes
    /\ crashes' = crashes + 1
    /\ proc' = [p \in Procs |-> [at |-> "idle", goal |-> "none",
                                 v |-> NoVersion, prev |-> NoVersion]]
    /\ status' = "checking" /\ up' = FALSE
    /\ UNCHANGED <<disk, proven, lost, updates, repairs, fails, stuck, flaws>>

Step(p) ==
    \/ Place(p) \/ PlaceFails(p) \/ SelfTestFails(p) \/ Activate(p) \/ Mark(p)
    \/ Commit(p) \/ Prune(p) \/ PruneFails(p) \/ Close(p)
    \/ Legacy(p) \/ Sweep(p) \/ SweepFails(p)
    \/ Rollback(p) \/ Drop(p) \/ DropFails(p) \/ Forget(p)
    \/ Start(p) \/ StartFails(p)

Next ==
    \/ \E p \in Procs : Step(p)
    \/ Prepare \/ Recover \/ Choose \/ Repair \/ Retry \/ Refuse
    \/ \E v \in Versions : Update(v)
    \/ Crash

Spec == Init /\ [][Next]_vars

\* The same when bootstrap and updater do not overlap.
Alone == \E p \in Procs : proc'[p].at = "idle"

AloneSpec == Init /\ [][Next /\ Alone]_vars

\* What was begun goes on, and every start of the application begins the
\* bootstrap once; after an error only the user or a window begins it again.
Fairness ==
    /\ \A p \in Procs : WF_vars(Step(p))
    /\ WF_vars(status = "checking" /\ Prepare) /\ WF_vars(Recover) /\ WF_vars(Choose)

FairSpec == Spec /\ Fairness

---------------------------------------------------------------------------
(* Properties                                                              *)

\* Markers, transactions and processes have their types; a transaction names a
\* candidate.
TypeOK ==
    /\ current \in Markers
    /\ pending \in [candidate: Versions, previous: Markers] \cup {NoUpdate}
    /\ dir \in [Versions -> {"absent", "good", "broken"}]
    /\ proc \in [Procs -> [at: Steps, goal: Goals, v: Markers, prev: Markers]]
    /\ status \in {"checking", "healthy", "error"} /\ up \in BOOLEAN
    /\ proven \subseteq Versions /\ lost \subseteq Versions

\* The version current.json names is installed and complete, so that the next
\* start needs nobody to repair it.
MarkerInstalled == current # NoVersion => Good(current)

\* A version that has never run healthy is current only under a transaction
\* that can take it back, wherever the application crashes.
UnprovenIsPending ==
    current # NoVersion /\ current \notin proven =>
        pending.candidate = current

\* Whatever crashes, fails and cannot be removed: when the version that
\* current.json names is not installed, then because a commit had given it up
\* for a version that ran, or because it did not pass its self-test; a
\* rollback, a sweep or an installation that stops half-way never costs it.
LossIsExplained == current # NoVersion /\ ~Good(current) => current \in lost

\* A rollback that follows a crash inside commit goes back to a version that
\* the commit has removed.
RollsBackAfterCrash == crashes > 0 /\ fails + repairs > 0

\* The marker names a version that is installed and complete, however often
\* the application crashes, or starts, installations and repairs fail.  With
\* both, with a removal that stops half-way or a self-test that is not passed
\* it may be gone, but only if it had been given up.
MarkerSurvivesFaults ==
    /\ LossIsExplained
    /\ stuck = 0 /\ flaws = 0 /\ ~RollsBackAfterCrash => MarkerInstalled

\* Whatever begins the bootstrap, a start, a window or the user, ends with a
\* backend that runs, or with an error that something in it explains: a crash,
\* a failure, a removal or a self-test, or a marker that was damaged before,
\* which only the user can repair.
Troubles == crashes + fails + stuck + flaws

Begun ==
    status = "checking" /\ proc["boot"].goal \in {"none", "repair", "retry"}

ComesUp ==
    \A n \in 0..(MaxCrashes + MaxFails + MaxStuck + MaxFlaws) :
        Begun /\ Troubles = n
            ~> \/ status = "healthy"
               \/ status = "error" /\ (Troubles > n \/ ~MarkerInstalled)
=============================================================================

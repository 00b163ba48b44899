--------------------------- MODULE ScheduledTasks ---------------------------
(***************************************************************************)
(* Scheduled tasks of the main process: ScheduledTaskService                *)
(* (main/services/scheduled-tasks/service.ts) over ScheduledTaskStore       *)
(* (store.ts), with the run of a task on the backend (backend-runner.ts)    *)
(* and the Windows trigger (windows-scheduler.ts) seen from the service.    *)
(*                                                                          *)
(* The actors that interleave at the awaits of the service are             *)
(*   - the IPC handlers and the tools of the agent (create ... delete),     *)
(*   - runTail, one job after the other: worker takes them from jobs,       *)
(*   - calls of reconcile(), any number of them at a time: Slots,           *)
(*   - calls by which the renderer or a tool reports what happened in a     *)
(*     session: Reporters.                                                  *)
(* An operation of the store is one step: its queue runs them one by one.   *)
(***************************************************************************)
EXTENDS Naturals, Sequences, FiniteSets, FiniteSetsExt

CONSTANTS
    Tasks,       \* identities of tasks
    Kind,        \* [Tasks -> {"reminder", "agent", "monitor"}]
    Once,        \* tasks whose schedule is "once"; the others recur
    Existing,    \* tasks whose target is an existing session
    Slots,       \* calls of reconcile() in progress at a time (bound)
    Reporters,   \* reports in progress at a time (bound)
    Horizon,     \* the clock stops here (bound)
    MaxRuns,     \* runs recorded (bound)
    MaxJobs,     \* jobs waiting in runTail (bound)
    MaxOps,      \* calls of handlers and tools (bound)
    MaxAsks,     \* requests for approval reported (bound)
    MaxRestarts  \* restarts of the process (bound)

ASSUME KindAssumption == Kind \in [Tasks -> {"reminder", "agent", "monitor"}]
ASSUME TasksAssumption ==
    /\ Tasks # {} /\ IsFiniteSet(Tasks) /\ Slots # {}
    /\ Once \subseteq Tasks /\ Existing \subseteq Tasks
ASSUME BoundsAssumption == {Horizon, MaxRuns, MaxJobs, MaxOps, MaxAsks, MaxRestarts} \subseteq Nat

Times == 0..(Horizon + 1)
Never == Horizon + 2         \* null: later than every time
RunIds == 1..MaxRuns         \* in the order of appendRun

Active  == {"queued", "running", "awaiting_approval"}
Ended   == {"succeeded", "changed", "unchanged", "failed"}

VARIABLES
    now,       \* the clock
    task,      \* the tasks of the store
    run,       \* the runs of the store
    jobs,      \* what runTail still has to run
    worker,    \* the job that runs and where it stands
    rec,       \* the reconcile() calls in progress
    timers,    \* how many timers are armed for each time
    handle,    \* the time of the timer this.timer refers to
    rep,       \* the reports in progress: the run found, the status to write
    windows,   \* the start time of the registered Windows task
    ops,       \* calls of handlers and tools so far
    asks,      \* requests for approval reported so far
    restarts,  \* restarts so far
    ended      \* history: runs that have come to an end

storeVars == <<task, run>>
recVars   == <<rec, timers, handle, windows>>
countVars == <<ops, asks, restarts>>
vars == <<now, storeVars, jobs, worker, recVars, rep, countVars, ended>>

NoTask  == [exists |-> FALSE, enabled |-> FALSE, next |-> Never, runAt |-> Never]
Deleted == [NoTask EXCEPT !.runAt = 0]   \* deleted: its identity is used no more
NoRun   == [task |-> CHOOSE t \in Tasks : TRUE, status |-> "none", session |-> FALSE]
NoRec   == [phase |-> "idle", next |-> Never]
NoReport == [id |-> 0, status |-> "none"]
Resting == [phase |-> "idle", kind |-> "due", todo |-> <<>>, id |-> 0,
            slot |-> CHOOSE s \in Slots : TRUE, retried |-> FALSE, sent |-> "no"]

WorkerPhases == {"idle", "pick", "append", "advance", "run", "wait", "failed",
                 "changed", "settle"}

TypeOK ==
    /\ now \in 0..Horizon
    /\ task \in [Tasks -> [exists : BOOLEAN, enabled : BOOLEAN,
                           next : Times \cup {Never}, runAt : Times \cup {Never}]]
    /\ run \in [RunIds -> [task : Tasks, status : Active \cup Ended \cup {"none"},
                           session : BOOLEAN]]
    /\ jobs \in Seq([kind : {"due"}, now : Times] \cup [kind : {"manual"}, task : Tasks])
    /\ worker.phase \in WorkerPhases /\ worker.id \in 0..MaxRuns
    /\ worker.sent \in {"no", "queued", "started"}
    /\ rec \in [Slots -> [phase : {"idle", "begin", "list", "sync"},
                          next : Times \cup {Never}]]
    /\ timers \in [Times -> Nat]
    /\ handle \in Times \cup {Never}
    /\ windows \in Times \cup {Never}
    /\ rep \in [Reporters -> [id : 0..MaxRuns, status : Active \cup Ended \cup {"none"}]]
    /\ ops \in 0..MaxOps /\ asks \in 0..MaxAsks /\ restarts \in 0..MaxRestarts
    /\ ended \subseteq RunIds

Init ==
    /\ now = 0
    /\ task = [t \in Tasks |-> NoTask]
    /\ run = [r \in RunIds |-> NoRun]
    /\ jobs = <<>> /\ worker = Resting
    /\ rec = [s \in Slots |-> NoRec]
    /\ timers = [x \in Times |-> 0]
    /\ handle = Never /\ windows = Never
    /\ rep = [x \in Reporters |-> NoReport]
    /\ ops = 0 /\ asks = 0 /\ restarts = 0 /\ ended = {}

---------------------------------------------------------------------------
(* Schedules (schedule.ts) and queries of the store                        *)

\* calculateNextRunAt: a one-shot time that has passed gives null; the
\* recurring schedules of the model recur at every tick of the clock.
NextRunAt(t, runAt, from) ==
    IF t \in Once THEN (IF runAt > from THEN runAt ELSE Never) ELSE from + 1

Planned  == {t \in Tasks : task[t].enabled /\ task[t].next # Never}
Earliest == Min({task[t].next : t \in Planned} \cup {Never})

RunsOf(t)    == {r \in RunIds : run[r].status # "none" /\ run[r].task = t}
ActiveRun(t) == \E r \in RunsOf(t) : run[r].status \in Active
FreeRuns     == {r \in RunIds : run[r].status = "none"
                                /\ \A q \in RunIds : q > r => run[q].status = "none"}
FreeSlots    == {s \in Slots : rec[s].phase = "idle"}

---------------------------------------------------------------------------
(* changed() and reconcile()                                               *)

\* The caller of changed() waits for the store to have written; then slot s
\* runs reconcile().
StartReconcile(s) ==
    /\ s \in FreeSlots
    /\ rec' = [rec EXCEPT ![s].phase = "begin"]

ClearTimer ==
    /\ timers' = IF handle # Never THEN [timers EXCEPT ![handle] = @ - 1] ELSE timers
    /\ handle' = Never

\* clearTimeout, then await listTasks().
RecBegin(s) ==
    /\ rec[s].phase = "begin"
    /\ ClearTimer
    /\ rec' = [rec EXCEPT ![s].phase = "list"]
    /\ UNCHANGED <<now, storeVars, jobs, worker, windows, rep, countVars>>

RecList(s) ==
    /\ rec[s].phase = "list"
    /\ rec' = [rec EXCEPT ![s] = [phase |-> "sync", next |-> Earliest]]
    /\ UNCHANGED <<now, storeVars, jobs, worker, timers, handle, windows, rep, countVars>>

\* The Windows task is replaced (or schtasks fails), then the timer is armed;
\* this.timer forgets a timer that another call armed in the meantime.
BadRecFinish(s) ==
    \E synced \in BOOLEAN :
        /\ rec[s].phase = "sync"
        /\ windows' = IF synced THEN rec[s].next ELSE windows
        /\ timers' = [x \in Times |->
               (IF x = handle THEN timers[x] - 1 ELSE timers[x])
               + (IF x = rec[s].next THEN 1 ELSE 0)]
        /\ handle' = rec[s].next
        /\ rec' = [rec EXCEPT ![s] = NoRec]
        /\ UNCHANGED <<now, storeVars, jobs, worker, rep, countVars>>

RecFinish(s) ==
    \E synced \in BOOLEAN :
        /\ rec[s].phase = "sync"
        /\ windows' = IF synced THEN rec[s].next ELSE windows
        /\ IF rec[s].next = Never
           THEN UNCHANGED <<timers, handle>>
           ELSE /\ timers' = [timers EXCEPT ![rec[s].next] = @ + 1]
                /\ handle' = rec[s].next
        /\ rec' = [rec EXCEPT ![s] = NoRec]
        /\ UNCHANGED <<now, storeVars, jobs, worker, rep, countVars>>

---------------------------------------------------------------------------
(* IPC handlers and tools: one operation of the store, then changed()      *)

CountOp == ops < MaxOps /\ ops' = ops + 1 /\ UNCHANGED <<asks, restarts>>

UserOp(t, newTask) ==
    /\ CountOp
    /\ task' = [task EXCEPT ![t] = newTask]
    /\ \E s \in Slots : StartReconcile(s)
    /\ UNCHANGED <<now, jobs, worker, timers, handle, windows>>

\* validateSchedule wants the time of a one-shot task in the future.
Create(t, at) ==
    /\ task[t] = NoTask /\ at > now
    /\ t \notin Once => at = now + 1
    /\ UserOp(t, [exists |-> TRUE, enabled |-> TRUE, runAt |-> at,
                  next |-> NextRunAt(t, at, now)])
    /\ UNCHANGED <<run, rep>>

\* update() plans the next time even of a task that is paused.
Update(t, at) ==
    /\ task[t].exists /\ (at > now \/ at = task[t].runAt)
    /\ t \notin Once => at = now + 1
    /\ at # Never
    /\ UserOp(t, [task[t] EXCEPT !.runAt = at, !.next = NextRunAt(t, at, now)])
    /\ UNCHANGED <<run, rep>>

Pause(t) ==
    /\ task[t].exists
    /\ UserOp(t, [task[t] EXCEPT !.enabled = FALSE, !.next = Never])
    /\ UNCHANGED <<run, rep>>

Resume(t) ==
    /\ task[t].exists
    /\ UserOp(t, [task[t] EXCEPT !.enabled = TRUE,
                     !.next = NextRunAt(t, task[t].runAt, now)])
    /\ UNCHANGED <<run, rep>>

\* delete() removes the task and its runs; a report of one of them in progress
\* throws when it comes to them.
Delete(t) ==
    /\ task[t].exists
    /\ UserOp(t, Deleted)
    /\ run' = [r \in RunIds |-> IF run[r].task = t THEN NoRun ELSE run[r]]
    /\ rep' = [x \in Reporters |->
                 IF rep[x].id # 0 /\ run[rep[x].id].task = t THEN NoReport ELSE rep[x]]

\* run-now: queueRun puts a manual run behind runTail.
RunNow(t) ==
    /\ task[t].exists /\ Len(jobs) < MaxJobs
    /\ CountOp
    /\ jobs' = Append(jobs, [kind |-> "manual", task |-> t])
    /\ UNCHANGED <<now, storeVars, worker, recVars, rep>>

\* A report finds the run it is about, then, after its awaits, writes the
\* status without looking at the run again, and calls changed().
Reports(x, q, status) ==
    /\ rep[x] = NoReport
    /\ rep' = [rep EXCEPT ![x] = [id |-> q, status |-> status]]
    /\ UNCHANGED <<now, storeVars, jobs, worker, recVars>>

ReportWritten(x) ==
    /\ rep[x] # NoReport
    /\ run' = [run EXCEPT ![rep[x].id].status = rep[x].status]
    /\ rep' = [rep EXCEPT ![x] = NoReport]
    /\ \E s \in Slots : StartReconcile(s)
    /\ UNCHANGED <<now, task, jobs, worker, timers, handle, windows, countVars>>

SameSession(r, q) ==
    r = q \/ (run[r].task = run[q].task /\ run[r].task \in Existing)

OfSession(r, statuses) ==
    {q \in RunIds : run[q].session /\ SameSession(r, q) /\ run[q].status \in statuses}

\* The statuses of a run that a report of its session may still change.
Reported == {"running", "awaiting_approval", "changed", "unchanged"}

\* reconcileSessionRun: the renderer reports the end of a message, an error
\* or a request for approval in the session of run r, whoever caused it; the
\* newest run recorded for that session that is not final for the service is
\* taken for it, even when it has ended and another run is at work there.
SessionReport(x, r, status) ==
    LET found == OfSession(r, Reported)
        q == Max(found)
    IN  /\ run[r].session /\ found # {}
        /\ ~(Kind[run[q].task] = "monitor" /\ run[q].status \in {"changed", "unchanged"}
             /\ status = "succeeded")
        /\ Reports(x, q, status)
        /\ asks' = IF status = "awaiting_approval" THEN asks + 1 ELSE asks
        /\ asks' <= MaxAsks /\ UNCHANGED <<ops, restarts>>

\* mcp_scheduled_task_report: a monitor reports what it found from its own
\* session; the newest run of that session which is still open takes it.
MonitorReport(x, r, status) ==
    LET found == OfSession(r, {"running", "awaiting_approval"})
        q == Max(found)
    IN  /\ run[r].session /\ found # {} /\ Kind[run[q].task] = "monitor"
        /\ Reports(x, q, status)
        /\ UNCHANGED countVars

---------------------------------------------------------------------------
(* Jobs of runTail                                                         *)

\* A timer fires: runDueTasks(new Date()).
TimerFires(x) ==
    /\ timers[x] > 0 /\ x <= now /\ Len(jobs) < MaxJobs
    /\ timers' = [timers EXCEPT ![x] = @ - 1]
    /\ handle' = IF handle = x /\ timers[x] = 1 THEN Never ELSE handle
    /\ jobs' = Append(jobs, [kind |-> "due", now |-> now])
    /\ UNCHANGED <<now, storeVars, worker, rec, windows, rep, countVars>>

\* Windows starts the program with --scheduled-task-runner: the instance that
\* runs already takes it as runDueTasks().
WindowsFires ==
    /\ windows <= now /\ Len(jobs) < MaxJobs
    /\ windows' = Never
    /\ jobs' = Append(jobs, [kind |-> "due", now |-> now])
    /\ UNCHANGED <<now, storeVars, worker, rec, timers, handle, rep, countVars>>

\* The due tasks, the one due first at the head, as listTasks() shows them.
InOrder(due) ==
    {q \in [1..Cardinality(due) -> [task : due, at : Times]] :
        /\ \A i \in DOMAIN q : q[i].at = task[q[i].task].next
        /\ \A i, j \in DOMAIN q : i < j => q[i].task # q[j].task /\ q[i].at <= q[j].at}

BadDueAt(time) == InOrder({t \in Planned : task[t].next < time})

DueAt(time) == InOrder({t \in Planned : task[t].next <= time})

Take ==
    /\ worker.phase = "idle" /\ jobs # <<>>
    /\ jobs' = Tail(jobs)
    /\ LET job == Head(jobs) IN
       IF job.kind = "due"
       THEN \E q \in DueAt(job.now) :
              worker' = [Resting EXCEPT !.phase = "pick", !.todo = q]
       ELSE worker' = IF task[job.task].exists
                      THEN [Resting EXCEPT !.phase = "pick", !.kind = "manual",
                              !.todo = <<[task |-> job.task, at |-> task[job.task].next]>>]
                      ELSE Resting
    /\ UNCHANGED <<now, storeVars, recVars, rep, countVars>>

Current == Head(worker.todo)
Go(phase) == worker' = [worker EXCEPT !.phase = phase]

\* runTask: a task with an active run is passed over, its time not advanced.
BadPick ==
    /\ worker.phase = "pick" /\ worker.todo # <<>>
    /\ Go("append")
    /\ UNCHANGED <<now, storeVars, jobs, recVars, rep, countVars>>

Pick ==
    /\ worker.phase = "pick" /\ worker.todo # <<>>
    /\ IF ActiveRun(Current.task)
       THEN worker' = [worker EXCEPT !.todo = Tail(@)]
       ELSE Go("append")
    /\ UNCHANGED <<now, storeVars, jobs, recVars, rep, countVars>>

\* appendRun, for the task as it was listed: it may be gone by now.
AppendRun ==
    /\ worker.phase = "append"
    /\ \E r \in FreeRuns :
        /\ \A q \in FreeRuns : r <= q
        /\ run' = [run EXCEPT ![r] = [task |-> Current.task, status |-> "running",
                                      session |-> FALSE]]
        /\ worker' = [worker EXCEPT !.id = r,
                         !.phase = IF worker.kind = "manual" THEN "run" ELSE "advance"]
    /\ UNCHANGED <<now, task, jobs, recVars, rep, countVars>>

\* The job ends with an error that runTail swallows: the tasks left in the
\* list wait for the next time.
Abort == worker' = Resting

\* advance(): on to the next occurrence, and a one-shot task is disabled.
Advance ==
    /\ worker.phase = "advance"
    /\ LET t == Current.task IN
       IF task[t].exists
       THEN /\ task' = [task EXCEPT
                    ![t].next = IF t \in Once THEN Never ELSE NextRunAt(t, Never, now),
                    ![t].enabled = IF t \in Once THEN FALSE ELSE @]
            /\ Go("run")
       ELSE Abort /\ UNCHANGED task
    /\ UNCHANGED <<now, run, jobs, recVars, rep, countVars>>

\* updateRun for the current run; with the run deleted it throws, the
\* handler of the error throws again and the job ends.
Record(status, session, next) ==
    IF run[worker.id].status # "none" /\ run[worker.id].task = Current.task
    THEN /\ run' = [run EXCEPT ![worker.id].status = status,
                               ![worker.id].session = @ \/ session]
         /\ next
    ELSE Abort /\ UNCHANGED run

\* A reminder is done at once.
Remind ==
    /\ worker.phase = "run" /\ Kind[Current.task] = "reminder"
    /\ Record("succeeded", FALSE, Go("changed"))
    /\ UNCHANGED <<now, task, jobs, recVars, rep, countVars>>

\* The message of an existing session goes through its queue: "queued" when
\* the backend has taken it, "running" when its turn has come.  The update of
\* the run is not awaited; for a run deleted meanwhile it fails unnoticed.
QueueState ==
    /\ worker.phase = "run" /\ Current.task \in Existing
    /\ Kind[Current.task] # "reminder" /\ worker.sent # "started"
    /\ worker' = [worker EXCEPT !.sent = IF @ = "no" THEN "queued" ELSE "started"]
    /\ run' = IF run[worker.id].status = "none" THEN run
              ELSE [run EXCEPT ![worker.id].status =
                       IF worker.sent = "no" THEN "queued" ELSE "running"]
    /\ UNCHANGED <<now, task, jobs, recVars, rep, countVars>>

\* The backend cannot be started: a run nobody asked for by hand waits five
\* minutes and is tried once more.
StartupFails ==
    /\ worker.phase = "run" /\ Kind[Current.task] # "reminder"
    /\ worker.kind = "due" /\ ~worker.retried /\ worker.sent = "no"
    /\ Record("queued", FALSE, worker' = [worker EXCEPT !.phase = "wait", !.retried = TRUE])
    /\ UNCHANGED <<now, task, jobs, recVars, rep, countVars>>

RetryStart ==
    /\ worker.phase = "wait"
    /\ Record("running", FALSE, Go("run"))
    /\ UNCHANGED <<now, task, jobs, recVars, rep, countVars>>

Outcomes(t) ==
    {"awaiting_approval", "failed"}
        \cup (IF Kind[t] = "monitor" THEN {"changed", "unchanged"} ELSE {"succeeded"})

\* The backend run ends: well only once the message has started, and it may
\* fail at any time (an error, 30 minutes without an end).  A failure leaves
\* the run without its session; a target that is gone disables the task.
Finish(status) ==
    /\ worker.phase = "run" /\ Kind[Current.task] # "reminder"
    /\ status \in Outcomes(Current.task)
    /\ status = "failed" \/ Current.task \notin Existing \/ worker.sent = "started"
    /\ Record(status, status # "failed",
              IF status = "failed" /\ Current.task \in Existing
              THEN Go("failed") \/ Go("changed") ELSE Go("changed"))
    /\ UNCHANGED <<now, task, jobs, recVars, rep, countVars>>

DisableTarget ==
    /\ worker.phase = "failed"
    /\ LET t == Current.task IN
       IF task[t].exists
       THEN /\ task' = [task EXCEPT ![t].enabled = FALSE, ![t].next = Never]
            /\ Go("changed")
       ELSE Abort /\ UNCHANGED task
    /\ UNCHANGED <<now, run, jobs, recVars, rep, countVars>>

\* runDueTasksSerial ends with reconcile(), a manual job does not.
EndsWithReconcile(kind) == kind = "due"

\* runTask ends with changed(); the job goes on when the call of reconcile()
\* has returned.
Changed ==
    /\ \/ worker.phase = "changed"
       \/ worker.phase = "pick" /\ worker.todo = <<>> /\ EndsWithReconcile(worker.kind)
    /\ \E s \in Slots :
        /\ StartReconcile(s)
        /\ worker' = [worker EXCEPT !.phase = "settle", !.slot = s]
    /\ UNCHANGED <<now, storeVars, jobs, timers, handle, windows, rep, countVars>>

Settle ==
    /\ worker.phase = "settle" /\ rec[worker.slot].phase = "idle"
    /\ worker' = IF worker.todo = <<>> THEN Resting
                 ELSE [worker EXCEPT !.phase = "pick", !.todo = Tail(@), !.id = 0,
                                     !.retried = FALSE, !.sent = "no"]
    /\ UNCHANGED <<now, storeVars, jobs, recVars, rep, countVars>>

EndJob ==
    /\ worker.phase = "pick" /\ worker.todo = <<>> /\ ~EndsWithReconcile(worker.kind)
    /\ worker' = Resting
    /\ UNCHANGED <<now, storeVars, jobs, recVars, rep, countVars>>

---------------------------------------------------------------------------
Tick ==
    /\ now < Horizon
    /\ now' = now + 1
    /\ UNCHANGED <<storeVars, jobs, worker, recVars, rep, countVars>>

\* The process ends, by a crash or a quit, and starts again: start() calls
\* reconcile().  What the store has written stays.
Restart ==
    /\ restarts < MaxRestarts
    /\ restarts' = restarts + 1
    /\ jobs' = <<>> /\ worker' = Resting /\ rep' = [x \in Reporters |-> NoReport]
    /\ \E s \in Slots : rec' = [q \in Slots |->
            IF q = s THEN [NoRec EXCEPT !.phase = "list"] ELSE NoRec]
    /\ timers' = [x \in Times |-> 0] /\ handle' = Never
    /\ UNCHANGED <<now, storeVars, windows, ops, asks>>

UserStep ==
    \E t \in Tasks :
        \/ \E at \in Times : Create(t, at) \/ Update(t, at)
        \/ Pause(t) \/ Resume(t) \/ Delete(t) \/ RunNow(t)

BackendEnds ==
    \E status \in Ended \cup {"awaiting_approval"} : Finish(status)

WorkerStep ==
    \/ Take \/ Pick \/ AppendRun \/ Advance \/ Remind \/ RetryStart
    \/ DisableTarget \/ Changed \/ Settle \/ EndJob

BackendStep == StartupFails \/ BackendEnds \/ QueueState

RecStep(s) == RecBegin(s) \/ RecList(s) \/ RecFinish(s)

ReportStep(x) ==
    \/ ReportWritten(x)
    \/ \E r \in RunIds, status \in {"succeeded", "failed", "awaiting_approval"} :
            SessionReport(x, r, status)
    \/ \E r \in RunIds, status \in {"changed", "unchanged"} : MonitorReport(x, r, status)

Act ==
    \/ Tick \/ Restart \/ UserStep \/ WorkerStep \/ BackendStep \/ WindowsFires
    \/ \E s \in Slots : RecStep(s)
    \/ \E x \in Times : TimerFires(x)
    \/ \E x \in Reporters : ReportStep(x)

\* History: the runs of the store that have come to an end.
Remembers ==
    ended' = {r \in RunIds : /\ run'[r].status # "none"
                             /\ r \in ended \/ run'[r].status \in Ended}

Next == Act /\ Remembers

Spec == Init /\ [][Next]_vars

Approved ==
    \E x \in Reporters, r \in RunIds :
        run[r].status = "awaiting_approval" /\ SessionReport(x, r, "succeeded")

\* The event loop runs what is ready and timers fire; a report is written
\* although the model has no slot for its reconcile() now and then (SF).  Of
\* the world: the backend gets on with the run it has taken, and a run that
\* waits for approval gets its answer.
Fairness ==
    /\ WF_vars((WorkerStep \/ BackendStep) /\ Remembers)
    /\ \A s \in Slots : WF_vars(RecStep(s) /\ Remembers)
    /\ \A x \in Reporters : SF_vars(ReportWritten(x) /\ Remembers)
    /\ WF_vars((\E x \in Times : TimerFires(x)) /\ Remembers)
    /\ WF_vars(Approved /\ Remembers)

FairSpec == Spec /\ Fairness

---------------------------------------------------------------------------
(* Properties                                                              *)

Calm == jobs = <<>> /\ worker.phase = "idle" /\ \A s \in Slots : rec[s].phase = "idle"

\* With no call in progress, a timer is armed no later than the earliest
\* planned time: however calls of reconcile() overlapped and jobs were
\* aborted, no enabled task is forgotten.
TimerCoversPlan ==
    Calm /\ Planned # {} => \E x \in Times : timers[x] > 0 /\ x <= Earliest

\* A run of a task is begun only when no other is queued, running or awaiting
\* approval, whichever of the timer, Windows and the user asks for it, and one
\* that has ended never runs again.  (It may come to await approval again: a
\* report names a session, and takes the newest run recorded for it.)
SingleActiveRun ==
    \A t \in Tasks :
        /\ Cardinality({r \in RunsOf(t) : run[r].status \in Active} \ ended) <= 1
        /\ \A r \in RunsOf(t) \cap ended : run[r].status \notin {"queued", "running"}

\* runTail moves the plan of t on, past an occurrence it has taken.
WorkerMovesPlan(t) ==
    /\ worker.phase = "advance" /\ worker'.phase = "run" /\ Current.task = t
    /\ task'[t].next # task[t].next

\* A one-shot task is disabled only once its time has come.
OnceKeptUntilDue ==
    [][\A t \in Once : WorkerMovesPlan(t) => task[t].next <= now \/ ~task[t].enabled]_vars

Due(t) == task[t].enabled /\ task[t].next <= now

\* A run that has ended awaits an approval that was asked for in its session.
Revived(t) == \E r \in RunsOf(t) \cap ended : run[r].status = "awaiting_approval"

\* A task that is due is run, paused or rescheduled, unless the program is
\* restarted meanwhile, or an ended run of it awaits approval for ever.
DueTaskRuns ==
    \A t \in Tasks : []<>(~Due(t) \/ restarts > 0) \/ <>[]Revived(t)

\* It is, whatever is restarted or reported.  It is not: a run that was in
\* progress when the program ended stays active on disk (ST_stuck.cfg), and the
\* approval an ended run awaits may be taken for a newer one (ST_reports.cfg);
\* no later run begins.
EveryDueTaskRuns == \A t \in Tasks : Due(t) ~> ~Due(t)

=============================================================================

------------------------ MODULE ScheduledTasks_proofs ------------------------
(***************************************************************************)
(* Proofs about ScheduledTasks, for any tasks, any number of overlapping      *)
(* calls of reconcile(), and any bounds.                                     *)
(***************************************************************************)
EXTENDS ScheduledTasks, FiniteSetTheorems, SequenceTheorems,
        WellFoundedInduction, TLAPS

---------------------------------------------------------------------------
(* Least and greatest elements                                             *)

LEMMA LeastExists ==
    ASSUME NEW S \in SUBSET Nat, S # {} PROVE \E x \in S : \A y \in S : x <= y
<1> DEFINE R == OpToRel(<, Nat)
<1>1. PICK x \in S : \A y \in S : <<y, x>> \notin R
    BY NatLessThanWellFounded, WFMin, Zenon
<1>2. \A y \in Nat : <<y, x>> \in R <=> y < x
    BY DEF OpToRel
<1>3. \A y \in S : ~(y < x)
    BY <1>1, <1>2, Zenon
<1> QED
    <2> HIDE DEF R
    <2> QED
        BY <1>3

LEMMA MinIsLeast ==
    ASSUME NEW S \in SUBSET Nat, S # {}
    PROVE  Min(S) \in S /\ \A y \in S : Min(S) <= y
BY LeastExists DEF Min

LEMMA MaxIsGreatest ==
    ASSUME NEW n \in Nat, NEW S \in SUBSET (0..n), S # {}
    PROVE  Max(S) \in S /\ \A y \in S : y <= Max(S)
<1> DEFINE T == {n - x : x \in S}
<1>1. PICK z \in T : \A y \in T : z <= y
    <2>1. \A x \in S : n - x \in Nat
        OBVIOUS
    <2>2. T \in SUBSET Nat /\ T # {}
        BY <2>1, Zenon
    <2> QED
        BY <2>2, LeastExists, Zenon
<1>2. PICK x \in S : z = n - x
    OBVIOUS
<1>3. \A y \in S : n - y \in T
    OBVIOUS
<1>4. \A y \in S : x >= y
    <2> SUFFICES ASSUME NEW y \in S PROVE x >= y
        OBVIOUS
    <2>1. z <= n - y
        BY <1>1, <1>3
    <2> QED
        BY <1>2, <2>1
<1> QED
    BY <1>4, x \in S, Zenon DEF Max

---------------------------------------------------------------------------
(* Types                                                                   *)

TaskType == [exists : BOOLEAN, enabled : BOOLEAN,
             next : Times \cup {Never}, runAt : Times \cup {Never}]

RunType == [task : Tasks, status : Active \cup Ended \cup {"none"}, session : BOOLEAN]

JobType == [kind : {"due"}, now : Times] \cup [kind : {"manual"}, task : Tasks]

Entry == [task : Tasks, at : Times \cup {Never}]

WorkerType == [phase : WorkerPhases, kind : {"due", "manual"}, todo : Seq(Entry),
               id : 0..MaxRuns, slot : Slots, retried : BOOLEAN,
               sent : {"no", "queued", "started"}]

RecType == [phase : {"idle", "begin", "list", "sync"}, next : Times \cup {Never}]

TimersTyped ==
    /\ timers \in [Times -> Nat]
    /\ handle \in Times \cup {Never}
    /\ handle # Never => timers[handle] > 0

Typed ==
    /\ now \in 0..Horizon
    /\ task \in [Tasks -> TaskType]
    /\ run \in [RunIds -> RunType]
    /\ jobs \in Seq(JobType)
    /\ worker \in WorkerType
    /\ rec \in [Slots -> RecType]
    /\ TimersTyped
    /\ windows \in Times \cup {Never}
    /\ ops \in 0..MaxOps /\ asks \in 0..MaxAsks /\ restarts \in 0..MaxRestarts

LEMMA TimesFacts ==
    /\ Times \subseteq Nat /\ Never \in Nat /\ Never \notin Times
    /\ \A x \in Times : x < Never
    /\ \A x \in 0..Horizon : x \in Times /\ x + 1 \in Times
BY BoundsAssumption DEF Times, Never

LEMMA EarliestTyped ==
    ASSUME task \in [Tasks -> TaskType]
    PROVE  /\ Earliest \in Times \cup {Never}
           /\ \A t \in Planned : Earliest <= task[t].next
           /\ \/ Planned = {} /\ Earliest = Never
              \/ \E t \in Planned : Earliest = task[t].next
<1> DEFINE S == {task[t].next : t \in Planned} \cup {Never}
<1>1. \A t \in Planned : task[t].next \in Times
    BY DEF Planned, TaskType
<1>2. S \in SUBSET Nat /\ S # {}
    BY <1>1, TimesFacts
<1>3. Earliest \in S /\ \A y \in S : Earliest <= y
    BY <1>2, MinIsLeast, Zenon DEF Earliest
<1>4. \A t \in Planned : Earliest <= task[t].next
    BY <1>3
<1>5. Earliest = Never => Planned = {}
    <2> SUFFICES ASSUME Earliest = Never, NEW t \in Planned PROVE FALSE
        OBVIOUS
    <2>1. task[t].next \in Nat /\ task[t].next < Never /\ Never \in Nat
        BY <1>1, TimesFacts
    <2>2. Never <= task[t].next
        BY <1>4
    <2> QED
        BY <2>1, <2>2
<1>6. Earliest = Never \/ \E t \in Planned : Earliest = task[t].next
    BY <1>3
<1> QED
    BY <1>1, <1>4, <1>5, <1>6

LEMMA NoRunTyped == NoRun \in RunType
BY TasksAssumption, TimesFacts DEF NoRun, RunType

LEMMA DeletedTyped == Deleted \in TaskType /\ ~Deleted.enabled
<1>1. 0 \in Times
    BY BoundsAssumption DEF Times
<1>2. NoTask \in TaskType /\ ~NoTask.enabled
    BY DEF NoTask, TaskType
<1>3. [NoTask EXCEPT !.runAt = 0].enabled = NoTask.enabled
    BY DEF NoTask
<1>4. [NoTask EXCEPT !.runAt = 0] \in TaskType
    BY <1>1, <1>2 DEF TaskType
<1> QED
    BY <1>2, <1>3, <1>4 DEF Deleted

LEMMA RestingTyped == Resting \in WorkerType
<1>1. (CHOOSE s \in Slots : TRUE) \in Slots
    BY TasksAssumption
<1>2. <<>> \in Seq(Entry) /\ 0 \in 0..MaxRuns
    BY BoundsAssumption
<1> QED
    BY <1>1, <1>2 DEF Resting, WorkerType, WorkerPhases

LEMMA NextRunAtTyped ==
    ASSUME NEW t, NEW runAt \in Times \cup {Never}, NEW from \in 0..Horizon
    PROVE  NextRunAt(t, runAt, from) \in Times \cup {Never}
BY TimesFacts DEF NextRunAt

\* The list of due tasks is a sequence: there are finitely many of them.
LEMMA DueTyped ==
    ASSUME task \in [Tasks -> TaskType], NEW time, NEW q \in DueAt(time)
    PROVE  q \in Seq(Entry)
<1> DEFINE due == {t \in Planned : task[t].next <= time}
<1>1. due \subseteq Tasks
    BY DEF Planned
<1>2. Cardinality(due) \in Nat
    BY <1>1, TasksAssumption, FS_Subset, FS_CardinalityType
<1>3. q \in [1..Cardinality(due) -> [task : due, at : Times]]
    BY DEF DueAt, InOrder
<1>4. q \in [1..Cardinality(due) -> Entry]
    <2>1. \A e \in [task : due, at : Times] : e \in Entry
        BY <1>1 DEF Entry
    <2> QED
        BY <1>3, <2>1
<1> QED
    BY <1>2, <1>4, SeqDef

---------------------------------------------------------------------------
(* The job that runs and the run it works on                               *)

\* While the worker has a run in hand, nobody but delete() ends it: it has no
\* session yet by which a report could find it.
HasRun == worker.phase \in {"advance", "run", "wait"}

Mine(r) == r.task = Current.task /\ r.status \in {"queued", "running"} /\ ~r.session

Working ==
    /\ HasRun \/ worker.phase \in {"append", "failed", "changed"} => worker.todo # <<>>
    /\ HasRun => worker.id \in RunIds
                 /\ (run[worker.id].status = "none" \/ Mine(run[worker.id]))

\* A recurring task that is enabled is planned no later than the next tick.
RecursSoon ==
    \A t \in Tasks : task[t].enabled /\ t \notin Once => task[t].next <= now + 1

IInv == Typed /\ Working /\ RecursSoon

\* A report in progress has found a run with a session, and will not begin it.
ReportType == [id : 0..MaxRuns, status : Active \cup Ended \cup {"none"}]

Found(p) ==
    /\ p.id \in RunIds /\ p.status \in Ended \cup {"awaiting_approval"}
    /\ run[p.id].session /\ run[p.id].status # "none"

Reporting ==
    /\ rep \in [Reporters -> ReportType]
    /\ \A x \in Reporters : rep[x] # NoReport => Found(rep[x])

\* What the history variable holds of the runs of the store.
Remembered ==
    /\ ended \subseteq RunIds
    /\ \A r \in RunIds : run[r].status \in Ended => r \in ended
    /\ \A r \in ended : run[r].status # "none"

BaseInv == IInv /\ Reporting /\ Remembered

LEMMA BaseMeansTypeOK == BaseInv => TypeOK
BY DEF BaseInv, IInv, Reporting, ReportType, Remembered, Typed, TypeOK, TaskType, RunType,
       JobType, WorkerType, RecType, TimersTyped

\* Moving the worker on keeps its type and leaves its job alone.
LEMMA GoFacts ==
    ASSUME worker \in WorkerType, NEW ph \in WorkerPhases, Go(ph)
    PROVE  /\ worker' \in WorkerType /\ worker'.phase = ph
           /\ worker'.todo = worker.todo /\ worker'.kind = worker.kind
           /\ worker'.id = worker.id /\ worker'.slot = worker.slot
           /\ worker'.sent = worker.sent
BY DEF Go, WorkerType

\* A run keeps its type when it takes a status, a task when it is replanned.
LEMMA RunUpdates ==
    ASSUME NEW r \in RunType
    PROVE  /\ \A st \in Active \cup Ended : [r EXCEPT !.status = st] \in RunType
           /\ \A st \in Active \cup Ended, b \in BOOLEAN :
                 [r EXCEPT !.status = st, !.session = b] \in RunType
BY DEF RunType

LEMMA TaskUpdates ==
    ASSUME NEW e \in TaskType, NEW x \in Times \cup {Never}, NEW b \in BOOLEAN,
           NEW y \in Times \cup {Never}
    PROVE  /\ [e EXCEPT !.enabled = b, !.next = x] \in TaskType
           /\ [e EXCEPT !.next = x, !.enabled = b] \in TaskType
           /\ [e EXCEPT !.runAt = y, !.next = x] \in TaskType
BY DEF TaskType

\* What an action that leaves the worker and its run alone has to show.
LEMMA WorkerAlone ==
    ASSUME Working, UNCHANGED worker,
           HasRun => run'[worker.id].status = "none" \/ run'[worker.id] = run[worker.id]
    PROVE  Working'
BY DEF Working, HasRun, Mine, Current

---------------------------------------------------------------------------
(* The calls of reconcile()                                                *)

LEMMA StartReconcileTyped ==
    ASSUME rec \in [Slots -> RecType], NEW s \in Slots, StartReconcile(s)
    PROVE  rec' \in [Slots -> RecType] /\ rec'[s].phase = "begin"
           /\ \A q \in Slots \ {s} : rec'[q] = rec[q]
BY DEF StartReconcile, RecType

LEMMA ArmTyped ==
    ASSUME TimersTyped, NEW x \in Times, timers' = [timers EXCEPT ![x] = @ + 1], handle' = x
    PROVE  TimersTyped'
BY DEF TimersTyped

LEMMA RecBeginIInv ==
    ASSUME IInv, NEW s \in Slots, RecBegin(s) PROVE IInv'
<1> USE DEF IInv, Typed, RecBegin
<1>1. rec' \in [Slots -> RecType]
    BY DEF RecType
<1>2. TimersTyped'
    BY SMTT(30), TimesFacts DEF TimersTyped, ClearTimer
<1> QED
    BY <1>1, <1>2, WorkerAlone DEF storeVars, countVars, RecursSoon

LEMMA RecListIInv ==
    ASSUME IInv, NEW s \in Slots, RecList(s) PROVE IInv'
<1> USE DEF IInv, Typed, RecList
<1>1. rec' \in [Slots -> RecType]
    BY EarliestTyped DEF RecType
<1> QED
    BY <1>1, WorkerAlone DEF storeVars, countVars, RecursSoon, TimersTyped

LEMMA RecFinishIInv ==
    ASSUME IInv, NEW s \in Slots, RecFinish(s) PROVE IInv'
<1> USE DEF IInv, Typed, RecFinish
<1>1. rec' \in [Slots -> RecType]
    BY DEF RecType, NoRec
<1>2. rec[s].next \in Times \cup {Never}
    BY DEF RecType
<1>3. windows' \in Times \cup {Never}
    BY <1>2
<1>4. TimersTyped'
    <2>1. CASE rec[s].next = Never
        BY <2>1 DEF TimersTyped
    <2>2. CASE rec[s].next \in Times
        <3>1. timers' = [timers EXCEPT ![rec[s].next] = @ + 1] /\ handle' = rec[s].next
            BY <2>2, TimesFacts
        <3> QED
            BY <2>2, <3>1, ArmTyped
    <2> QED
        BY <1>2, <2>1, <2>2
<1> QED
    BY <1>1, <1>3, <1>4, WorkerAlone DEF storeVars, countVars, RecursSoon

---------------------------------------------------------------------------
(* Handlers, tools and reports                                             *)

LEMMA UserOpIInv ==
    ASSUME IInv, NEW t \in Tasks, NEW e \in TaskType, UserOp(t, e),
           e.enabled /\ t \notin Once => e.next <= now + 1,
           run' \in [RunIds -> RunType],
           \A r \in RunIds : run'[r] = run[r] \/ run'[r].status = "none"
    PROVE  IInv'
<1> USE DEF IInv, Typed
<1>1. /\ task' \in [Tasks -> TaskType]
      /\ ops' \in 0..MaxOps /\ asks' = asks /\ restarts' = restarts
    BY BoundsAssumption DEF UserOp, CountOp
<1>2. rec' \in [Slots -> RecType]
    BY StartReconcileTyped DEF UserOp
<1>3. RecursSoon'
    BY DEF UserOp, RecursSoon
<1>4. Working'
    BY WorkerAlone DEF UserOp, Working
<1> QED
    BY <1>1, <1>2, <1>3, <1>4 DEF UserOp, TimersTyped

LEMMA CreateIInv ==
    ASSUME IInv, NEW t \in Tasks, NEW at \in Times, Create(t, at) PROVE IInv'
<1> DEFINE e == [exists |-> TRUE, enabled |-> TRUE, runAt |-> at,
                 next |-> NextRunAt(t, at, now)]
<1>1. e \in TaskType
    BY NextRunAtTyped DEF TaskType, IInv, Typed
<1>2. t \notin Once => e.next <= now + 1
    BY TimesFacts DEF NextRunAt, IInv, Typed
<1> QED
    BY <1>1, <1>2, UserOpIInv DEF Create, IInv, Typed

LEMMA UpdateIInv ==
    ASSUME IInv, NEW t \in Tasks, NEW at \in Times, Update(t, at) PROVE IInv'
<1> DEFINE e == [task[t] EXCEPT !.runAt = at, !.next = NextRunAt(t, at, now)]
<1>1. e \in TaskType
    BY NextRunAtTyped, TaskUpdates DEF IInv, Typed
<1>2. t \notin Once => e.next <= now + 1
    BY TimesFacts DEF NextRunAt, IInv, Typed, TaskType
<1> QED
    BY <1>1, <1>2, UserOpIInv DEF Update, IInv, Typed

LEMMA PauseIInv ==
    ASSUME IInv, NEW t \in Tasks, Pause(t) PROVE IInv'
<1> DEFINE e == [task[t] EXCEPT !.enabled = FALSE, !.next = Never]
<1>1. e \in TaskType /\ ~e.enabled
    BY DEF IInv, Typed, TaskType
<1> QED
    BY <1>1, UserOpIInv DEF Pause, IInv, Typed

LEMMA ResumeIInv ==
    ASSUME IInv, NEW t \in Tasks, Resume(t) PROVE IInv'
<1> DEFINE e == [task[t] EXCEPT !.enabled = TRUE, !.next = NextRunAt(t, task[t].runAt, now)]
<1>1. task[t].runAt \in Times \cup {Never}
    BY DEF IInv, Typed, TaskType
<1>2. e \in TaskType
    BY <1>1, NextRunAtTyped, TaskUpdates DEF IInv, Typed
<1>3. t \notin Once => e.next <= now + 1
    BY TimesFacts DEF NextRunAt, IInv, Typed, TaskType
<1> QED
    BY <1>2, <1>3, UserOpIInv DEF Resume, IInv, Typed

LEMMA DeleteIInv ==
    ASSUME IInv, NEW t \in Tasks, Delete(t) PROVE IInv'
<1>1. /\ run' \in [RunIds -> RunType]
      /\ \A r \in RunIds : run'[r] = run[r] \/ run'[r].status = "none"
    BY NoRunTyped DEF Delete, IInv, Typed, NoRun
<1> QED
    BY <1>1, DeletedTyped, UserOpIInv DEF Delete

LEMMA RunNowIInv ==
    ASSUME IInv, NEW t \in Tasks, RunNow(t) PROVE IInv'
<1> USE DEF IInv, Typed
<1>1. [kind |-> "manual", task |-> t] \in JobType
    BY DEF JobType
<1>2. jobs' \in Seq(JobType) /\ ops' \in 0..MaxOps /\ asks' = asks /\ restarts' = restarts
    BY <1>1, BoundsAssumption DEF RunNow, CountOp
<1> QED
    BY <1>2, WorkerAlone DEF RunNow, storeVars, recVars, RecursSoon, TimersTyped

\* A report changes one run, which has a session.
LEMMA ReportWrittenIInv ==
    ASSUME IInv, Reporting, NEW x \in Reporters, ReportWritten(x) PROVE IInv'
<1> USE DEF IInv, Typed
<1> DEFINE q == rep[x].id
           st == rep[x].status
<1>1. q \in RunIds /\ run[q].session /\ run[q].status # "none" /\ st \in Active \cup Ended
    BY DEF ReportWritten, Reporting, Found, Active
<1>2. run' = [run EXCEPT ![q].status = st] /\ UNCHANGED worker
    BY DEF ReportWritten
<1> HIDE DEF q, st
<1>3. run' \in [RunIds -> RunType]
    BY <1>1, <1>2, RunUpdates
<1>4. rec' \in [Slots -> RecType]
    BY StartReconcileTyped DEF ReportWritten
<1>5. HasRun => worker.id # q /\ worker.id \in RunIds
    BY <1>1 DEF Working, Mine
<1>6. Working'
    BY <1>2, <1>5, WorkerAlone
<1> QED
    BY <1>3, <1>4, <1>6 DEF ReportWritten, countVars, RecursSoon, TimersTyped

LEMMA NewestFound ==
    ASSUME NEW found \in SUBSET RunIds, found # {}
    PROVE  Max(found) \in found
<1>1. MaxRuns \in Nat /\ found \in SUBSET (0..MaxRuns)
    BY BoundsAssumption DEF RunIds
<1> QED
    BY <1>1, MaxIsGreatest

\* To find the run changes nothing that the worker or a timer sees.
LEMMA ReportsIInv ==
    ASSUME IInv, NEW x, NEW q, NEW st, Reports(x, q, st),
           UNCHANGED <<ops, restarts>>, asks' \in 0..MaxAsks
    PROVE  IInv'
BY WorkerAlone DEF IInv, Typed, Reports, storeVars, recVars, RecursSoon, TimersTyped

LEMMA SessionReportIInv ==
    ASSUME IInv, NEW x, NEW r, NEW st, SessionReport(x, r, st) PROVE IInv'
<1>1. asks' \in 0..MaxAsks
    BY BoundsAssumption DEF SessionReport, IInv, Typed
<1> QED
    BY <1>1, ReportsIInv DEF SessionReport

LEMMA MonitorReportIInv ==
    ASSUME IInv, NEW x, NEW r, NEW st, MonitorReport(x, r, st) PROVE IInv'
BY ReportsIInv DEF MonitorReport, countVars, IInv, Typed

---------------------------------------------------------------------------
(* Timers, Windows, the clock and a restart                                *)

LEMMA TimerFiresIInv ==
    ASSUME IInv, NEW x \in Times, TimerFires(x) PROVE IInv'
<1> USE DEF IInv, Typed
<1>1. [kind |-> "due", now |-> now] \in JobType
    BY TimesFacts DEF JobType
<1>2. jobs' \in Seq(JobType)
    BY <1>1 DEF TimerFires
<1>3. TimersTyped'
    BY SMTT(30), TimesFacts DEF TimerFires, TimersTyped
<1> QED
    BY <1>2, <1>3, WorkerAlone DEF TimerFires, storeVars, countVars, RecursSoon

LEMMA WindowsFiresIInv ==
    ASSUME IInv, WindowsFires PROVE IInv'
<1> USE DEF IInv, Typed
<1>1. [kind |-> "due", now |-> now] \in JobType
    BY TimesFacts DEF JobType
<1>2. jobs' \in Seq(JobType)
    BY <1>1 DEF WindowsFires
<1> QED
    BY <1>2, WorkerAlone DEF WindowsFires, storeVars, countVars, RecursSoon, TimersTyped

LEMMA TickIInv ==
    ASSUME IInv, Tick PROVE IInv'
<1> USE DEF IInv, Typed
<1>1. now' \in 0..Horizon /\ now' = now + 1
    BY BoundsAssumption DEF Tick
<1>2. RecursSoon'
    <2> SUFFICES ASSUME NEW t \in Tasks, task[t].enabled, t \notin Once
                 PROVE  task[t].next <= now' + 1
        BY DEF Tick, storeVars, RecursSoon
    <2>1. task[t].next \in Nat /\ task[t].next <= now + 1 /\ now \in Nat
        BY TimesFacts DEF RecursSoon, TaskType
    <2> QED
        BY <1>1, <2>1
<1> QED
    BY <1>1, <1>2, WorkerAlone DEF Tick, storeVars, recVars, countVars, TimersTyped

LEMMA RestartIInv ==
    ASSUME IInv, Restart PROVE IInv'
<1> USE DEF IInv, Typed
<1>1. rec' \in [Slots -> RecType]
    BY DEF Restart, RecType, NoRec
<1>2. jobs' \in Seq(JobType) /\ worker' \in WorkerType /\ TimersTyped'
    BY RestingTyped DEF Restart, TimersTyped
<1>3. restarts' \in 0..MaxRestarts
    BY BoundsAssumption DEF Restart
<1>4. Working'
    BY DEF Restart, Working, HasRun, Resting
<1> QED
    BY <1>1, <1>2, <1>3, <1>4 DEF Restart, storeVars, RecursSoon

---------------------------------------------------------------------------
(* The jobs of runTail                                                     *)

LEMMA CurrentTyped ==
    ASSUME worker \in WorkerType, worker.todo # <<>>
    PROVE  Current \in Entry /\ Current.task \in Tasks
<1>1. worker.todo \in Seq(Entry)
    BY DEF WorkerType
<1>2. Current \in Entry
    BY <1>1, HeadTailProperties DEF Current
<1> QED
    BY <1>2 DEF Entry

\* An action that only moves the worker, outside a run.
LEMMA WorkerMoves ==
    ASSUME IInv, worker' \in WorkerType, jobs' \in Seq(JobType),
           worker'.phase \in {"append", "failed", "changed"} => worker'.todo # <<>>,
           worker'.phase \notin {"advance", "run", "wait"},
           UNCHANGED <<now, storeVars, recVars, countVars>>
    PROVE  IInv'
BY DEF IInv, Typed, Working, HasRun, RecursSoon, TimersTyped, storeVars, recVars, countVars

LEMMA TakeIInv ==
    ASSUME IInv, Take PROVE IInv'
<1> USE DEF IInv, Typed
<1>1. jobs # <<>> /\ jobs' = Tail(jobs) /\ Head(jobs) \in JobType /\ jobs' \in Seq(JobType)
    BY HeadTailProperties DEF Take
<1>2. worker' \in WorkerType /\ worker'.phase \in {"idle", "pick"}
    <2>1. \A q \in Seq(Entry) : \A k \in {"due", "manual"} :
              /\ [Resting EXCEPT !.phase = "pick", !.todo = q] \in WorkerType
              /\ [Resting EXCEPT !.phase = "pick", !.todo = q].phase = "pick"
              /\ [Resting EXCEPT !.phase = "pick", !.kind = k, !.todo = q] \in WorkerType
              /\ [Resting EXCEPT !.phase = "pick", !.kind = k, !.todo = q].phase = "pick"
        BY RestingTyped DEF WorkerType, WorkerPhases
    <2>2. CASE Head(jobs).kind = "due"
        <3>1. PICK q \in DueAt(Head(jobs).now) :
                  worker' = [Resting EXCEPT !.phase = "pick", !.todo = q]
            BY <2>2 DEF Take
        <3> QED
            BY <2>1, <3>1, DueTyped DEF Resting
    <2>3. CASE Head(jobs).kind # "due"
        <3>1. Head(jobs).task \in Tasks
            BY <1>1, <2>3 DEF JobType
        <3> DEFINE e == [task |-> Head(jobs).task, at |-> task[Head(jobs).task].next]
        <3>2. e \in Entry
            BY <3>1 DEF Entry, TaskType
        <3>3. <<e>> \in Seq(Entry)
            BY <3>2
        <3>4. \/ worker' = Resting
              \/ worker' = [Resting EXCEPT !.phase = "pick", !.kind = "manual", !.todo = <<e>>]
            BY <2>3 DEF Take
        <3>5. CASE worker' = Resting
            BY SMTT(30), <3>5, RestingTyped DEF Resting
        <3>6. CASE worker' = [Resting EXCEPT !.phase = "pick", !.kind = "manual",
                                             !.todo = <<e>>]
            <4> HIDE DEF e
            <4> QED
                BY <2>1, <3>3, <3>6
        <3> QED
            BY <3>4, <3>5, <3>6
    <2> QED
        BY <2>2, <2>3
<1> QED
    BY <1>1, <1>2, WorkerMoves DEF Take

LEMMA PickIInv ==
    ASSUME IInv, Pick PROVE IInv'
<1> USE DEF IInv, Typed
<1>1. worker.todo \in Seq(Entry) /\ worker.todo # <<>>
    BY DEF Pick, WorkerType
<1>2. Tail(worker.todo) \in Seq(Entry)
    BY <1>1, HeadTailProperties
<1>3. CASE worker' = [worker EXCEPT !.todo = Tail(@)]
    <2>1. worker' \in WorkerType /\ worker'.phase = "pick"
        BY <1>2, <1>3 DEF WorkerType, Pick
    <2> QED
        BY <2>1, WorkerMoves DEF Pick
<1>4. CASE Go("append")
    BY <1>1, <1>4, GoFacts, WorkerMoves DEF Pick, WorkerPhases
<1> QED
    BY <1>3, <1>4 DEF Pick

LEMMA AppendRunIInv ==
    ASSUME IInv, AppendRun PROVE IInv'
<1> USE DEF IInv, Typed
<1>1. PICK r \in FreeRuns :
        /\ run' = [run EXCEPT ![r] = [task |-> Current.task, status |-> "running",
                                      session |-> FALSE]]
        /\ worker' = [worker EXCEPT !.id = r,
                         !.phase = IF worker.kind = "manual" THEN "run" ELSE "advance"]
    BY DEF AppendRun
<1>2. r \in RunIds /\ r \in 0..MaxRuns
    BY BoundsAssumption DEF FreeRuns, RunIds
<1>3. worker.todo \in Seq(Entry) /\ worker.todo # <<>>
    BY DEF AppendRun, Working, WorkerType
<1>4. Current \in Entry
    BY <1>3, CurrentTyped
<1>5. run' \in [RunIds -> RunType]
    BY <1>1, <1>4 DEF RunType, Entry, Active
<1>6. /\ worker' \in WorkerType /\ worker'.todo = worker.todo /\ worker'.id = r
      /\ worker'.phase \in {"run", "advance"}
    BY <1>1, <1>2 DEF WorkerType, WorkerPhases
<1>7. Working'
    BY <1>1, <1>2, <1>3, <1>6 DEF Working, Mine, Current
<1> QED
    BY <1>5, <1>6, <1>7 DEF AppendRun, recVars, countVars, RecursSoon, TimersTyped

LEMMA AbortIInv ==
    ASSUME IInv, Abort, UNCHANGED <<now, storeVars, jobs, recVars, countVars>> PROVE IInv'
BY RestingTyped, WorkerMoves DEF Abort, Resting, IInv, Typed

\* advance() and the loss of a target replan one task.
LEMMA ReplanIInv ==
    ASSUME IInv, NEW t \in Tasks, NEW e \in TaskType,
           e.enabled /\ t \notin Once => e.next <= now + 1,
           task' = [task EXCEPT ![t] = e],
           worker' \in WorkerType, worker'.todo = worker.todo, worker'.id = worker.id,
           worker.todo # <<>>,
           worker'.phase \in {"advance", "run", "wait"} => HasRun,
           UNCHANGED <<now, run, jobs, recVars, countVars>>
    PROVE  IInv'
<1> USE DEF IInv, Typed
<1>1. task' \in [Tasks -> TaskType] /\ RecursSoon'
    BY DEF RecursSoon
<1>2. Working'
    BY DEF Working, HasRun, Mine, Current
<1> QED
    BY <1>1, <1>2 DEF recVars, countVars, TimersTyped

LEMMA AdvanceIInv ==
    ASSUME IInv, Advance PROVE IInv'
<1> USE DEF IInv, Typed
<1> DEFINE t == Current.task
           e == [task[t] EXCEPT !.next = IF t \in Once THEN Never ELSE NextRunAt(t, Never, now),
                                !.enabled = IF t \in Once THEN FALSE ELSE @]
<1>1. worker.todo \in Seq(Entry) /\ worker.todo # <<>> /\ HasRun
    BY DEF Advance, Working, WorkerType, HasRun
<1>2. t \in Tasks
    BY <1>1, CurrentTyped
<1>3. CASE task[t].exists
    <2>1. task[t] \in TaskType /\ NextRunAt(t, Never, now) \in Times \cup {Never}
        BY <1>2, NextRunAtTyped
    <2>2. e \in TaskType
        BY <2>1 DEF TaskType
    <2>3. e.enabled /\ t \notin Once => e.next <= now + 1
        BY <2>1, TimesFacts DEF NextRunAt, TaskType
    <2>4. task' = [task EXCEPT ![t] = e]
        BY <1>3, <2>1 DEF Advance, TaskType
    <2>5. Go("run")
        BY <1>3 DEF Advance
    <2>6. worker' \in WorkerType /\ worker'.todo = worker.todo /\ worker'.id = worker.id
        BY <2>5, GoFacts DEF WorkerPhases
    <2> HIDE DEF e
    <2> QED
        BY <1>1, <1>2, <2>2, <2>3, <2>4, <2>6, ReplanIInv DEF Advance
<1>4. CASE ~task[t].exists
    BY <1>4, AbortIInv DEF Advance, storeVars
<1> QED
    BY <1>3, <1>4

LEMMA DisableTargetIInv ==
    ASSUME IInv, DisableTarget PROVE IInv'
<1> USE DEF IInv, Typed
<1> DEFINE t == Current.task
           e == [task[t] EXCEPT !.enabled = FALSE, !.next = Never]
<1>1. worker.todo \in Seq(Entry) /\ worker.todo # <<>>
    BY DEF DisableTarget, Working, WorkerType
<1>2. t \in Tasks
    BY <1>1, CurrentTyped
<1>3. CASE task[t].exists
    <2>1. e \in TaskType /\ ~e.enabled
        <3>1. task[t] \in TaskType
            BY <1>2
        <3> QED
            BY <3>1 DEF TaskType
    <2>2. task' = [task EXCEPT ![t] = e]
        BY <1>3 DEF DisableTarget
    <2>3. Go("changed")
        BY <1>3 DEF DisableTarget
    <2>4. /\ worker' \in WorkerType /\ worker'.todo = worker.todo /\ worker'.id = worker.id
          /\ worker'.phase = "changed"
        BY <2>3, GoFacts DEF WorkerPhases
    <2> HIDE DEF e
    <2> QED
        BY <1>1, <1>2, <2>1, <2>2, <2>4, ReplanIInv DEF DisableTarget
<1>4. CASE ~task[t].exists
    BY <1>4, AbortIInv DEF DisableTarget, storeVars
<1> QED
    BY <1>3, <1>4

\* The run in hand is replaced; the worker goes on with it or is done with it.
LEMMA InHandIInv ==
    ASSUME IInv, HasRun, NEW r \in RunType, run' = [run EXCEPT ![worker.id] = r],
           worker' \in WorkerType, worker'.todo = worker.todo, worker'.id = worker.id,
           worker'.phase \in {"failed", "changed"} \/ Mine(r),
           UNCHANGED <<now, task, jobs, recVars, countVars>>
    PROVE  IInv'
<1> USE DEF IInv, Typed
<1>1. worker.id \in RunIds /\ worker.todo # <<>>
    BY DEF Working
<1>2. Working'
    BY <1>1 DEF Working, HasRun, Mine, Current
<1> QED
    BY <1>1, <1>2 DEF recVars, countVars, RecursSoon, TimersTyped

\* updateRun of the run in hand, or the error that ends the job.
LEMMA RecordIInv ==
    ASSUME IInv, HasRun, NEW st \in Active \cup Ended, NEW b \in BOOLEAN, NEW w \in WorkerType,
           Record(st, b, worker' = w),
           w.todo = worker.todo, w.id = worker.id,
           w.phase \in {"failed", "changed"} \/ (st \in {"queued", "running"} /\ ~b),
           UNCHANGED <<now, task, jobs, recVars, countVars>>
    PROVE  IInv'
<1> USE DEF IInv, Typed
<1>1. worker.id \in RunIds /\ run[worker.id] \in RunType
    BY DEF Working
<1>2. CASE Abort /\ UNCHANGED run
    BY <1>2, AbortIInv DEF storeVars
<1>3. CASE /\ run[worker.id].status # "none"
           /\ run' = [run EXCEPT ![worker.id].status = st, ![worker.id].session = @ \/ b]
           /\ worker' = w
    <2> DEFINE r == [run[worker.id] EXCEPT !.status = st,
                                           !.session = run[worker.id].session \/ b]
    <2>1. run[worker.id].session \in BOOLEAN /\ (run[worker.id].session \/ b) \in BOOLEAN
        BY <1>1 DEF RunType
    <2>2. r \in RunType /\ r.task = run[worker.id].task /\ r.status = st
          /\ r.session = (run[worker.id].session \/ b)
        BY <1>1, <2>1 DEF RunType
    <2>3. run' = [run EXCEPT ![worker.id] = r]
        BY <1>1, <1>3, <2>1 DEF RunType
    <2>4. st \in {"queued", "running"} /\ ~b => Mine(r)
        BY <1>3, <2>2 DEF Working, Mine
    <2> HIDE DEF r
    <2> QED
        BY <1>3, <2>2, <2>3, <2>4, InHandIInv
<1> QED
    BY <1>2, <1>3 DEF Record

\* The worker after Go(ph).
Gone(ph) == [worker EXCEPT !.phase = ph]

LEMMA GoneTyped ==
    ASSUME worker \in WorkerType, NEW ph \in WorkerPhases
    PROVE  /\ Gone(ph) \in WorkerType /\ Gone(ph).phase = ph
           /\ Gone(ph).todo = worker.todo /\ Gone(ph).id = worker.id
BY DEF Gone, WorkerType

LEMMA RemindIInv ==
    ASSUME IInv, Remind PROVE IInv'
<1>1. Record("succeeded", FALSE, worker' = Gone("changed")) /\ HasRun
    BY DEF Remind, Go, Gone, HasRun, Record
<1>2. "changed" \in WorkerPhases /\ "succeeded" \in Ended
    BY DEF WorkerPhases, Ended
<1> QED
    BY <1>1, <1>2, GoneTyped, RecordIInv DEF Remind, IInv, Typed

LEMMA RetryStartIInv ==
    ASSUME IInv, RetryStart PROVE IInv'
<1>1. Record("running", FALSE, worker' = Gone("run")) /\ HasRun
    BY DEF RetryStart, Go, Gone, HasRun, Record
<1>2. "run" \in WorkerPhases /\ "running" \in Active
    BY DEF WorkerPhases, Active
<1> QED
    BY <1>1, <1>2, GoneTyped, RecordIInv DEF RetryStart, IInv, Typed

LEMMA StartupFailsIInv ==
    ASSUME IInv, StartupFails PROVE IInv'
<1> DEFINE w == [worker EXCEPT !.phase = "wait", !.retried = TRUE]
<1>1. w \in WorkerType /\ w.todo = worker.todo /\ w.id = worker.id
    BY DEF IInv, Typed, WorkerType, WorkerPhases
<1>2. Record("queued", FALSE, worker' = w) /\ HasRun /\ "queued" \in Active
    BY DEF StartupFails, HasRun, Active
<1> HIDE DEF w
<1> QED
    BY <1>1, <1>2, RecordIInv DEF StartupFails

LEMMA FinishIInv ==
    ASSUME IInv, NEW st \in Active \cup Ended, Finish(st) PROVE IInv'
<1>1. HasRun /\ (st # "failed") \in BOOLEAN
    BY DEF Finish, HasRun
<1>2. \E ph \in {"failed", "changed"} : Record(st, st # "failed", worker' = Gone(ph))
    BY DEF Finish, Go, Gone, Record
<1>3. PICK ph \in {"failed", "changed"} : Record(st, st # "failed", worker' = Gone(ph))
    BY <1>2
<1>4. ph \in WorkerPhases
    BY DEF WorkerPhases
<1> QED
    BY ZenonT(60), <1>1, <1>3, <1>4, GoneTyped, RecordIInv DEF Finish, IInv, Typed

LEMMA QueueStateIInv ==
    ASSUME IInv, QueueState PROVE IInv'
<1> USE DEF IInv, Typed
<1> DEFINE st == IF worker.sent = "no" THEN "queued" ELSE "running"
           r == [run[worker.id] EXCEPT !.status = st]
<1>1. HasRun /\ worker.id \in RunIds /\ run[worker.id] \in RunType
    BY DEF QueueState, HasRun, Working
<1>2. /\ worker' \in WorkerType /\ worker'.todo = worker.todo /\ worker'.id = worker.id
      /\ worker'.phase = worker.phase
    BY DEF QueueState, WorkerType
<1>3. CASE run[worker.id].status = "none"
    BY <1>1, <1>2, <1>3
    DEF QueueState, Working, HasRun, Mine, Current, recVars, countVars, RecursSoon, TimersTyped
<1>4. CASE run[worker.id].status # "none"
    <2>1. r \in RunType /\ r.task = run[worker.id].task /\ r.status \in {"queued", "running"}
          /\ r.session = run[worker.id].session
        BY <1>1 DEF RunType, Active
    <2>2. Mine(r)
        BY <1>1, <1>4, <2>1 DEF Working, Mine
    <2>3. run' = [run EXCEPT ![worker.id] = r]
        BY <1>1, <1>4 DEF QueueState
    <2> HIDE DEF r
    <2> QED
        BY <1>1, <1>2, <2>1, <2>2, <2>3, InHandIInv DEF QueueState
<1> QED
    BY <1>3, <1>4

LEMMA ChangedIInv ==
    ASSUME IInv, Changed PROVE IInv'
<1> USE DEF IInv, Typed
<1>1. PICK s \in Slots : StartReconcile(s) /\ worker' = [worker EXCEPT !.phase = "settle",
                                                                       !.slot = s]
    BY DEF Changed
<1>2. worker' \in WorkerType /\ worker'.phase = "settle"
    BY <1>1 DEF WorkerType, WorkerPhases
<1>3. rec' \in [Slots -> RecType]
    BY <1>1, StartReconcileTyped
<1>4. Working'
    BY <1>2 DEF Working, HasRun
<1> QED
    BY <1>2, <1>3, <1>4 DEF Changed, storeVars, countVars, RecursSoon, TimersTyped

LEMMA SettleIInv ==
    ASSUME IInv, Settle PROVE IInv'
<1> USE DEF IInv, Typed
<1>1. CASE worker.todo = <<>>
    BY <1>1, RestingTyped, WorkerMoves DEF Settle, Resting
<1>2. CASE worker.todo # <<>>
    <2>1. Tail(worker.todo) \in Seq(Entry) /\ 0 \in 0..MaxRuns
        BY <1>2, HeadTailProperties, BoundsAssumption DEF WorkerType
    <2>2. worker' \in WorkerType /\ worker'.phase = "pick"
        BY <1>2, <2>1 DEF Settle, WorkerType, WorkerPhases
    <2> QED
        BY <2>2, WorkerMoves DEF Settle
<1> QED
    BY <1>1, <1>2

LEMMA EndJobIInv ==
    ASSUME IInv, EndJob PROVE IInv'
BY RestingTyped, WorkerMoves DEF EndJob, Resting, IInv, Typed

---------------------------------------------------------------------------
LEMMA InitIInv == Init => IInv
<1> SUFFICES ASSUME Init PROVE IInv
    OBVIOUS
<1> USE DEF Init
<1>1. task \in [Tasks -> TaskType] /\ run \in [RunIds -> RunType]
    BY NoRunTyped DEF NoTask, TaskType
<1>2. worker \in WorkerType /\ jobs \in Seq(JobType)
    BY RestingTyped
<1>3. rec \in [Slots -> RecType] /\ TimersTyped
    BY DEF NoRec, RecType, TimersTyped
<1>4. Working /\ RecursSoon
    BY DEF Working, HasRun, Resting, RecursSoon, NoTask
<1> QED
    BY <1>1, <1>2, <1>3, <1>4, BoundsAssumption DEF IInv, Typed

LEMMA StutterIInv == IInv /\ UNCHANGED vars => IInv'
BY DEF vars, storeVars, recVars, countVars, IInv, Typed, TimersTyped, Working, HasRun, Mine,
       Current, RecursSoon

LEMMA NextIInv == IInv /\ Reporting /\ [Next]_vars => IInv'
<1> SUFFICES ASSUME IInv, Reporting, [Next]_vars PROVE IInv'
    OBVIOUS
<1>1. CASE UNCHANGED vars
    BY <1>1, StutterIInv
<1>2. CASE Tick \/ Restart \/ WindowsFires
    BY <1>2, TickIInv, RestartIInv, WindowsFiresIInv
<1>3. CASE UserStep
    BY <1>3, CreateIInv, UpdateIInv, PauseIInv, ResumeIInv, DeleteIInv, RunNowIInv
    DEF UserStep
<1>4. CASE WorkerStep
    BY <1>4, TakeIInv, PickIInv, AppendRunIInv, AdvanceIInv, RemindIInv, RetryStartIInv,
       DisableTargetIInv, ChangedIInv, SettleIInv, EndJobIInv
    DEF WorkerStep
<1>5. CASE BackendStep
    BY <1>5, StartupFailsIInv, FinishIInv, QueueStateIInv DEF BackendStep, BackendEnds, Active
<1>6. CASE \E s \in Slots : RecStep(s)
    BY <1>6, RecBeginIInv, RecListIInv, RecFinishIInv DEF RecStep
<1>7. CASE \E x \in Times : TimerFires(x)
    BY <1>7, TimerFiresIInv
<1>8. CASE \E x \in Reporters : ReportStep(x)
    BY <1>8, ReportWrittenIInv, SessionReportIInv, MonitorReportIInv DEF ReportStep
<1> QED
    BY <1>1, <1>2, <1>3, <1>4, <1>5, <1>6, <1>7, <1>8 DEF Next, Act

---------------------------------------------------------------------------
(* What a report in progress has found                                     *)

\* The runs that have a session keep it.
RunsKept ==
    \A q \in RunIds : run[q].session /\ run[q].status # "none" =>
        run'[q].session /\ run'[q].status # "none"

LEMMA ReportingKept ==
    ASSUME Reporting, UNCHANGED rep, RunsKept PROVE Reporting'
BY DEF Reporting, Found, RunsKept

LEMMA SameRunsKept ==
    ASSUME UNCHANGED run PROVE RunsKept
BY DEF RunsKept

LEMMA RecordKept ==
    ASSUME IInv, HasRun, NEW st \in Active \cup Ended, NEW b \in BOOLEAN, NEW w,
           Record(st, b, worker' = w)
    PROVE  RunsKept
<1> USE DEF IInv, Typed
<1>1. worker.id \in RunIds /\ run[worker.id] \in RunType
    BY DEF Working
<1>2. CASE UNCHANGED run
    BY <1>2, SameRunsKept
<1>3. CASE run' = [run EXCEPT ![worker.id].status = st, ![worker.id].session = @ \/ b]
    <2>1. run'[worker.id].status = st /\ st # "none"
        BY <1>1, <1>3 DEF RunType, Active, Ended
    <2>2. run'[worker.id].session = (run[worker.id].session \/ b)
        BY <1>1, <1>3 DEF RunType
    <2>3. \A q \in RunIds \ {worker.id} : run'[q] = run[q]
        BY <1>3
    <2> QED
        BY <1>1, <2>1, <2>2, <2>3, Zenon DEF RunsKept
<1> QED
    BY <1>2, <1>3 DEF Record

LEMMA WorkerKept ==
    ASSUME IInv, WorkerStep \/ BackendStep PROVE RunsKept
<1> USE DEF IInv, Typed
<1>1. CASE Take \/ Pick \/ Advance \/ DisableTarget \/ Changed \/ Settle \/ EndJob
    BY <1>1, SameRunsKept
    DEF Take, Pick, Advance, DisableTarget, Changed, Settle, EndJob, storeVars
<1>2. CASE AppendRun
    <2>1. PICK r \in FreeRuns : run' = [run EXCEPT ![r] =
              [task |-> Current.task, status |-> "running", session |-> FALSE]]
        BY <1>2 DEF AppendRun
    <2>2. r \in RunIds /\ run[r].status = "none"
        BY DEF FreeRuns
    <2>3. \A q \in RunIds \ {r} : run'[q] = run[q]
        BY <2>1
    <2> QED
        BY <2>2, <2>3 DEF RunsKept
<1>3. CASE Remind \/ RetryStart
    <2>1. \E st \in Active \cup Ended, ph \in {"run", "changed"} :
              Record(st, FALSE, worker' = Gone(ph))
        BY <1>3 DEF Remind, RetryStart, Go, Gone, Record, Active, Ended
    <2>2. HasRun
        BY <1>3 DEF Remind, RetryStart, HasRun
    <2> QED
        BY <2>1, <2>2, RecordKept
<1>4. CASE StartupFails
    <2> DEFINE w == [worker EXCEPT !.phase = "wait", !.retried = TRUE]
    <2>1. HasRun /\ Record("queued", FALSE, worker' = w) /\ "queued" \in Active
        BY <1>4 DEF StartupFails, HasRun, Active
    <2> HIDE DEF w
    <2> QED
        BY <2>1, RecordKept
<1>5. ASSUME NEW st \in Ended \cup {"awaiting_approval"}, Finish(st) PROVE RunsKept
    <2>1. \E ph \in {"failed", "changed"} : Record(st, st # "failed", worker' = Gone(ph))
        BY <1>5 DEF Finish, Go, Gone, Record
    <2>2. HasRun /\ st \in Active \cup Ended /\ (st # "failed") \in BOOLEAN
        BY <1>5 DEF Finish, HasRun, Active
    <2> QED
        BY <2>1, <2>2, RecordKept
<1>6. CASE QueueState
    <2>1. worker.id \in RunIds /\ run[worker.id] \in RunType
        BY <1>6 DEF QueueState, HasRun, Working
    <2> DEFINE st == IF worker.sent = "no" THEN "queued" ELSE "running"
    <2>2. UNCHANGED run \/ run' = [run EXCEPT ![worker.id].status = st]
        BY <1>6 DEF QueueState
    <2>3. st # "none"
        OBVIOUS
    <2> HIDE DEF st
    <2>4. CASE UNCHANGED run
        BY <2>4, SameRunsKept
    <2>5. CASE run' = [run EXCEPT ![worker.id].status = st]
        <3>1. run'[worker.id].status = st /\ run'[worker.id].session = run[worker.id].session
            BY <2>1, <2>5 DEF RunType
        <3>2. \A q \in RunIds \ {worker.id} : run'[q] = run[q]
            BY <2>5
        <3> QED
            BY <2>3, <3>1, <3>2 DEF RunsKept
    <2> QED
        BY <2>2, <2>4, <2>5
<1> QED
    BY <1>1, <1>2, <1>3, <1>4, <1>5, <1>6 DEF WorkerStep, BackendStep, BackendEnds

\* A report that begins has found such a run, the newest of its session.
LEMMA ReportsFound ==
    ASSUME Reporting, UNCHANGED run, NEW x \in Reporters, NEW r \in RunIds, NEW sts,
           "none" \notin sts, OfSession(r, sts) # {},
           NEW st \in Ended \cup {"awaiting_approval"}, Reports(x, Max(OfSession(r, sts)), st)
    PROVE  Reporting'
<1> DEFINE q == Max(OfSession(r, sts))
<1>1. OfSession(r, sts) \in SUBSET RunIds
    BY DEF OfSession
<1>2. q \in OfSession(r, sts)
    BY <1>1, NewestFound
<1>3. q \in RunIds /\ q \in 0..MaxRuns /\ run[q].session /\ run[q].status # "none"
    BY <1>2, BoundsAssumption DEF OfSession, RunIds
<1>4. rep' = [rep EXCEPT ![x] = [id |-> q, status |-> st]]
    BY DEF Reports
<1> HIDE DEF q
<1>5. [id |-> q, status |-> st] \in ReportType
    BY <1>3 DEF ReportType, Active
<1> QED
    BY <1>3, <1>4, <1>5 DEF Reporting, Found

LEMMA ReportStepReporting ==
    ASSUME IInv, Reporting, NEW x \in Reporters, ReportStep(x) PROVE Reporting'
<1>1. ASSUME NEW r \in RunIds, NEW st \in {"succeeded", "failed", "awaiting_approval"},
             SessionReport(x, r, st)
      PROVE  Reporting'
    <2>1. UNCHANGED run /\ OfSession(r, Reported) # {}
        BY <1>1 DEF SessionReport, Reports, storeVars
    <2>2. st \in Ended \cup {"awaiting_approval"} /\ "none" \notin Reported
        BY DEF Ended, Reported
    <2>3. Reports(x, Max(OfSession(r, Reported)), st)
        BY <1>1 DEF SessionReport
    <2> QED
        BY <2>1, <2>2, <2>3, ReportsFound
<1>2. ASSUME NEW r \in RunIds, NEW st \in {"changed", "unchanged"}, MonitorReport(x, r, st)
      PROVE  Reporting'
    <2> DEFINE open == {"running", "awaiting_approval"}
    <2>1. UNCHANGED run /\ OfSession(r, open) # {}
        BY <1>2 DEF MonitorReport, Reports, storeVars
    <2>2. st \in Ended \cup {"awaiting_approval"} /\ "none" \notin open
        BY DEF Ended
    <2>3. Reports(x, Max(OfSession(r, open)), st)
        BY <1>2 DEF MonitorReport
    <2> HIDE DEF open
    <2> QED
        BY <2>1, <2>2, <2>3, ReportsFound
<1>3. CASE ReportWritten(x)
    <2>1. rep' = [rep EXCEPT ![x] = NoReport] /\ NoReport \in ReportType
        BY <1>3, BoundsAssumption DEF ReportWritten, NoReport, ReportType
    <2>2. Found(rep[x])
        BY <1>3 DEF ReportWritten, Reporting
    <2>3. \A q \in RunIds : run[q].session /\ run[q].status # "none" =>
              run'[q].session /\ run'[q].status # "none"
        <3> DEFINE st == rep[x].status
                   n == rep[x].id
        <3>1. run' = [run EXCEPT ![n].status = st]
            BY <1>3 DEF ReportWritten
        <3>2. st # "none"
            BY <2>2 DEF Found, Ended
        <3> HIDE DEF st, n
        <3> QED
            BY <3>1, <3>2 DEF IInv, Typed, RunType
    <2>4. ASSUME NEW y \in Reporters, rep'[y] # NoReport PROVE Found(rep[y])' /\ y # x
        <3>1. y # x /\ rep'[y] = rep[y] /\ Found(rep[y])
            BY <2>1, <2>4 DEF Reporting
        <3> QED
            BY <2>3, <3>1 DEF Found
    <2> QED
        BY <2>1, <2>4 DEF Reporting
<1> QED
    BY <1>1, <1>2, <1>3 DEF ReportStep

\* delete() takes the runs of the task, and the reports about them with them.
LEMMA DeleteReporting ==
    ASSUME IInv, Reporting, NEW t \in Tasks, Delete(t) PROVE Reporting'
<1>1. \A x \in Reporters : rep'[x] = NoReport \/
          (rep'[x] = rep[x] /\ ~(rep[x].id # 0 /\ run[rep[x].id].task = t))
    BY DEF Delete
<1>2. rep' \in [Reporters -> ReportType]
    <2>1. NoReport \in ReportType
        BY BoundsAssumption DEF NoReport, ReportType
    <2> QED
        BY <2>1 DEF Delete, Reporting
<1>3. ASSUME NEW x \in Reporters, rep'[x] # NoReport PROVE Found(rep[x])'
    <2>1. rep'[x] = rep[x] /\ Found(rep[x]) /\ ~(rep[x].id # 0 /\ run[rep[x].id].task = t)
        BY <1>1, <1>3 DEF Reporting
    <2>2. rep[x].id # 0
        BY <2>1 DEF Found, RunIds
    <2>3. run'[rep[x].id] = run[rep[x].id]
        BY <2>1, <2>2 DEF Delete, Found
    <2> QED
        BY <2>1, <2>3 DEF Found
<1> QED
    BY <1>2, <1>3 DEF Reporting

LEMMA NextReporting == IInv /\ Reporting /\ [Next]_vars => Reporting'
<1> SUFFICES ASSUME IInv, Reporting, [Next]_vars PROVE Reporting'
    OBVIOUS
<1>1. CASE UNCHANGED <<run, rep>>
    BY <1>1, ReportingKept, SameRunsKept
<1>2. CASE Tick \/ WindowsFires \/ (\E s \in Slots : RecStep(s)) \/ (\E x \in Times : TimerFires(x))
    BY <1>1, <1>2 DEF Tick, WindowsFires, RecStep, RecBegin, RecList, RecFinish, TimerFires,
                      storeVars
<1>3. CASE Restart
    <2>1. NoReport \in ReportType
        BY BoundsAssumption DEF NoReport, ReportType
    <2>2. \A x \in Reporters : rep'[x] = NoReport
        BY <1>3 DEF Restart
    <2>3. rep' \in [Reporters -> ReportType]
        BY <1>3, <2>1 DEF Restart
    <2> QED
        BY <2>2, <2>3 DEF Reporting
<1>4. CASE UserStep
    <2>1. PICK t \in Tasks :
              \/ \E at \in Times : Create(t, at) \/ Update(t, at)
              \/ Pause(t) \/ Resume(t) \/ Delete(t) \/ RunNow(t)
        BY <1>4 DEF UserStep
    <2>2. CASE Delete(t)
        BY <2>2, DeleteReporting
    <2>3. CASE ~Delete(t)
        BY <1>1, <2>1, <2>3 DEF Create, Update, Pause, Resume, RunNow, storeVars
    <2> QED
        BY <2>2, <2>3
<1>5. CASE WorkerStep \/ BackendStep
    <2>1. UNCHANGED rep
        <3>1. CASE WorkerStep
            BY <3>1 DEF WorkerStep, Take, Pick, AppendRun, Advance, Remind, RetryStart,
                        DisableTarget, Changed, Settle, EndJob
        <3>2. CASE BackendStep
            BY <3>2 DEF BackendStep, BackendEnds, StartupFails, Finish, QueueState
        <3> QED
            BY <1>5, <3>1, <3>2
    <2> QED
        BY <1>5, <2>1, WorkerKept, ReportingKept
<1>6. CASE \E x \in Reporters : ReportStep(x)
    BY <1>6, ReportStepReporting
<1> QED
    BY <1>1, <1>2, <1>3, <1>4, <1>5, <1>6 DEF Next, Act, vars, storeVars

---------------------------------------------------------------------------
LEMMA NextRemembered == Remembered /\ [Next]_vars => Remembered'
<1> SUFFICES ASSUME Remembered, [Next]_vars PROVE Remembered'
    OBVIOUS
<1>1. CASE UNCHANGED vars
    BY <1>1 DEF vars, storeVars, Remembered
<1>2. CASE Remembers
    <2>1. "none" \notin Ended
        BY DEF Ended
    <2> QED
        BY <1>2, <2>1 DEF Remembers, Remembered
<1> QED
    BY <1>1, <1>2 DEF Next

LEMMA AlwaysBaseInv == Spec => []BaseInv
<1>1. Init => Reporting /\ Remembered
    <2>1. NoReport \in ReportType /\ NoRun.status = "none" /\ "none" \notin Ended
        BY BoundsAssumption DEF NoReport, ReportType, NoRun, Ended
    <2> QED
        BY <2>1 DEF Init, Reporting, Remembered
<1> QED
    BY <1>1, InitIInv, NextIInv, NextReporting, NextRemembered, PTL DEF Spec, BaseInv

\* The store, the queue, the worker and the timers keep their types: no count
\* of timers falls below zero, however calls of reconcile() overlap.
THEOREM TypeCorrect == Spec => []TypeOK
BY BaseMeansTypeOK, AlwaysBaseInv, PTL

---------------------------------------------------------------------------
(* One active run per task                                                 *)

\* Of the runs that have not ended, none is active when the worker is about to
\* append one.
NoneActive ==
    worker.phase = "append" =>
        \A r \in RunIds \ ended : run[r].task = Current.task => run[r].status \notin Active

OneActive ==
    \A r, q \in RunIds \ ended :
        run[r].status \in Active /\ run[q].status \in Active /\ run[r].task = run[q].task
            => r = q

\* A run that has ended may only come to await approval again.
EndedRest == \A r \in ended : run[r].status \notin {"queued", "running"}

ActiveInv == NoneActive /\ OneActive /\ EndedRest

\* No run becomes active that was not, unless it has ended, and the worker gets
\* no new permission to append one.
NoNewActive ==
    /\ \A r \in RunIds \ ended' : run'[r].status \in Active =>
           r \notin ended /\ run[r].status \in Active /\ run'[r].task = run[r].task
    /\ EndedRest'
    /\ worker'.phase = "append" => worker.phase = "append" /\ worker'.todo = worker.todo

LEMMA NoNewActiveKeeps ==
    ASSUME ActiveInv, NoNewActive PROVE ActiveInv'
BY DEF ActiveInv, NoNewActive, NoneActive, OneActive, Current

\* A step that leaves every run alone or removes it.
LEMMA RunsStay ==
    ASSUME Remembered, EndedRest, Remembers,
           \A r \in RunIds : run'[r] = run[r] \/ run'[r].status = "none",
           worker'.phase = "append" => worker.phase = "append" /\ worker'.todo = worker.todo
    PROVE  NoNewActive
<1>1. \A r \in RunIds : r \in ended' <=>
          run'[r].status # "none" /\ (r \in ended \/ run'[r].status \in Ended)
    BY DEF Remembers
<1>2. ended' \subseteq RunIds
    BY DEF Remembers
<1>3. ASSUME NEW r \in RunIds \ ended', run'[r].status \in Active
      PROVE  r \notin ended /\ run[r].status \in Active /\ run'[r].task = run[r].task
    <2>1. run'[r].status # "none" /\ run'[r] = run[r]
        BY <1>3 DEF Active
    <2> QED
        BY <1>1, <1>3, <2>1
<1>4. ASSUME NEW r \in ended' PROVE run'[r].status \notin {"queued", "running"}
    <2>1. r \in RunIds /\ run'[r].status # "none" /\ (r \in ended \/ run'[r].status \in Ended)
        BY <1>1, <1>2
    <2> QED
        BY <2>1 DEF EndedRest, Ended
<1> QED
    BY <1>3, <1>4 DEF NoNewActive, EndedRest

\* A step that gives one run, which was there, another status.
LEMMA OneRunChanges ==
    ASSUME Remembered, EndedRest, Remembers, NEW q \in RunIds,
           run[q].status \in Active \cup Ended,
           run'[q].task = run[q].task, run'[q].status # "none",
           \A r \in RunIds \ {q} : run'[r] = run[r],
           q \in ended => run'[q].status \notin {"queued", "running"},
           worker'.phase = "append" => worker.phase = "append" /\ worker'.todo = worker.todo
    PROVE  NoNewActive
<1>1. \A r \in RunIds : r \in ended' <=>
          run'[r].status # "none" /\ (r \in ended \/ run'[r].status \in Ended)
    BY DEF Remembers
<1>2. ended' \subseteq RunIds
    BY DEF Remembers
<1>3. ASSUME NEW r \in RunIds \ ended', run'[r].status \in Active
      PROVE  r \notin ended /\ run[r].status \in Active /\ run'[r].task = run[r].task
    <2>1. run'[r].status # "none"
        BY <1>3 DEF Active
    <2>2. r \notin ended
        BY <1>1, <1>3, <2>1
    <2>3. CASE r = q
        BY <2>2, <2>3 DEF Remembered
    <2>4. CASE r # q
        <3>1. run'[r] = run[r]
            BY <2>4
        <3> QED
            BY <1>3, <2>2, <3>1
    <2> QED
        BY <2>3, <2>4
<1>4. ASSUME NEW r \in ended' PROVE run'[r].status \notin {"queued", "running"}
    <2>1. r \in RunIds /\ run'[r].status # "none" /\ (r \in ended \/ run'[r].status \in Ended)
        BY <1>1, <1>2
    <2>2. CASE run'[r].status \in Ended
        BY <2>2 DEF Ended
    <2>3. CASE r \in ended /\ r # q
        <3>1. run'[r] = run[r]
            BY <2>1, <2>3
        <3> QED
            BY <2>3, <3>1 DEF EndedRest
    <2> QED
        BY <2>1, <2>2, <2>3
<1> QED
    BY <1>3, <1>4 DEF NoNewActive, EndedRest

\* The run in hand has not ended.
LEMMA InHandActive ==
    ASSUME IInv, EndedRest, HasRun, run[worker.id].status # "none"
    PROVE  /\ worker.id \in RunIds /\ worker.id \notin ended
           /\ run[worker.id].status \in Active \cup Ended
BY DEF IInv, Working, Mine, EndedRest, Active

LEMMA RecordActive ==
    ASSUME IInv, Remembered, EndedRest, Remembers, HasRun, NEW st \in Active \cup Ended,
           NEW b, NEW w, Record(st, b, worker' = w), w.phase # "append"
    PROVE  NoNewActive
<1> USE DEF IInv, Typed
<1>1. CASE Abort /\ UNCHANGED run
    <2>1. worker'.phase # "append"
        BY <1>1 DEF Abort, Resting
    <2> QED
        BY <1>1, <2>1, RunsStay
<1>2. CASE /\ run[worker.id].status # "none"
           /\ run' = [run EXCEPT ![worker.id].status = st, ![worker.id].session = @ \/ b]
           /\ worker' = w
    <2>1. /\ worker.id \in RunIds /\ worker.id \notin ended
          /\ run[worker.id].status \in Active \cup Ended
        BY <1>2, InHandActive
    <2>2. run'[worker.id].task = run[worker.id].task /\ run'[worker.id].status = st
        BY <1>2, <2>1 DEF RunType
    <2>3. \A r \in RunIds \ {worker.id} : run'[r] = run[r]
        BY <1>2, <2>1
    <2>4. st # "none"
        BY DEF Active, Ended
    <2> QED
        BY <1>2, <2>1, <2>2, <2>3, <2>4, OneRunChanges
<1> QED
    BY <1>1, <1>2 DEF Record

LEMMA ReportActive ==
    ASSUME IInv, Reporting, Remembered, EndedRest, Remembers,
           NEW x \in Reporters, ReportWritten(x)
    PROVE  NoNewActive
<1> DEFINE q == rep[x].id
           st == rep[x].status
<1>1. /\ q \in RunIds /\ run[q].status # "none"
      /\ st \in Ended \cup {"awaiting_approval"}
    BY DEF ReportWritten, Reporting, Found
<1>2. run' = [run EXCEPT ![q].status = st] /\ UNCHANGED worker
    BY DEF ReportWritten
<1> HIDE DEF q, st
<1>3. run[q] \in RunType
    BY <1>1 DEF IInv, Typed
<1>4. run[q].status \in Active \cup Ended
    BY <1>1, <1>3 DEF RunType
<1>5. run'[q].task = run[q].task /\ run'[q].status = st
    BY <1>1, <1>2 DEF RunType, IInv, Typed
<1>6. \A r \in RunIds \ {q} : run'[r] = run[r]
    BY <1>2 DEF IInv, Typed
<1>7. st \notin {"queued", "running", "none"}
    BY <1>1 DEF Ended
<1> QED
    BY <1>1, <1>2, <1>4, <1>5, <1>6, <1>7, OneRunChanges

LEMMA WorkerActive ==
    ASSUME IInv, Remembered, ActiveInv, Remembers, WorkerStep \/ BackendStep
    PROVE  ActiveInv'
<1> USE DEF IInv, Typed
<1>0. EndedRest
    BY DEF ActiveInv
<1>1. CASE Take \/ Advance \/ DisableTarget \/ Changed \/ Settle \/ EndJob
    <2>1. UNCHANGED run
        BY <1>1 DEF Take, Advance, DisableTarget, Changed, Settle, EndJob, storeVars
    <2>2. CASE \E ph \in {"run", "changed"} : Go(ph)
        <3>1. PICK ph \in {"run", "changed"} : Go(ph)
            BY <2>2
        <3>2. worker'.phase # "append"
            BY <3>1, GoFacts DEF WorkerPhases
        <3> QED
            BY <2>1, <3>2, <1>0, RunsStay, NoNewActiveKeeps
    <2>3. CASE worker' = Resting
        <3>1. worker'.phase # "append"
            BY <2>3 DEF Resting
        <3> QED
            BY <2>1, <3>1, <1>0, RunsStay, NoNewActiveKeeps
    <2>4. CASE Take \/ Changed \/ Settle
        <3>1. worker'.phase # "append"
            <4>1. CASE Take
                <5>1. \A k \in {"due", "manual"} : \A q : [Resting EXCEPT !.phase = "pick",
                         !.kind = k, !.todo = q].phase = "pick"
                    BY DEF Resting
                <5>2. \A q : [Resting EXCEPT !.phase = "pick", !.todo = q].phase = "pick"
                    BY DEF Resting
                <5>3. Resting.phase = "idle"
                    BY DEF Resting
                <5> QED
                    BY <4>1, <5>1, <5>2, <5>3 DEF Take
            <4>2. CASE Changed
                BY <4>2 DEF Changed, WorkerType
            <4>3. CASE Settle
                <5>1. Resting.phase = "idle"
                    BY DEF Resting
                <5> QED
                    BY <4>3, <5>1 DEF Settle, WorkerType
            <4> QED
                BY <2>4, <4>1, <4>2, <4>3
        <3> QED
            BY <2>1, <3>1, <1>0, RunsStay, NoNewActiveKeeps
    <2> QED
        BY <1>1, <2>2, <2>3, <2>4 DEF Advance, DisableTarget, EndJob, Abort
<1>2. CASE Pick
    <2>1. UNCHANGED run
        BY <1>2 DEF Pick, storeVars
    <2>2. CASE Go("append") /\ ~ActiveRun(Current.task)
        <3>1. worker'.todo = worker.todo
            BY <2>2, GoFacts DEF WorkerPhases
        <3>2. \A r \in RunIds : run[r].task = Current.task => run[r].status \notin Active
            BY <2>2 DEF ActiveRun, RunsOf, Active
        <3>3. \A r \in RunIds : r \in ended' => run[r].status \notin {"queued", "running"}
            BY <2>1, <1>0 DEF EndedRest, Remembers, Ended
        <3>4. /\ ended' \subseteq RunIds
              /\ \A r \in RunIds : r \in ended /\ run[r].status # "none" => r \in ended'
            BY <2>1 DEF Remembers
        <3>5. NoneActive'
            BY <2>1, <3>1, <3>2 DEF NoneActive, Current
        <3>6. OneActive'
            <4>1. \A r \in RunIds : r \notin ended' /\ run[r].status \in Active => r \notin ended
                BY <3>4 DEF Active
            <4> QED
                BY <2>1, <4>1 DEF ActiveInv, OneActive
        <3>7. EndedRest'
            BY <2>1, <3>3, <3>4 DEF EndedRest
        <3> QED
            BY <3>5, <3>6, <3>7 DEF ActiveInv
    <2>3. CASE worker' = [worker EXCEPT !.todo = Tail(@)]
        <3>1. worker'.phase = "pick"
            BY <1>2, <2>3 DEF Pick, WorkerType
        <3> QED
            BY <2>1, <3>1, <1>0, RunsStay, NoNewActiveKeeps
    <2> QED
        BY <1>2, <2>2, <2>3 DEF Pick
<1>3. CASE AppendRun
    <2>1. PICK r \in FreeRuns : run' = [run EXCEPT ![r] =
              [task |-> Current.task, status |-> "running", session |-> FALSE]]
        BY <1>3 DEF AppendRun
    <2>2. r \in RunIds /\ run[r].status = "none" /\ r \notin ended
        BY DEF FreeRuns, Remembered
    <2>3. \A q \in RunIds \ ended : run[q].status \in Active => run[q].task # Current.task
        BY <1>3 DEF AppendRun, ActiveInv, NoneActive
    <2>4. /\ run'[r].task = Current.task /\ run'[r].status = "running"
          /\ \A q \in RunIds \ {r} : run'[q] = run[q]
        BY <2>1, <2>2
    <2>5. \A q \in RunIds : q \in ended' <=>
              run'[q].status # "none" /\ (q \in ended \/ run'[q].status \in Ended)
        BY DEF Remembers
    <2>6. OneActive'
        <3>1. ASSUME NEW q \in RunIds \ ended', run'[q].status \in Active, q # r
              PROVE  q \notin ended /\ run'[q] = run[q]
            BY <2>4, <2>5, <3>1 DEF Active
        <3>2. ASSUME NEW q \in RunIds \ ended', run'[q].status \in Active, q # r
              PROVE  run'[q].task # run'[r].task
            BY <2>3, <2>4, <3>1, <3>2
        <3> QED
            BY <3>1, <3>2 DEF ActiveInv, OneActive
    <2>7. EndedRest'
        <3> SUFFICES ASSUME NEW q \in ended' PROVE run'[q].status \notin {"queued", "running"}
            BY DEF EndedRest
        <3>1. q \in RunIds /\ (q \in ended \/ run'[q].status \in Ended)
            BY <2>5 DEF Remembers
        <3>2. q # r
            BY <2>2, <2>4, <3>1 DEF Ended
        <3> QED
            BY <1>0, <2>4, <3>1, <3>2 DEF EndedRest, Ended
    <2>8. worker'.phase # "append"
        BY <1>3 DEF AppendRun, WorkerType
    <2> QED
        BY <2>6, <2>7, <2>8 DEF ActiveInv, NoneActive
<1>4. CASE Remind \/ RetryStart
    <2>1. \E st \in Active \cup Ended, ph \in {"run", "changed"} :
              Record(st, FALSE, worker' = Gone(ph))
        BY <1>4 DEF Remind, RetryStart, Go, Gone, Record, Active, Ended
    <2>2. HasRun /\ \A ph \in {"run", "changed"} : Gone(ph).phase # "append"
        BY <1>4 DEF Remind, RetryStart, HasRun, Gone, WorkerType
    <2> QED
        BY <2>1, <2>2, <1>0, RecordActive, NoNewActiveKeeps
<1>5. CASE StartupFails
    <2> DEFINE w == [worker EXCEPT !.phase = "wait", !.retried = TRUE]
    <2>1. /\ w.phase # "append" /\ HasRun /\ Record("queued", FALSE, worker' = w)
          /\ "queued" \in Active
        BY <1>5 DEF StartupFails, HasRun, WorkerType, Active
    <2> HIDE DEF w
    <2> QED
        BY <2>1, <1>0, RecordActive, NoNewActiveKeeps
<1>6. ASSUME NEW st \in Active \cup Ended, Finish(st) PROVE ActiveInv'
    <2>1. \E ph \in {"failed", "changed"} : Record(st, st # "failed", worker' = Gone(ph))
        BY <1>6 DEF Finish, Go, Gone, Record
    <2>2. HasRun /\ \A ph \in {"failed", "changed"} : Gone(ph).phase # "append"
        BY <1>6 DEF Finish, HasRun, Gone, WorkerType
    <2> QED
        BY <2>1, <2>2, <1>0, RecordActive, NoNewActiveKeeps
<1>7. CASE QueueState
    <2>1. HasRun /\ worker.id \in RunIds /\ run[worker.id] \in RunType
        BY <1>7 DEF QueueState, HasRun, Working
    <2>2. worker'.phase # "append"
        BY <1>7 DEF QueueState, WorkerType
    <2>3. CASE UNCHANGED run
        BY <2>2, <2>3, <1>0, RunsStay, NoNewActiveKeeps
    <2>4. CASE run[worker.id].status # "none"
        <3>1. worker.id \notin ended /\ run[worker.id].status \in Active \cup Ended
            BY <1>0, <2>1, <2>4, InHandActive
        <3>2. /\ run'[worker.id].task = run[worker.id].task
              /\ run'[worker.id].status \in {"queued", "running"}
              /\ \A r \in RunIds \ {worker.id} : run'[r] = run[r]
            BY <1>7, <2>1, <2>4 DEF QueueState, RunType
        <3> QED
            BY <1>0, <2>1, <2>2, <3>1, <3>2, OneRunChanges, NoNewActiveKeeps
    <2> QED
        BY <1>7, <2>3, <2>4 DEF QueueState
<1> QED
    BY <1>1, <1>2, <1>3, <1>4, <1>5, <1>6, <1>7
    DEF WorkerStep, BackendStep, BackendEnds, Active

LEMMA NextActive == BaseInv /\ ActiveInv /\ [Next]_vars => ActiveInv'
<1> SUFFICES ASSUME IInv, Reporting, Remembered, ActiveInv, [Next]_vars PROVE ActiveInv'
    BY DEF BaseInv
<1> USE DEF IInv, Typed
<1>0. EndedRest
    BY DEF ActiveInv
<1>1. CASE UNCHANGED vars
    BY <1>1 DEF vars, storeVars, ActiveInv, NoneActive, OneActive, EndedRest, Current
<1>2. CASE UNCHANGED <<run, worker>> /\ Remembers
    BY <1>0, <1>2, RunsStay, NoNewActiveKeeps
<1>3. CASE (WorkerStep \/ BackendStep) /\ Remembers
    BY <1>3, WorkerActive
<1>4. CASE Restart /\ Remembers
    <2>1. UNCHANGED run /\ worker'.phase # "append"
        BY <1>4 DEF Restart, Resting, storeVars
    <2> QED
        BY <1>0, <1>4, <2>1, RunsStay, NoNewActiveKeeps
<1>5. CASE UserStep /\ Remembers
    <2>1. UNCHANGED worker
        BY <1>5 DEF UserStep, Create, Update, Pause, Resume, Delete, RunNow, UserOp
    <2>2. \A r \in RunIds : run'[r] = run[r] \/ run'[r] = NoRun
        BY <1>5 DEF UserStep, Create, Update, Pause, Resume, Delete, RunNow, storeVars
    <2>3. NoRun.status = "none"
        BY DEF NoRun
    <2> QED
        BY <1>0, <1>5, <2>1, <2>2, <2>3, RunsStay, NoNewActiveKeeps
<1>6. ASSUME NEW x \in Reporters, ReportStep(x), Remembers PROVE ActiveInv'
    <2>1. ReportWritten(x) \/ UNCHANGED <<run, worker>>
        BY <1>6 DEF ReportStep, SessionReport, MonitorReport, Reports, storeVars
    <2> QED
        BY <1>0, <1>2, <1>6, <2>1, ReportActive, NoNewActiveKeeps
<1>7. CASE Tick \/ WindowsFires \/ (\E s \in Slots : RecStep(s)) \/ (\E x \in Times : TimerFires(x))
    <2>1. UNCHANGED <<run, worker>>
        BY <1>7 DEF Tick, WindowsFires, RecStep, RecBegin, RecList, RecFinish, TimerFires,
                    storeVars
    <2> QED
        BY <1>1, <1>2, <2>1 DEF Next
<1> QED
    BY <1>1, <1>3, <1>4, <1>5, <1>6, <1>7 DEF Next, Act

LEMMA AtMostOne ==
    ASSUME OneActive, NEW t \in Tasks
    PROVE  Cardinality({r \in RunsOf(t) : run[r].status \in Active} \ ended) <= 1
<1> DEFINE S == {r \in RunsOf(t) : run[r].status \in Active} \ ended
<1>1. \A r, q \in S : r = q
    BY DEF OneActive, RunsOf
<1>2. S = {} \/ \E r : S = {r}
    BY <1>1
<1>3. Cardinality(S) = 0 \/ Cardinality(S) = 1
    BY <1>2, FS_EmptySet, FS_Singleton
<1>4. Cardinality(S) <= 1
    <2> HIDE DEF S
    <2> QED
        BY <1>3
<1> QED
    BY <1>4, Zenon

\* Whichever of timer, Windows and user asks for it, and in whatever order the
\* renderer and a monitor report: of the runs of a task that have not ended at
\* most one is active, and one that has ended is never queued or running again.
THEOREM NoSecondRun == Spec => []SingleActiveRun
<1>1. Init => ActiveInv
    BY DEF Init, ActiveInv, NoneActive, OneActive, EndedRest, NoRun, Active, Resting
<1>2. ActiveInv => SingleActiveRun
    BY AtMostOne DEF ActiveInv, EndedRest, SingleActiveRun
<1> QED
    BY <1>1, <1>2, AlwaysBaseInv, NextActive, PTL DEF Spec

---------------------------------------------------------------------------
(* A timer for the plan                                                    *)

\* Nothing is planned before x.
NoLater(x) == \A t \in Planned : x <= task[t].next

Armed     == \E x \in Times : timers[x] > 0 /\ NoLater(x)
Listing   == \E s \in Slots : rec[s].phase \in {"begin", "list"}
Arming    == \E s \in Slots : rec[s].phase = "sync" /\ NoLater(rec[s].next)
DueQueued == \E i \in DOMAIN jobs : jobs[i].kind = "due"

\* A timer is there for the plan, or comes without the worker.
InSight == Planned = {} \/ Armed \/ Listing \/ Arming \/ DueQueued

\* The job that runs is not about to be ended by an error.
Sound ==
    /\ \A i \in DOMAIN worker.todo : task[worker.todo[i].task].exists
    /\ HasRun => run[worker.id].status # "none"

\* The job that runs will call reconcile().
WorkerReconciles ==
    /\ worker.kind = "due" /\ worker.phase # "idle"
    /\ worker.phase = "settle" => worker.todo # <<>>
    /\ Sound

PlansExist == \A t \in Tasks : task[t].enabled => task[t].exists

CoverInv == PlansExist /\ (InSight \/ WorkerReconciles)

\* The plan gets no earlier.
PlanNotEarlier ==
    \A t \in Planned' : t \in Planned /\ task[t].next <= task'[t].next

LEMMA StaysInSight ==
    ASSUME IInv, IInv', InSight, UNCHANGED <<rec, timers>>, PlanNotEarlier,
           DueQueued => DueQueued'
    PROVE  InSight'
<1> USE DEF IInv, Typed
<1>1. \A x \in Times \cup {Never} : NoLater(x) => NoLater(x)'
    <2> SUFFICES ASSUME NEW x \in Times \cup {Never}, NoLater(x), NEW t \in Planned'
                 PROVE  x <= task'[t].next
        BY DEF NoLater
    <2>1. t \in Tasks /\ t \in Planned /\ task[t].next <= task'[t].next /\ x <= task[t].next
        BY DEF NoLater, PlanNotEarlier, Planned
    <2>2. x \in Nat /\ task[t].next \in Nat /\ task'[t].next \in Nat
        BY <2>1, TimesFacts DEF TaskType
    <2> QED
        BY <2>1, <2>2
<1>2. CASE Planned = {}
    BY <1>2 DEF PlanNotEarlier, InSight
<1>3. CASE Armed
    BY <1>1, <1>3 DEF Armed, InSight
<1>4. CASE Listing
    BY <1>4 DEF Listing, InSight
<1>5. CASE Arming
    <2>1. \A s \in Slots : rec[s].next \in Times \cup {Never}
        BY DEF RecType
    <2> QED
        BY <1>1, <1>5, <2>1 DEF Arming, InSight
<1>6. CASE DueQueued
    BY <1>6 DEF InSight
<1> QED
    BY <1>2, <1>3, <1>4, <1>5, <1>6 DEF InSight

\* With the tasks unchanged the plan is.
LEMMA SamePlan ==
    ASSUME IInv, UNCHANGED task
    PROVE  PlanNotEarlier /\ (PlansExist => PlansExist')
<1>1. \A t \in Planned : task[t].next \in Nat
    BY TimesFacts DEF IInv, Typed, Planned, TaskType
<1> QED
    BY <1>1 DEF PlanNotEarlier, PlansExist, Planned

LEMMA JobsGrow ==
    ASSUME jobs \in Seq(JobType), NEW j \in JobType, jobs' = Append(jobs, j)
    PROVE  (DueQueued => DueQueued') /\ (j.kind = "due" => DueQueued')
<1>1. /\ jobs' \in Seq(JobType) /\ Len(jobs') = Len(jobs) + 1 /\ Len(jobs) \in Nat
      /\ jobs'[Len(jobs) + 1] = j
      /\ \A i \in 1..Len(jobs) : jobs'[i] = jobs[i]
    OBVIOUS
<1>2. DOMAIN jobs = 1..Len(jobs) /\ DOMAIN jobs' = 1..Len(jobs')
    BY <1>1
<1> QED
    BY <1>1, <1>2 DEF DueQueued

\* A call of reconcile() that begins is all the plan needs.
LEMMA ReconcileCovers ==
    ASSUME IInv, NEW s \in Slots, StartReconcile(s) PROVE InSight'
BY StartReconcileTyped DEF IInv, Typed, InSight, Listing

---------------------------------------------------------------------------
LEMMA RecStepCover ==
    ASSUME IInv, IInv', CoverInv, NEW s \in Slots, RecStep(s) PROVE CoverInv'
<1> USE DEF IInv, Typed
<1>1. UNCHANGED <<task, run, jobs, worker>>
    BY DEF RecStep, RecBegin, RecList, RecFinish, storeVars
<1>2. PlansExist' /\ (WorkerReconciles => WorkerReconciles')
    BY <1>1 DEF CoverInv, PlansExist, WorkerReconciles, Sound, HasRun
<1>3. \A x : NoLater(x) => NoLater(x)'
    BY <1>1 DEF NoLater, Planned
<1>4. ASSUME RecBegin(s) PROVE InSight'
    BY <1>4 DEF RecBegin, InSight, Listing, RecType
<1>5. ASSUME RecList(s) PROVE InSight'
    <2>1. rec'[s] = [phase |-> "sync", next |-> Earliest]
        BY <1>5 DEF RecList
    <2>2. NoLater(Earliest)
        BY EarliestTyped DEF NoLater
    <2>3. rec'[s].phase = "sync" /\ NoLater(rec[s].next)'
        BY <1>1, <2>1, <2>2 DEF NoLater, Planned
    <2> QED
        BY <2>3 DEF InSight, Arming
<1>6. ASSUME RecFinish(s), InSight PROVE InSight'
    <2>1. rec[s].phase = "sync" /\ rec[s].next \in Times \cup {Never}
        BY <1>6 DEF RecFinish, RecType
    <2>2. \A q \in Slots \ {s} : rec'[q] = rec[q]
        BY <1>6 DEF RecFinish
    <2>3. \A x \in Times : timers[x] > 0 => timers'[x] > 0
        BY <1>6, <2>1, TimesFacts DEF RecFinish, TimersTyped
    <2>4. CASE Planned = {} \/ DueQueued
        BY <1>1, <2>4 DEF InSight, Planned, DueQueued
    <2>5. CASE Armed
        BY <1>3, <2>3, <2>5 DEF InSight, Armed
    <2>6. CASE Listing
        BY <2>1, <2>2, <2>6 DEF InSight, Listing
    <2>7. CASE NoLater(rec[s].next)
        <3>1. CASE rec[s].next = Never
            <4>1. \A t \in Planned : task[t].next < Never /\ task[t].next \in Nat
                BY TimesFacts DEF Planned, TaskType
            <4>2. \A t \in Planned : Never <= task[t].next
                BY <2>7, <3>1 DEF NoLater
            <4>3. ASSUME NEW t \in Planned PROVE FALSE
                <5>1. task[t].next < Never /\ task[t].next \in Nat /\ Never \in Nat
                    BY <4>1, TimesFacts
                <5>2. Never <= task[t].next
                    BY <4>2
                <5> QED
                    BY <5>1, <5>2
            <4> QED
                BY <2>4, <4>3
        <3>2. CASE rec[s].next \in Times
            <4>1. timers'[rec[s].next] > 0
                BY <1>6, <3>2, TimesFacts DEF RecFinish, TimersTyped
            <4> QED
                BY <1>3, <2>7, <3>2, <4>1 DEF InSight, Armed
        <3> QED
            BY <2>1, <3>1, <3>2
    <2>8. CASE Arming /\ ~NoLater(rec[s].next)
        BY <1>3, <2>2, <2>8 DEF InSight, Arming
    <2> QED
        BY <1>6, <2>4, <2>5, <2>6, <2>7, <2>8 DEF InSight
<1> QED
    BY <1>2, <1>4, <1>5, <1>6 DEF RecStep, CoverInv

LEMMA UserCover ==
    ASSUME IInv, IInv', CoverInv, UserStep PROVE CoverInv'
<1> USE DEF IInv, Typed
<1>1. ASSUME NEW t \in Tasks, NEW e \in TaskType, UserOp(t, e), e.enabled => e.exists
      PROVE  CoverInv'
    <2>1. PlansExist'
        BY <1>1 DEF UserOp, CoverInv, PlansExist
    <2> QED
        BY <1>1, <2>1, ReconcileCovers DEF UserOp, CoverInv
<1>2. PICK t \in Tasks :
          \/ \E at \in Times : Create(t, at) \/ Update(t, at)
          \/ Pause(t) \/ Resume(t) \/ Delete(t) \/ RunNow(t)
    BY DEF UserStep
<1>3. task[t] \in TaskType
    OBVIOUS
<1>4. ASSUME NEW at \in Times, Create(t, at) PROVE CoverInv'
    <2> DEFINE e == [exists |-> TRUE, enabled |-> TRUE, runAt |-> at,
                     next |-> NextRunAt(t, at, now)]
    <2>1. e \in TaskType /\ e.exists
        BY NextRunAtTyped DEF TaskType
    <2>2. UserOp(t, e)
        BY <1>4 DEF Create
    <2> HIDE DEF e
    <2> QED
        BY <1>1, <2>1, <2>2
<1>5. ASSUME NEW at \in Times, Update(t, at) PROVE CoverInv'
    <2> DEFINE e == [task[t] EXCEPT !.runAt = at, !.next = NextRunAt(t, at, now)]
    <2>1. e \in TaskType /\ e.exists
        BY <1>3, <1>5, NextRunAtTyped, TaskUpdates DEF TaskType, Update
    <2>2. UserOp(t, e)
        BY <1>5 DEF Update
    <2> HIDE DEF e
    <2> QED
        BY <1>1, <2>1, <2>2
<1>6. ASSUME Pause(t) PROVE CoverInv'
    <2> DEFINE e == [task[t] EXCEPT !.enabled = FALSE, !.next = Never]
    <2>1. e \in TaskType /\ e.exists
        BY <1>3, <1>6 DEF TaskType, Pause
    <2>2. UserOp(t, e)
        BY <1>6 DEF Pause
    <2> HIDE DEF e
    <2> QED
        BY <1>1, <2>1, <2>2
<1>7. ASSUME Resume(t) PROVE CoverInv'
    <2> DEFINE e == [task[t] EXCEPT !.enabled = TRUE,
                         !.next = NextRunAt(t, task[t].runAt, now)]
    <2>1. task[t].runAt \in Times \cup {Never}
        BY <1>3 DEF TaskType
    <2>2. e \in TaskType /\ e.exists
        BY <1>3, <1>7, <2>1, NextRunAtTyped DEF TaskType, Resume
    <2>3. UserOp(t, e)
        BY <1>7 DEF Resume
    <2> HIDE DEF e
    <2> QED
        BY <1>1, <2>2, <2>3
<1>8. ASSUME Delete(t) PROVE CoverInv'
    BY <1>1, <1>8, DeletedTyped DEF Delete
<1>9. ASSUME RunNow(t) PROVE CoverInv'
    <2>1. UNCHANGED <<task, run, worker, rec, timers>>
        BY <1>9 DEF RunNow, storeVars, recVars
    <2>2. [kind |-> "manual", task |-> t] \in JobType
        BY DEF JobType
    <2>3. DueQueued => DueQueued'
        BY <1>9, <2>2, JobsGrow DEF RunNow
    <2>4. InSight => InSight'
        BY <2>1, <2>3, SamePlan, StaysInSight
    <2> QED
        BY <2>1, <2>4, SamePlan DEF CoverInv, WorkerReconciles, Sound, HasRun
<1> QED
    BY <1>2, <1>4, <1>5, <1>6, <1>7, <1>8, <1>9

\* A report or the worker begins a call of reconcile(); the tasks stay.
LEMMA BeginCover ==
    ASSUME IInv, CoverInv, UNCHANGED task, \E s \in Slots : StartReconcile(s)
    PROVE  CoverInv'
BY ReconcileCovers DEF CoverInv, PlansExist

LEMMA DueTasksExist ==
    ASSUME IInv, PlansExist, NEW time, NEW q \in DueAt(time), NEW i \in DOMAIN q
    PROVE  task[q[i].task].exists
<1> DEFINE due == {t \in Planned : task[t].next <= time}
<1>1. q \in [1..Cardinality(due) -> [task : due, at : Times]]
    BY DEF DueAt, InOrder
<1>2. q[i].task \in due
    <2> HIDE DEF due
    <2>1. q[i] \in [task : due, at : Times]
        BY <1>1
    <2> QED
        BY <2>1
<1> QED
    BY <1>2 DEF Planned, PlansExist

LEMMA TakeCover ==
    ASSUME IInv, IInv', CoverInv, Take PROVE CoverInv'
<1> USE DEF IInv, Typed
<1>1. UNCHANGED <<task, run, rec, timers>> /\ jobs # <<>> /\ jobs' = Tail(jobs)
    BY DEF Take, storeVars, recVars
<1>2. PlansExist /\ InSight
    BY DEF Take, CoverInv, WorkerReconciles
<1>3. CASE Head(jobs).kind = "due"
    <2>1. PICK q \in DueAt(Head(jobs).now) :
              worker' = [Resting EXCEPT !.phase = "pick", !.todo = q]
        BY <1>3 DEF Take
    <2>2. worker'.phase = "pick" /\ worker'.todo = q /\ worker'.kind = "due"
        BY <2>1 DEF Resting
    <2>3. \A i \in DOMAIN q : task[q[i].task].exists
        BY <1>2, DueTasksExist
    <2> QED
        BY <1>1, <1>2, <2>2, <2>3 DEF CoverInv, PlansExist, WorkerReconciles, Sound, HasRun
<1>4. CASE Head(jobs).kind # "due"
    <2>1. DueQueued => DueQueued'
        <3> SUFFICES ASSUME NEW i \in DOMAIN jobs, jobs[i].kind = "due" PROVE DueQueued'
            BY DEF DueQueued
        <3>1. i \in 1..Len(jobs) /\ i # 1 /\ Len(jobs) \in Nat
            BY <1>4
        <3>2. DOMAIN jobs' = 1..(Len(jobs) - 1) /\ jobs'[i - 1] = jobs[i]
            BY <1>1, <3>1
        <3> QED
            BY SMTT(30), <3>1, <3>2 DEF DueQueued
    <2> QED
        BY <1>1, <1>2, <2>1, SamePlan, StaysInSight DEF CoverInv
<1> QED
    BY <1>3, <1>4

\* A step of the worker that only moves it on, or ends a job that would not
\* have called reconcile().
LEMMA MoveCover ==
    ASSUME IInv, IInv', CoverInv, UNCHANGED <<jobs, rec, timers>>, PlanNotEarlier, PlansExist',
           WorkerReconciles => WorkerReconciles'
    PROVE  CoverInv'
BY StaysInSight DEF CoverInv, DueQueued

LEMMA AbortCover ==
    ASSUME IInv, IInv', CoverInv, ~Sound, UNCHANGED <<task, jobs, rec, timers>>
    PROVE  CoverInv'
<1>1. PlanNotEarlier /\ PlansExist'
    BY SamePlan DEF CoverInv
<1>2. ~WorkerReconciles
    BY DEF WorkerReconciles
<1> QED
    BY <1>1, <1>2, MoveCover

\* The tasks after the current one are tasks of the list.
LEMMA TailIsPart ==
    ASSUME worker \in WorkerType, worker.todo # <<>>, NEW i \in DOMAIN Tail(worker.todo)
    PROVE  i + 1 \in DOMAIN worker.todo /\ Tail(worker.todo)[i] = worker.todo[i + 1]
<1>1. worker.todo \in Seq(Entry)
    BY DEF WorkerType
<1> QED
    BY <1>1

LEMMA PickSettleCover ==
    ASSUME IInv, IInv', CoverInv, Pick \/ Settle \/ EndJob PROVE CoverInv'
<1> USE DEF IInv, Typed
<1>1. UNCHANGED <<task, run, jobs, rec, timers>>
    BY DEF Pick, Settle, EndJob, storeVars, recVars
<1>2. CASE /\ worker.todo # <<>> /\ worker'.todo = Tail(worker.todo)
           /\ worker'.kind = worker.kind /\ worker'.phase = "pick" /\ worker.phase # "idle"
    <2>1. Sound => Sound'
        BY <1>1, <1>2, TailIsPart DEF Sound, HasRun
    <2> QED
        BY <1>1, <1>2, <2>1, SamePlan, MoveCover DEF WorkerReconciles, CoverInv
<1>3. CASE worker.phase = "pick" /\ Go("append")
    <2>1. worker'.todo = worker.todo /\ worker'.kind = worker.kind /\ worker'.phase = "append"
        BY <1>3, GoFacts DEF WorkerPhases
    <2>2. Sound => Sound'
        BY <1>1, <2>1 DEF Sound, HasRun
    <2> QED
        BY <1>1, <2>1, <2>2, SamePlan, MoveCover DEF WorkerReconciles, CoverInv
<1>4. CASE ~WorkerReconciles
    BY <1>1, <1>4, SamePlan, MoveCover DEF CoverInv
<1>5. CASE Pick
    <2>1. worker' = [worker EXCEPT !.todo = Tail(@)] =>
              /\ worker'.todo = Tail(worker.todo) /\ worker'.kind = worker.kind
              /\ worker'.phase = "pick"
        BY <1>5 DEF WorkerType, Pick
    <2> QED
        BY <1>2, <1>3, <1>5, <2>1 DEF Pick
<1>6. CASE Settle
    <2>1. CASE worker.todo = <<>>
        BY <1>4, <1>6, <2>1 DEF Settle, WorkerReconciles
    <2>2. CASE worker.todo # <<>>
        <3>1. /\ worker'.todo = Tail(worker.todo) /\ worker'.kind = worker.kind
              /\ worker'.phase = "pick"
            BY <1>6, <2>2 DEF WorkerType, Settle
        <3> QED
            BY <1>2, <1>6, <2>2, <3>1 DEF Settle
    <2> QED
        BY <2>1, <2>2
<1>7. CASE EndJob
    BY <1>4, <1>7 DEF EndJob, EndsWithReconcile, WorkerReconciles
<1> QED
    BY <1>5, <1>6, <1>7

LEMMA AppendCover ==
    ASSUME IInv, IInv', CoverInv, AppendRun PROVE CoverInv'
<1> USE DEF IInv, Typed
<1>1. UNCHANGED <<task, jobs, rec, timers>>
    BY DEF AppendRun, recVars
<1>2. PICK r \in FreeRuns :
        /\ run' = [run EXCEPT ![r] = [task |-> Current.task, status |-> "running",
                                      session |-> FALSE]]
        /\ worker' = [worker EXCEPT !.id = r,
                         !.phase = IF worker.kind = "manual" THEN "run" ELSE "advance"]
    BY DEF AppendRun
<1>3. /\ worker'.todo = worker.todo /\ worker'.kind = worker.kind /\ worker'.id = r
      /\ worker'.phase \in {"run", "advance"}
    BY <1>2 DEF WorkerType
<1>4. run'[r].status = "running"
    BY <1>2 DEF FreeRuns
<1>5. WorkerReconciles => WorkerReconciles'
    BY <1>1, <1>3, <1>4 DEF WorkerReconciles, Sound, HasRun
<1> QED
    BY <1>1, <1>5, SamePlan, MoveCover DEF CoverInv

\* advance() and the loss of a target put one task off.
LEMMA PutOffCover ==
    ASSUME IInv, IInv', CoverInv, NEW t \in Tasks, NEW e \in TaskType,
           e.exists = task[t].exists, e.enabled => task[t].enabled,
           e.enabled => task[t].next # Never /\ task[t].next <= e.next,
           task' = [task EXCEPT ![t] = e],
           UNCHANGED <<jobs, rec, timers>>, WorkerReconciles => WorkerReconciles'
    PROVE  CoverInv'
<1> USE DEF IInv, Typed
<1>1. PlansExist'
    BY DEF CoverInv, PlansExist
<1>2. PlanNotEarlier
    <2> SUFFICES ASSUME NEW u \in Planned' PROVE u \in Planned /\ task[u].next <= task'[u].next
        BY DEF PlanNotEarlier
    <2>1. u \in Tasks /\ task'[u].enabled /\ task'[u].next # Never
        BY DEF Planned
    <2>2. CASE u = t
        BY <2>1, <2>2 DEF Planned
    <2>3. CASE u # t
        <3>1. task'[u] = task[u]
            BY <2>1, <2>3
        <3>2. task[u].next \in Nat
            BY <2>1, TimesFacts DEF TaskType
        <3> QED
            BY <2>1, <3>1, <3>2 DEF Planned
    <2> QED
        BY <2>2, <2>3
<1> QED
    BY <1>1, <1>2, MoveCover

\* The worker goes on with the same list and, if it has one, the same run.
LEMMA GoSound ==
    ASSUME IInv, NEW ph \in WorkerPhases \ {"idle", "settle"}, Go(ph),
           worker.phase # "idle",
           ph \in {"advance", "run", "wait"} => HasRun,
           \A t \in Tasks : task[t].exists => task'[t].exists,
           worker.id \in RunIds /\ run[worker.id].status # "none"
               => run'[worker.id].status # "none",
           HasRun => worker.id \in RunIds
    PROVE  WorkerReconciles => WorkerReconciles'
<1> USE DEF IInv, Typed
<1>1. /\ worker'.todo = worker.todo /\ worker'.kind = worker.kind /\ worker'.phase = ph
      /\ worker'.id = worker.id
    BY GoFacts
<1>2. worker.todo \in Seq(Entry)
    BY DEF WorkerType
<1>3. \A i \in DOMAIN worker.todo : worker.todo[i].task \in Tasks
    <2>1. \A i \in DOMAIN worker.todo : worker.todo[i] \in Entry
        BY <1>2
    <2>2. \A e \in Entry : e.task \in Tasks
        BY DEF Entry
    <2> QED
        BY <2>1, <2>2
<1> QED
    BY <1>1, <1>3 DEF WorkerReconciles, Sound, HasRun

\* What a list of tasks that all exist says of the current one.
LEMMA SoundHead ==
    ASSUME IInv, worker.todo # <<>>
    PROVE  /\ Current.task \in Tasks
           /\ ~task[Current.task].exists => ~Sound
<1>1. worker.todo \in Seq(Entry)
    BY DEF IInv, Typed, WorkerType
<1>2. 1 \in DOMAIN worker.todo /\ Current = worker.todo[1]
    BY <1>1 DEF Current
<1> QED
    BY <1>2, CurrentTyped DEF IInv, Typed, Sound

LEMMA AdvanceCover ==
    ASSUME IInv, IInv', CoverInv, Advance PROVE CoverInv'
<1> USE DEF IInv, Typed
<1> DEFINE t == Current.task
           e == [task[t] EXCEPT !.next = IF t \in Once THEN Never ELSE NextRunAt(t, Never, now),
                                !.enabled = IF t \in Once THEN FALSE ELSE @]
<1>1. UNCHANGED <<run, jobs, rec, timers>> /\ HasRun /\ worker.phase # "idle"
    BY DEF Advance, recVars, HasRun
<1>2. worker.todo # <<>> /\ worker.id \in RunIds
    BY <1>1 DEF Working
<1>3. t \in Tasks
    BY <1>2, SoundHead
<1>4. CASE task[t].exists
    <2>1. task[t] \in TaskType /\ NextRunAt(t, Never, now) \in Times \cup {Never}
        BY <1>3, NextRunAtTyped
    <2>2. e \in TaskType /\ e.exists = task[t].exists /\ (e.enabled => task[t].enabled)
        BY <2>1 DEF TaskType
    <2>3. e.enabled => task[t].next # Never /\ task[t].next <= e.next
        <3> SUFFICES ASSUME e.enabled PROVE task[t].next # Never /\ task[t].next <= e.next
            OBVIOUS
        <3>1. t \notin Once /\ e.next = now + 1 /\ task[t].enabled
            BY <2>1 DEF TaskType, NextRunAt
        <3>2. task[t].next <= now + 1 /\ now + 1 \in Times
            BY <1>3, <3>1, TimesFacts DEF RecursSoon
        <3>3. task[t].next \in Nat /\ now + 1 < Never /\ Never \in Nat
            BY <2>1, <3>2, TimesFacts DEF TaskType
        <3> QED
            BY <3>1, <3>2, <3>3
    <2>4. task' = [task EXCEPT ![t] = e]
        BY ZenonT(40), <1>4, <2>1 DEF Advance, TaskType
    <2>5. Go("run") /\ "run" \in WorkerPhases
        BY <1>4 DEF Advance, WorkerPhases
    <2> HIDE DEF e
    <2>6. \A u \in Tasks : task[u].exists => task'[u].exists
        BY <2>2, <2>4
    <2>7. WorkerReconciles => WorkerReconciles'
        BY <1>1, <1>2, <2>5, <2>6, GoSound
    <2> QED
        BY <1>1, <1>3, <2>2, <2>3, <2>4, <2>7, PutOffCover
<1>5. CASE ~task[t].exists
    BY <1>1, <1>2, <1>5, SoundHead, AbortCover DEF Advance
<1> QED
    BY <1>4, <1>5

LEMMA DisableTargetCover ==
    ASSUME IInv, IInv', CoverInv, DisableTarget PROVE CoverInv'
<1> USE DEF IInv, Typed
<1> DEFINE t == Current.task
           e == [task[t] EXCEPT !.enabled = FALSE, !.next = Never]
<1>1. UNCHANGED <<run, jobs, rec, timers>> /\ worker.phase = "failed"
    BY DEF DisableTarget, recVars
<1>2. worker.todo # <<>> /\ (HasRun => worker.id \in RunIds)
    BY <1>1 DEF Working
<1>3. t \in Tasks
    BY <1>2, SoundHead
<1>4. CASE task[t].exists
    <2>1. e \in TaskType /\ e.exists = task[t].exists /\ ~e.enabled
        <3>1. task[t] \in TaskType
            BY <1>3
        <3> QED
            BY <3>1 DEF TaskType
    <2>2. task' = [task EXCEPT ![t] = e]
        BY <1>4 DEF DisableTarget
    <2>3. Go("changed") /\ "changed" \in WorkerPhases
        BY <1>4 DEF DisableTarget, WorkerPhases
    <2> HIDE DEF e
    <2>4. \A u \in Tasks : task[u].exists => task'[u].exists
        BY <2>1, <2>2
    <2>5. WorkerReconciles => WorkerReconciles'
        BY <1>1, <1>2, <2>3, <2>4, GoSound
    <2> QED
        BY <1>1, <1>3, <2>1, <2>2, <2>5, PutOffCover
<1>5. CASE ~task[t].exists
    BY <1>1, <1>2, <1>5, SoundHead, AbortCover DEF DisableTarget
<1> QED
    BY <1>4, <1>5

\* updateRun of the run in hand keeps it; without the run the job was doomed.
LEMMA RecordCover ==
    ASSUME IInv, IInv', CoverInv, HasRun, NEW st \in Active \cup Ended, NEW b \in BOOLEAN,
           NEW w \in WorkerType, Record(st, b, worker' = w),
           w.todo = worker.todo, w.id = worker.id, w.kind = worker.kind,
           w.phase \notin {"idle", "settle"},
           UNCHANGED <<task, jobs, rec, timers>>
    PROVE  CoverInv'
<1> USE DEF IInv, Typed
<1>1. worker.id \in RunIds /\ run[worker.id] \in RunType
    BY DEF Working
<1>2. CASE run[worker.id].status = "none"
    BY <1>2, AbortCover DEF Record, Sound
<1>3. CASE run[worker.id].status # "none"
    <2>1. /\ run' = [run EXCEPT ![worker.id].status = st, ![worker.id].session = @ \/ b]
          /\ worker' = w
        BY <1>3 DEF Record, Working, Mine
    <2>2. run'[worker.id].status = st /\ st # "none"
        BY <1>1, <2>1 DEF RunType, Active, Ended
    <2>3. WorkerReconciles => WorkerReconciles'
        BY <2>1, <2>2 DEF WorkerReconciles, Sound, HasRun
    <2>4. PlanNotEarlier /\ PlansExist'
        BY SamePlan DEF CoverInv
    <2> QED
        BY <2>3, <2>4, MoveCover
<1> QED
    BY <1>2, <1>3

LEMMA BackendCover ==
    ASSUME IInv, IInv', CoverInv, Remind \/ RetryStart \/ BackendStep PROVE CoverInv'
<1> USE DEF IInv, Typed
<1>1. UNCHANGED <<task, jobs, rec, timers>> /\ HasRun
    BY DEF Remind, RetryStart, BackendStep, BackendEnds, StartupFails, Finish, QueueState,
           recVars, HasRun
<1>2. \A ph \in {"run", "failed", "changed"} :
          /\ Gone(ph) \in WorkerType /\ Gone(ph).phase = ph
          /\ Gone(ph).todo = worker.todo /\ Gone(ph).id = worker.id
          /\ Gone(ph).kind = worker.kind
    BY DEF Gone, WorkerType, WorkerPhases
<1>3. CASE \E st \in Active \cup Ended, b \in BOOLEAN, ph \in {"run", "failed", "changed"} :
               Record(st, b, worker' = Gone(ph))
    <2>1. PICK st \in Active \cup Ended, b \in BOOLEAN, ph \in {"run", "failed", "changed"} :
               Record(st, b, worker' = Gone(ph))
        BY <1>3
    <2> QED
        BY <1>1, <1>2, <2>1, RecordCover
<1>4. CASE Remind
    <2>1. Record("succeeded", FALSE, worker' = Gone("changed")) /\ "succeeded" \in Ended
        BY <1>4 DEF Remind, Go, Gone, Record, Ended
    <2> QED
        BY <1>3, <2>1
<1>5. CASE RetryStart
    <2>1. Record("running", FALSE, worker' = Gone("run")) /\ "running" \in Active
        BY <1>5 DEF RetryStart, Go, Gone, Record, Active
    <2> QED
        BY <1>3, <2>1
<1>6. ASSUME NEW st \in Ended \cup {"awaiting_approval"}, Finish(st) PROVE CoverInv'
    <2>1. \E ph \in {"failed", "changed"} : Record(st, st # "failed", worker' = Gone(ph))
        BY <1>6 DEF Finish, Go, Gone, Record
    <2>2. st \in Active \cup Ended /\ (st # "failed") \in BOOLEAN
        BY DEF Active
    <2> QED
        BY <1>3, <2>1, <2>2
<1>7. CASE StartupFails
    <2> DEFINE w == [worker EXCEPT !.phase = "wait", !.retried = TRUE]
    <2>1. /\ w \in WorkerType /\ w.todo = worker.todo /\ w.id = worker.id
          /\ w.kind = worker.kind /\ w.phase = "wait"
        BY DEF WorkerType, WorkerPhases
    <2>2. Record("queued", FALSE, worker' = w) /\ "queued" \in Active
        BY <1>7 DEF StartupFails, Active
    <2> HIDE DEF w
    <2> QED
        BY <1>1, <2>1, <2>2, RecordCover
<1>8. CASE QueueState
    <2>1. worker.id \in RunIds /\ run[worker.id] \in RunType
        BY <1>1 DEF Working
    <2>2. run[worker.id].status # "none" => run'[worker.id].status # "none"
        BY <1>8, <2>1 DEF QueueState, RunType
    <2>3. /\ worker'.phase = worker.phase /\ worker'.todo = worker.todo
          /\ worker'.kind = worker.kind /\ worker'.id = worker.id
        BY <1>8 DEF QueueState, WorkerType
    <2>4. WorkerReconciles => WorkerReconciles'
        BY <1>1, <2>2, <2>3 DEF WorkerReconciles, Sound, HasRun
    <2>5. PlanNotEarlier /\ PlansExist'
        BY <1>1, SamePlan DEF CoverInv
    <2> QED
        BY <1>1, <2>4, <2>5, MoveCover
<1> QED
    BY <1>4, <1>5, <1>6, <1>7, <1>8 DEF BackendStep, BackendEnds

LEMMA NextCover == BaseInv /\ CoverInv /\ [Next]_vars => CoverInv'
<1> SUFFICES ASSUME IInv, Reporting, CoverInv, [Next]_vars PROVE CoverInv'
    BY DEF BaseInv
<1> USE DEF IInv, Typed
<1>1. IInv'
    BY NextIInv
<1>2. CASE UNCHANGED <<task, run, jobs, worker, rec, timers>>
    <2>1. WorkerReconciles => WorkerReconciles'
        BY <1>2 DEF WorkerReconciles, Sound, HasRun
    <2>2. PlanNotEarlier /\ PlansExist'
        BY <1>2, SamePlan DEF CoverInv
    <2> QED
        BY <1>1, <1>2, <2>1, <2>2, MoveCover
<1>3. CASE Tick
    BY <1>2, <1>3 DEF Tick, storeVars, recVars
<1>4. CASE Restart
    BY <1>4 DEF Restart, storeVars, CoverInv, PlansExist, InSight, Listing, NoRec
<1>5. CASE WindowsFires \/ (\E x \in Times : TimerFires(x))
    <2>1. [kind |-> "due", now |-> now] \in JobType /\ UNCHANGED task
        BY <1>5, TimesFacts DEF JobType, WindowsFires, TimerFires, storeVars
    <2>2. DueQueued'
        BY <1>5, <2>1, JobsGrow DEF WindowsFires, TimerFires
    <2> QED
        BY <2>1, <2>2 DEF CoverInv, PlansExist, InSight
<1>6. CASE UserStep
    BY <1>1, <1>6, UserCover
<1>7. CASE WorkerStep
    <2>1. CASE Changed
        BY <2>1, BeginCover DEF Changed, storeVars
    <2>2. CASE Take \/ Pick \/ AppendRun \/ Advance \/ DisableTarget \/ Settle \/ EndJob
        BY <1>1, <2>2, TakeCover, PickSettleCover, AppendCover, AdvanceCover,
           DisableTargetCover
    <2> QED
        BY <1>1, <1>7, <2>1, <2>2, BackendCover DEF WorkerStep
<1>8. CASE BackendStep
    BY SMTT(30), <1>1, <1>8, BackendCover
<1>9. ASSUME NEW x \in Reporters, ReportStep(x) PROVE CoverInv'
    <2>1. CASE ReportWritten(x)
        BY <2>1, BeginCover DEF ReportWritten
    <2>2. CASE ~ReportWritten(x)
        <3>1. UNCHANGED <<task, run, jobs, worker, rec, timers>>
            BY <1>9, <2>2
            DEF ReportStep, SessionReport, MonitorReport, Reports, storeVars, recVars
        <3> QED
            BY <1>2, <3>1
    <2> QED
        BY <2>1, <2>2
<1>10. CASE \E s \in Slots : RecStep(s)
    BY <1>1, <1>10, RecStepCover
<1> QED
    BY <1>2, <1>3, <1>4, <1>5, <1>6, <1>7, <1>8, <1>9, <1>10
    DEF Next, Act, vars, storeVars, recVars

\* No enabled task is forgotten: when no call is in progress, a timer is armed
\* no later than the earliest planned time, whatever overlapped or was aborted.
THEOREM TimerForPlan == Spec => []TimerCoversPlan
<1>1. Init => CoverInv
    BY DEF Init, CoverInv, PlansExist, InSight, Planned, NoTask
<1>2. BaseInv /\ CoverInv => TimerCoversPlan
    <2> SUFFICES ASSUME IInv, CoverInv, Calm, Planned # {}
                 PROVE  \E x \in Times : timers[x] > 0 /\ x <= Earliest
        BY DEF TimerCoversPlan, BaseInv
    <2>1. DOMAIN jobs = {}
        BY DEF Calm
    <2>2. Armed
        BY <2>1 DEF Calm, CoverInv, WorkerReconciles, InSight, Listing, Arming, DueQueued
    <2>3. PICK t \in Planned : Earliest = task[t].next
        BY EarliestTyped DEF IInv, Typed
    <2> QED
        BY <2>2, <2>3 DEF Armed, NoLater
<1> QED
    BY <1>1, <1>2, AlwaysBaseInv, NextCover, PTL DEF Spec
=============================================================================

---------------------------- MODULE FlowOutbox ----------------------------
(***************************************************************************)
(* From an edit of a Flow to the backend: FlowOperationOutbox of the        *)
(* renderer (domain/flow/flow-operation-outbox.ts) keeps the operations     *)
(* that are to be committed, and has the main process keep them on disk     *)
(* (main/services/flow-operation-outbox.ts), through IPC and a debounced    *)
(* write, so that they survive a crash.  FlowEdits says what the operations *)
(* mean; here an operation is its mutationId, what it is merged by, and the *)
(* edits it stands for.                                                     *)
(***************************************************************************)
EXTENDS Naturals, Sequences, FiniteSetsExt, SequencesExt

CONSTANTS
    Flows,       \* identities of Flows
    MaxEdits,    \* edits made (bound)
    MaxMounts,   \* times the Flow controller is mounted (bound)
    MaxFaults,   \* commits and fetches that fail (bound)
    MaxWriteFaults,  \* writes that fail (bound)
    MaxCrashes   \* crashes (bound)

ASSUME FlowsAssumption == IsFiniteSet(Flows)
ASSUME BoundsAssumption ==
    {MaxEdits, MaxMounts, MaxFaults, MaxWriteFaults, MaxCrashes} \subseteq Nat

VARIABLES
    \* the renderer
    operations,   \* pending operations of each Flow
    timers,       \* the Flows whose timer is armed
    flushing,     \* the flush of each Flow
    hydrated,     \* "no", "loading" or "done"
    persistence,  \* the latest save of each Flow that has not settled, or 0
    mounted,      \* the connection the committer is of, or 0
    leaving,      \* unmounted controllers whose cleanup flushes
    refetching,   \* the Flows fetched again after an error
    \* IPC and the main process
    requests,     \* IPC requests on their way, in order
    loaded,       \* the answer to load on its way: <<>> or one document
    document,     \* cachedDocument
    waiters,      \* the saves that wait for the armed writeTimer; none: not armed
    writes,       \* writeTail: the write in progress and those behind it
    disk,         \* the file
    \* the backend
    applied,      \* the edits the backend has applied
    gone,         \* the Flows deleted at the backend
    \* history
    edits,        \* edits made so far
    dropped,      \* the edits discarded with their Flow
    saved,        \* the edits that have been on disk
    lost,         \* the edits a crash took before they were on disk
    mounts, faults, writeFaults, crashes

rendererVars == <<operations, timers, flushing, hydrated, persistence>>
pageVars     == <<mounted, leaving, refetching>>
ipcVars      == <<requests, loaded>>
mainVars     == <<document, waiters, writes, disk, saved>>
backendVars  == <<applied, gone>>
historyVars  == <<edits, dropped, lost, mounts, crashes>>
faultVars    == <<faults, writeFaults>>
vars == <<rendererVars, pageVars, ipcVars, mainVars, backendVars, historyVars, faultVars>>

Edits == 0..MaxEdits    \* 0 is left on disk by an earlier session
Saves == Nat \ {0}      \* calls of persist()

\* node.move and the like merge by key, node.update with its neighbour.
MergeKinds == {"key", "adjacent", "none"}
Operation == [id : Edits, kind : MergeKinds, covers : SUBSET Edits]
Queues == [Flows -> Seq(Operation)]

\* Operations of one queue have ids of their own, and one at most merges by key.
Coalesced(queue) ==
    \A i, j \in DOMAIN queue :
        i # j => queue[i].id # queue[j].id /\ ~(queue[i].kind = "key" /\ queue[j].kind = "key")

Covered(queue) == UNION {queue[i].covers : i \in DOMAIN queue}
AllCovered(queues) == UNION {Covered(queues[f]) : f \in Flows}
Ids(queue) == {queue[i].id : i \in DOMAIN queue}

Idle == [phase |-> "idle", save |-> 0, batch |-> <<>>]

TypeOK ==
    /\ operations \in Queues /\ document \in Queues /\ disk \in Queues
    /\ \A f \in Flows : Coalesced(operations[f])
    /\ timers \subseteq Flows /\ refetching \subseteq Flows /\ gone \subseteq Flows
    /\ flushing \in [Flows -> [phase : {"idle", "hydrate", "persist", "sent", "applied"},
                               save : Nat, batch : Seq(Operation)]]
    /\ hydrated \in {"no", "loading", "done"}
    /\ persistence \in [Flows -> Nat]
    /\ mounted \in 0..MaxMounts /\ leaving \subseteq 1..MaxMounts
    /\ \A i \in DOMAIN requests : requests[i].kind \in {"load", "replace"}
    /\ waiters \subseteq Saves
    /\ writes \in Seq([document : Queues, waiters : SUBSET Saves])
    /\ loaded # <<>> => loaded[1] \in Queues
    /\ applied \cup dropped \cup saved \cup lost \subseteq 0..edits
    /\ edits \in Edits /\ mounts \in 0..MaxMounts /\ crashes \in 0..MaxCrashes
    /\ faults \in 0..MaxFaults /\ writeFaults \in 0..MaxWriteFaults

\* An operation an earlier session has left.
Recovered(kind) == [id |-> 0, kind |-> kind, covers |-> {0}]

Init ==
    /\ \E f \in Flows, kind \in MergeKinds \ {"none"} :
          disk = [[g \in Flows |-> <<>>] EXCEPT ![f] = <<Recovered(kind)>>]
    /\ document = disk /\ waiters = {} /\ writes = <<>> /\ requests = <<>> /\ loaded = <<>>
    /\ operations = [f \in Flows |-> <<>>]
    /\ timers = {} /\ flushing = [f \in Flows |-> Idle]
    /\ hydrated = "no" /\ persistence = [f \in Flows |-> 0]
    /\ mounted = 0 /\ leaving = {} /\ refetching = {}
    /\ applied = {} /\ gone = {}
    /\ edits = 0 /\ dropped = {} /\ saved = {0} /\ lost = {}
    /\ mounts = 0 /\ faults = 0 /\ writeFaults = 0 /\ crashes = 0

---------------------------------------------------------------------------
(* The renderer                                                            *)

\* Saves the main process has not answered yet.
Unsettled ==
    {requests[i].save : i \in {j \in DOMAIN requests : requests[j].kind = "replace"}}
        \cup waiters \cup UNION {writes[i].waiters : i \in DOMAIN writes}

FreshSave == 1 + Max({0} \cup Unsettled \cup {flushing[f].save : f \in Flows})

\* persist: the whole queue of f goes to the main process.
Persist(f, queue) ==
    /\ operations' = [operations EXCEPT ![f] = queue]
    /\ persistence' = [persistence EXCEPT ![f] = FreshSave]
    /\ requests' = Append(requests, [kind |-> "replace", flow |-> f, queue |-> queue,
                                     save |-> FreshSave])
    /\ UNCHANGED loaded

Load == [kind |-> "load"]

\* connect: the first one loads what the disk has; each one schedules every
\* Flow that has operations, at once or when they are loaded.
BadConnect ==
    /\ mounts < MaxMounts /\ (mounted = 0 \/ mounted \in leaving)
    /\ mounts' = mounts + 1 /\ mounted' = mounts'
    /\ hydrated' = IF hydrated = "no" THEN "loading" ELSE hydrated
    /\ requests' = IF hydrated = "no" THEN Append(requests, Load) ELSE requests
    /\ UNCHANGED <<operations, timers, flushing, persistence, leaving, refetching, loaded,
                   mainVars, backendVars, edits, dropped, lost, crashes, faultVars>>

Connect ==
    /\ mounts < MaxMounts /\ (mounted = 0 \/ mounted \in leaving)
    /\ mounts' = mounts + 1 /\ mounted' = mounts'
    /\ hydrated' = IF hydrated = "no" THEN "loading" ELSE hydrated
    /\ requests' = IF hydrated = "no" THEN Append(requests, Load) ELSE requests
    /\ timers' = IF hydrated = "done" THEN {f \in Flows : operations[f] # <<>>} \cup timers
                 ELSE timers
    /\ UNCHANGED <<operations, flushing, persistence, leaving, refetching, loaded,
                   mainVars, backendVars, edits, dropped, lost, crashes, faultVars>>

\* The controller is unmounted: it flushes all, then disconnects.
Unmount ==
    /\ mounted # 0 /\ mounted \notin leaving
    /\ leaving' = leaving \cup {mounted}
    /\ UNCHANGED <<rendererVars, mounted, refetching, ipcVars, mainVars, backendVars,
                   historyVars, faultVars>>

\* disconnect: only the connection that is still the current one.
Disconnect(c) ==
    /\ c \in leaving
    /\ leaving' = leaving \ {c}
    /\ IF mounted = c THEN mounted' = 0 /\ timers' = {} ELSE UNCHANGED <<mounted, timers>>
    /\ UNCHANGED <<operations, flushing, hydrated, persistence, refetching, ipcVars,
                   mainVars, backendVars, historyVars, faultVars>>

\* enqueue's merge; the merged operation has the id of the new one.
Merged(queue, op) ==
    LET same == {i \in DOMAIN queue : op.kind = "key" /\ queue[i].kind = "key"}
        Onto(old) == [op EXCEPT !.covers = @ \cup old.covers]
    IN  IF op.kind = "adjacent" /\ queue # <<>> /\ Last(queue).kind = "adjacent"
        THEN Append(Front(queue), Onto(Last(queue)))
        ELSE IF same # {}
        THEN LET i == CHOOSE i \in same : TRUE IN [queue EXCEPT ![i] = Onto(@)]
        ELSE Append(queue, op)

\* enqueue
Enqueue(f, kind) ==
    /\ mounted # 0 /\ mounted \notin leaving /\ edits < MaxEdits
    /\ edits' = edits + 1
    /\ Persist(f, Merged(operations[f], [id |-> edits', kind |-> kind, covers |-> {edits'}]))
    /\ timers' = timers \cup {f}
    /\ UNCHANGED <<flushing, hydrated, pageVars, mainVars, backendVars, dropped, lost,
                   mounts, crashes, faultVars>>

\* flush ends: what is left is tried again in 500 ms.
Ends(f, queue, armed) ==
    /\ flushing' = [flushing EXCEPT ![f] = Idle]
    /\ timers' = IF queue # <<>> THEN armed \cup {f} ELSE armed

\* The batch is what is pending by now.  Without a committer, or with nothing
\* to commit, flush() gives null.
SendBatch(f, armed) ==
    IF mounted = 0 \/ operations[f] = <<>>
    THEN Ends(f, operations[f], armed)
    ELSE /\ flushing' = [flushing EXCEPT ![f] =
                            [Idle EXCEPT !.phase = "sent", !.batch = operations[f]]]
         /\ timers' = armed

\* flushNow: once the disk is loaded it waits for the latest save of now.
Proceed(f, armed) ==
    IF persistence[f] = 0
    THEN SendBatch(f, armed)
    ELSE /\ flushing' = [flushing EXCEPT ![f].phase = "persist", ![f].save = persistence[f]]
         /\ timers' = armed

\* flush: a flush in progress is joined.
Start(f, armed) ==
    IF hydrated = "done"
    THEN Proceed(f, armed)
    ELSE /\ flushing' = [flushing EXCEPT ![f].phase = "hydrate"]
         /\ timers' = armed

TimerFires(f) ==
    /\ f \in timers
    /\ IF flushing[f].phase = "idle" THEN Start(f, timers \ {f})
       ELSE timers' = timers \ {f} /\ UNCHANGED flushing
    /\ UNCHANGED <<operations, hydrated, persistence, pageVars, ipcVars, mainVars,
                   backendVars, historyVars, faultVars>>

\* A caller wants the Flow committed: the window loses the focus, another Flow
\* is opened, a run or an export begins.
Flush(f) ==
    /\ flushing[f].phase = "idle" /\ operations[f] # <<>>
    /\ Start(f, timers)
    /\ UNCHANGED <<operations, hydrated, persistence, pageVars, ipcVars, mainVars,
                   backendVars, historyVars, faultVars>>

Loaded(f) ==
    /\ flushing[f].phase = "hydrate" /\ hydrated = "done"
    /\ Proceed(f, timers)
    /\ UNCHANGED <<operations, hydrated, persistence, pageVars, ipcVars, mainVars,
                   backendVars, historyVars, faultVars>>

\* The save has settled.
Persisted(f) ==
    /\ flushing[f].phase = "persist" /\ flushing[f].save \notin Unsettled
    /\ SendBatch(f, timers)
    /\ UNCHANGED <<operations, hydrated, persistence, pageVars, ipcVars, mainVars,
                   backendVars, historyVars, faultVars>>

\* The backend applies the batch; a mutation it has applied it knows by its id.
Apply(f) ==
    /\ flushing[f].phase = "sent" /\ f \notin gone
    /\ applied' = applied \cup Covered(flushing[f].batch)
    /\ flushing' = [flushing EXCEPT ![f].phase = "applied"]
    /\ UNCHANGED <<operations, timers, hydrated, persistence, pageVars, ipcVars, mainVars,
                   gone, historyVars, faultVars>>

\* The mutations of batch leave the queue.
BadRemaining(queue, batch) == <<>>

Remaining(queue, batch) ==
    LET kept[n \in 0..Len(queue)] ==
            IF n = 0 THEN <<>>
            ELSE IF queue[n].id \in Ids(batch) THEN kept[n - 1]
            ELSE Append(kept[n - 1], queue[n])
    IN  kept[Len(queue)]

BadAcknowledge(f) ==
    /\ flushing[f].phase = "applied"
    /\ LET queue == Remaining(operations[f], flushing[f].batch) IN
       /\ operations' = [operations EXCEPT ![f] = queue]
       /\ Ends(f, queue, timers)
    /\ UNCHANGED <<hydrated, persistence, pageVars, ipcVars, mainVars, backendVars,
                   historyVars, faultVars>>

Acknowledge(f) ==
    /\ flushing[f].phase = "applied"
    /\ LET queue == Remaining(operations[f], flushing[f].batch) IN
       /\ Persist(f, queue)
       /\ Ends(f, queue, timers)
    /\ UNCHANGED <<hydrated, pageVars, mainVars, backendVars, historyVars, faultVars>>

\* The commit fails, or its answer is lost.  onError fetches the Flow on the
\* screen again; for another one it does nothing.
CommitFails(f) ==
    /\ flushing[f].phase \in {"sent", "applied"}
    /\ faults < MaxFaults /\ faults' = faults + 1
    /\ Ends(f, operations[f], timers)
    /\ refetching' \in {refetching, IF mounted # 0 THEN refetching \cup {f} ELSE refetching}
    /\ UNCHANGED <<operations, hydrated, persistence, mounted, leaving, ipcVars, mainVars,
                   backendVars, historyVars, writeFaults>>

\* flow_not_found: discard() drops the operations; without a controller they stay.
Discard(f) ==
    /\ flushing[f].phase = "sent" /\ f \in gone
    /\ IF mounted # 0
       THEN /\ Persist(f, <<>>)
            /\ dropped' = dropped \cup Covered(operations[f])
            /\ flushing' = [flushing EXCEPT ![f] = Idle]
            /\ timers' = timers \ {f}
       ELSE /\ Ends(f, operations[f], timers)
            /\ UNCHANGED <<operations, persistence, ipcVars, dropped>>
    /\ UNCHANGED <<hydrated, pageVars, mainVars, backendVars, edits, lost, mounts,
                   crashes, faultVars>>

\* The Flow is there again: rebase() gives the operations new base revisions
\* and saves them.  A fetch that fails leaves them as they are.
Refetched(f) ==
    /\ f \in refetching
    /\ refetching' = refetching \ {f}
    /\ \/ /\ operations[f] # <<>>
          /\ Persist(f, operations[f]) /\ UNCHANGED faults
       \/ /\ operations[f] = <<>>
          /\ UNCHANGED <<operations, persistence, ipcVars, faults>>
       \/ /\ faults < MaxFaults /\ faults' = faults + 1
          /\ UNCHANGED <<operations, persistence, ipcVars>>
    /\ UNCHANGED <<timers, flushing, hydrated, mounted, leaving, mainVars, backendVars,
                   historyVars, writeFaults>>

---------------------------------------------------------------------------
(* The main process                                                        *)

\* What is loaded goes before what was enqueued meanwhile, and every Flow with
\* operations is scheduled.  Nothing is saved.
Hydrate(stored) ==
    LET Joined(f) == Remaining(stored[f], operations[f]) \o operations[f]
    IN  /\ operations' = [f \in Flows |-> Joined(f)]
        /\ hydrated' = "done"
        /\ timers' = timers \cup {f \in Flows : Joined(f) # <<>>}

\* load and replace are handled in the order they were sent.
HandleLoad ==
    /\ requests # <<>> /\ Head(requests).kind = "load"
    /\ requests' = Tail(requests) /\ loaded' = <<document>>
    /\ UNCHANGED <<rendererVars, pageVars, mainVars, backendVars, historyVars, faultVars>>

LoadAnswered ==
    /\ loaded # <<>>
    /\ loaded' = <<>>
    /\ Hydrate(loaded[1])
    /\ UNCHANGED <<flushing, persistence, pageVars, requests, mainVars, backendVars,
                   historyVars, faultVars>>

\* replaceFlowOperations: the timer of the write starts again, and the saves
\* that waited for it wait on.
HandleReplace ==
    /\ requests # <<>> /\ Head(requests).kind = "replace"
    /\ requests' = Tail(requests)
    /\ LET r == Head(requests) IN
       /\ document' = [document EXCEPT ![r.flow] = r.queue]
       /\ waiters' = waiters \cup {r.save}
    /\ UNCHANGED <<rendererVars, pageVars, loaded, writes, disk, saved, backendVars,
                   historyVars, faultVars>>

\* 40 ms without a replace(): the document as it is now is written behind the
\* writes in progress.
WriteTimer ==
    /\ waiters # {}
    /\ writes' = Append(writes, [document |-> document, waiters |-> waiters])
    /\ waiters' = {}
    /\ UNCHANGED <<rendererVars, pageVars, ipcVars, document, disk, saved, backendVars,
                   historyVars, faultVars>>

\* Persistence forgets a save that has settled.
Settle(settled) ==
    persistence' = [f \in Flows |-> IF persistence[f] \in settled THEN 0 ELSE persistence[f]]

WriteDone ==
    /\ writes # <<>>
    /\ disk' = Head(writes).document /\ saved' = saved \cup AllCovered(disk')
    /\ writes' = Tail(writes)
    /\ Settle(Head(writes).waiters)
    /\ UNCHANGED <<operations, timers, flushing, hydrated, pageVars, ipcVars, document,
                   waiters, backendVars, historyVars, faultVars>>

\* The saves of a write that fails are rejected: a flush that waits for one
\* fails with it, and onError fetches the Flow on the screen again.
WriteFails ==
    /\ writes # <<>> /\ writeFaults < MaxWriteFaults
    /\ writeFaults' = writeFaults + 1
    /\ writes' = Tail(writes)
    /\ LET settled == Head(writes).waiters
           failed == {f \in Flows : flushing[f].phase = "persist" /\ flushing[f].save \in settled}
       IN  /\ Settle(settled)
           /\ flushing' = [f \in Flows |-> IF f \in failed THEN Idle ELSE flushing[f]]
           /\ timers' = timers \cup {f \in failed : operations[f] # <<>>}
           /\ \E f \in Flows : refetching' \in
                  {refetching, IF mounted # 0 THEN refetching \cup {f} ELSE refetching}
    /\ UNCHANGED <<operations, hydrated, mounted, leaving, ipcVars, document, waiters, disk,
                   saved, backendVars, historyVars, faults>>

---------------------------------------------------------------------------
(* The world                                                               *)

\* Another client deletes the Flow.
DeleteFlow(f) ==
    /\ f \notin gone
    /\ gone' = gone \cup {f}
    /\ UNCHANGED <<rendererVars, pageVars, ipcVars, mainVars, applied, historyVars, faultVars>>

ResetRenderer ==
    /\ crashes < MaxCrashes /\ crashes' = crashes + 1
    /\ operations' = [f \in Flows |-> <<>>]
    /\ timers' = {} /\ flushing' = [f \in Flows |-> Idle]
    /\ hydrated' = "no" /\ persistence' = [f \in Flows |-> 0]
    /\ mounted' = 0 /\ leaving' = {} /\ refetching' = {}
    /\ requests' = <<>> /\ loaded' = <<>>
    /\ UNCHANGED <<backendVars, edits, dropped, mounts, faultVars>>

\* The renderer crashes or is reloaded; the main process goes on.
Reload ==
    /\ ResetRenderer
    /\ lost' = lost \cup (AllCovered(operations) \ (saved \cup AllCovered(document)))
    /\ UNCHANGED mainVars

\* The program crashes: the file is all that is left.
Crash ==
    /\ ResetRenderer
    /\ lost' = lost \cup ((AllCovered(operations) \cup AllCovered(document)) \ saved)
    /\ document' = disk /\ waiters' = {} /\ writes' = <<>>
    /\ UNCHANGED <<disk, saved>>

RendererStep(f) ==
    Loaded(f) \/ Persisted(f) \/ Acknowledge(f) \/ Refetched(f)

MainStep == HandleLoad \/ HandleReplace \/ WriteTimer \/ WriteDone

Next ==
    \/ Connect \/ Unmount \/ LoadAnswered \/ MainStep \/ WriteFails \/ Reload \/ Crash
    \/ \E c \in leaving : Disconnect(c)
    \/ \E f \in Flows :
          \/ RendererStep(f) \/ TimerFires(f) \/ Flush(f) \/ Apply(f) \/ Discard(f)
          \/ CommitFails(f) \/ DeleteFlow(f)
          \/ \E kind \in MergeKinds : Enqueue(f, kind)

Spec == Init /\ [][Next]_vars

\* The event loops run what is ready and the backend answers.  A controller
\* is mounted again once the last one has gone.
Fairness ==
    /\ WF_vars(MainStep) /\ WF_vars(LoadAnswered) /\ WF_vars(mounted = 0 /\ Connect)
    /\ \A f \in Flows : /\ WF_vars(RendererStep(f)) /\ WF_vars(TimerFires(f))
                        /\ WF_vars(Apply(f) \/ Discard(f))

FairSpec == Spec /\ Fairness

\* The stored operations are loaded before the first edit.
Patient == edits' # edits => hydrated = "done"

PatientSpec == Init /\ [][Next /\ Patient]_vars

---------------------------------------------------------------------------
(* Properties                                                              *)

\* An edit that was made is applied by the backend, or the renderer still has
\* it to commit, or the disk has it for the renderer to load, unless its Flow
\* is deleted or a crash came before it was saved: whatever was merged into
\* it, answered late or lost on the way.
Stored == AllCovered(document) \cup (IF loaded = <<>> THEN {} ELSE AllCovered(loaded[1]))

NoEditVanishes ==
    0..edits \subseteq applied \cup dropped \cup lost \cup AllCovered(operations)
                       \cup (IF hydrated = "done" THEN {} ELSE Stored)

\* Once nothing is on its way, the disk has exactly what is to be committed.
\* (A write that failed leaves it behind until the next save.)
MainQuiet == requests = <<>> /\ waiters = {} /\ writes = <<>>

DiskFollowsMemory ==
    hydrated = "done" /\ MainQuiet /\ writeFaults = 0
        => disk = operations

\* Every edit reaches the backend, whatever fails meanwhile.
EditsArrive ==
    \A e \in Edits : e \in 0..edits ~> e \in applied \cup dropped \cup lost

\* A batch is sent to the backend only once it is on disk.
PersistedBeforeSent ==
    [][\A f \in Flows : flushing[f].phase = "persist" /\ flushing'[f].phase = "sent"
          => Covered(flushing'[f].batch) \subseteq saved]_vars
=============================================================================

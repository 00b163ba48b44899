----------------------------- MODULE FlowEdits -----------------------------
(***************************************************************************)
(* Editing a Flow optimistically: useHomeFlowController.ts applies every    *)
(* operation to the document on the screen and hands it to                 *)
(* FlowOperationOutbox (domain/flow/flow-operation-outbox.ts), which merges *)
(* it into the operations that are still to be committed.                   *)
(*                                                                          *)
(* A node has the layout that node.create does not carry (the code has a    *)
(* size and a collapsed state) and the keys of its configuration.  A command *)
(* is one operation: commands of several (a deleted selection, a paste) and  *)
(* the order of their inverses are left out.                                 *)
(***************************************************************************)
EXTENDS Naturals, Sequences, SequencesExt

CONSTANTS
    Nodes,        \* identities of nodes
    Layouts,      \* layouts a node can be given
    Default,      \* the layout node.create gives
    Keys,         \* keys a configuration can have
    MaxHistory,   \* commands that can be undone (100)
    MaxMutations  \* operations made (bound)

ASSUME DefaultAssumption == Default \in Layouts
ASSUME HistoryAssumption == MaxHistory \in Nat \ {0}
ASSUME MutationsAssumption == MaxMutations \in Nat

VARIABLES
    server,    \* the document as the backend has it
    shown,     \* snapshotRef: the document on the screen
    pending,   \* operations of the outbox, the oldest first
    inflight,  \* the batch the backend has been sent
    undo,      \* undoStackRef
    redo,      \* redoStackRef
    made       \* operations made so far: the last mutationId

editorVars == <<server, shown, pending, inflight, undo, redo, made>>

Absent == [layout |-> Default, config |-> {}, exists |-> FALSE]
Node == [layout : Layouts, config : SUBSET Keys, exists : BOOLEAN]
Document == [Nodes -> Node]

FlowOperation == [id : 0..MaxMutations, kind : {"create", "delete", "layout", "update"},
                  node : Nodes, layout : Layouts, config : SUBSET Keys]
Command == [undo : Seq(FlowOperation), redo : Seq(FlowOperation), group : {"none"} \cup Nodes]

EditorTypeOK ==
    /\ server \in Document /\ shown \in Document
    /\ pending \in Seq(FlowOperation) /\ inflight \in Seq(FlowOperation)
    /\ undo \in Seq(Command) /\ redo \in Seq(Command)
    /\ made \in 0..MaxMutations

EditorInit ==
    /\ server \in {[n \in Nodes |-> [Absent EXCEPT !.exists = n \in present]] :
                       present \in SUBSET Nodes}
    /\ shown = server
    /\ pending = <<>> /\ inflight = <<>>
    /\ undo = <<>> /\ redo = <<>> /\ made = 0

---------------------------------------------------------------------------
(* Operations on a document                                                *)

Op(kind, n, layout, config) ==
    [id |-> 0, kind |-> kind, node |-> n, layout |-> layout, config |-> config]

\* applyFlowOperation: an operation on a node that is gone does nothing.
ApplyOperation(doc, op) ==
    [doc EXCEPT ![op.node] =
        CASE op.kind = "create" -> [layout |-> Default, config |-> op.config, exists |-> TRUE]
          [] op.kind = "delete" -> Absent
          [] op.kind = "layout" /\ @.exists -> [@ EXCEPT !.layout = op.layout]
          [] op.kind = "update" /\ @.exists -> [@ EXCEPT !.config = op.config]
          [] OTHER -> @]

\* What ops make of a document, one after the other.
Replay(doc, ops) ==
    LET after[k \in 0..Len(ops)] ==
            IF k = 0 THEN doc ELSE ApplyOperation(after[k - 1], ops[k])
    IN  after[Len(ops)]

BadInverseOf(doc, op) ==
    LET n == op.node
        old == doc[n]
    IN  IF op.kind # "create" /\ ~old.exists THEN <<>> ELSE
        CASE op.kind = "create" -> <<Op("delete", n, Default, {})>>
          [] op.kind = "delete" -> <<Op("create", n, Default, old.config)>>
          [] op.kind = "layout" -> <<Op("layout", n, old.layout, {})>>
          [] op.kind = "update" -> <<Op("update", n, Default, old.config)>>

\* inverseFlowOperations: what takes doc back to where it is before op.
InverseOf(doc, op) ==
    LET n == op.node
        old == doc[n]
    IN  IF op.kind # "create" /\ ~old.exists THEN <<>> ELSE
        CASE op.kind = "create" -> <<Op("delete", n, Default, {})>>
          [] op.kind = "delete" -> <<Op("create", n, Default, old.config),
                                     Op("layout", n, old.layout, {})>>
          [] op.kind = "layout" -> <<Op("layout", n, old.layout, {})>>
          [] op.kind = "update" -> <<Op("update", n, Default, old.config)>>

---------------------------------------------------------------------------
(* FlowOperationOutbox                                                     *)

\* mergeAdjacentNodeUpdate: an update right behind an update of the same node
\* is merged with it, key by key.
Adjacent(ops, op) ==
    op.kind = "update" /\ ops # <<>>
        /\ Last(ops).kind = "update" /\ Last(ops).node = op.node

\* operationMergeKey: a layout takes the place of the one the node has pending.
SameKey(ops, op) ==
    {i \in DOMAIN ops : op.kind = "layout" /\ ops[i].kind = "layout"
                        /\ ops[i].node = op.node}

Merge(ops, op) ==
    IF Adjacent(ops, op)
    THEN Append(Front(ops), [op EXCEPT !.config = @ \cup Last(ops).config])
    ELSE IF SameKey(ops, op) # {}
    THEN [ops EXCEPT ![CHOOSE i \in SameKey(ops, op) : TRUE] = op]
    ELSE Append(ops, op)

Enqueued(queue, ops) ==
    LET after[k \in 0..Len(ops)] == IF k = 0 THEN queue ELSE Merge(after[k - 1], ops[k])
    IN  after[Len(ops)]

\* What is left of ops when the backend has accepted the mutations of batch.
BadUncommitted(ops, batch) == SubSeq(ops, Len(batch) + 1, Len(ops))

Uncommitted(ops, batch) ==
    LET accepted == {batch[i].id : i \in DOMAIN batch}
        kept[n \in 0..Len(ops)] ==
            IF n = 0 THEN <<>>
            ELSE IF ops[n].id \in accepted THEN kept[n - 1]
            ELSE Append(kept[n - 1], ops[n])
    IN  kept[Len(ops)]

---------------------------------------------------------------------------
(* The editor                                                              *)

\* Each operation gets a mutationId of its own.
Numbered(ops) == [i \in DOMAIN ops |-> [ops[i] EXCEPT !.id = made + i]]

\* applyOperations: the operations reach the document and the outbox.
Make(ops) ==
    /\ made + Len(ops) <= MaxMutations
    /\ made' = made + Len(ops)
    /\ shown' = Replay(shown, Numbered(ops))
    /\ pending' = Enqueued(pending, Numbered(ops))
    /\ UNCHANGED <<server, inflight>>

\* The history that stays when a command joins it: the oldest one may have to go.
Recent(stack) ==
    IF Len(stack) < MaxHistory THEN stack
    ELSE SubSeq(stack, Len(stack) - MaxHistory + 2, Len(stack))

\* One operation of the user.  A command of the group the last one belongs to
\* joins it: the undo of the first, the redo of the last.
Edit(op, group) ==
    /\ Make(<<op>>)
    /\ LET inverse == InverseOf(shown, op) IN
       undo' = IF undo # <<>> /\ group # "none" /\ Last(undo).group = group
               THEN Append(Front(undo), [Last(undo) EXCEPT !.redo = <<op>>])
               ELSE Append(Recent(undo), [undo |-> inverse, redo |-> <<op>>, group |-> group])
    /\ redo' = <<>>

Create(n, config)      == ~shown[n].exists /\ Edit(Op("create", n, Default, config), "none")
Delete(n)              == shown[n].exists /\ Edit(Op("delete", n, Default, {}), "none")
Arrange(n, layout)     == /\ shown[n].exists /\ layout # shown[n].layout
                          /\ Edit(Op("layout", n, layout, {}), "none")
Update(n, config)      == /\ shown[n].exists /\ config # shown[n].config
                          /\ \E group \in {"none", n} :
                                Edit(Op("update", n, Default, config), group)

\* replayHistory
Undo ==
    /\ undo # <<>>
    /\ Make(Last(undo).undo)
    /\ undo' = Front(undo) /\ redo' = Append(redo, Last(undo))

Redo ==
    /\ redo # <<>>
    /\ Make(Last(redo).redo)
    /\ redo' = Front(redo) /\ undo' = Append(undo, Last(redo))

\* flushNow sends all that is pending, ...
Send ==
    /\ inflight = <<>> /\ pending # <<>>
    /\ inflight' = pending
    /\ UNCHANGED <<server, shown, pending, undo, redo, made>>

\* ... and takes out of the outbox what the backend has accepted.
Commit ==
    /\ inflight # <<>>
    /\ server' = Replay(server, inflight)
    /\ pending' = Uncommitted(pending, inflight)
    /\ inflight' = <<>>
    /\ UNCHANGED <<shown, undo, redo, made>>

Change(n) ==
    \/ Delete(n)
    \/ \E config \in SUBSET Keys : Create(n, config) \/ Update(n, config)
    \/ \E layout \in Layouts : Arrange(n, layout)

EditorNext == (\E n \in Nodes : Change(n)) \/ Undo \/ Redo \/ Send \/ Commit

EditorSpec == EditorInit /\ [][EditorNext]_editorVars

\* A node does not come back while a layout it had is pending, and an update
\* that is merged with the one before it drops no key.
Growing ==
    \A n \in Nodes :
        /\ ~shown[n].exists /\ shown'[n].exists
              => \A i \in DOMAIN pending : pending[i].node = n => pending[i].kind # "layout"
        /\ Adjacent(pending, Op("update", n, Default, {})) /\ shown'[n].exists
              => shown[n].config \subseteq shown'[n].config

GrowingSpec == EditorInit /\ [][EditorNext /\ Growing]_editorVars

---------------------------------------------------------------------------
(* Properties                                                              *)

\* What the backend will have once it has taken all that is pending is what
\* the user sees: merging operations, also with some in flight, keeps their
\* meaning.
MergedMeansTheSame == Replay(Replay(server, inflight), Uncommitted(pending, inflight)) = shown

\* With nothing left to commit, the backend has what the user sees.
CommittedIsShown == pending = <<>> => server = shown

\* Undo takes the document to where redo finds it again, and redo to where
\* undo finds it, also for commands that were grouped and after any number of
\* undos and redos.
UndoThenRedo ==
    /\ undo # <<>> =>
         LET before == Replay(shown, Last(undo).undo)
         IN  Replay(before, Last(undo).redo) = shown
    /\ redo # <<>> =>
         LET after == Replay(shown, Last(redo).redo)
         IN  Replay(after, Last(redo).undo) = shown
=============================================================================

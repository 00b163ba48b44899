-------------------------- MODULE SessionNavigation --------------------------
(***************************************************************************)
(* The main window's way from one session to another: selections, the home  *)
(* of new sessions, the history, forks (features/session/controllers),      *)
(* what the user adds to a session on the way (features/workspace,          *)
(* features/workbench) and the messages that he sends (features/composer).  *)
(*                                                                         *)
(* A connection to the backend has one current session, the one opened or   *)
(* created on it last.  Patches of the workbench and messages name no       *)
(* session: they go to the current one.  The backend is external; it takes  *)
(* the requests of a connection, and answers them, in their order.          *)
(*                                                                         *)
(* Every handler is an operation that runs from await to await; a version   *)
(* tells it whether the user has navigated since.  A patch is sent at once:  *)
(* the 220 ms for which the code gathers patches, and the await of those     *)
(* that are gathered before a navigation, are left out.                      *)
(***************************************************************************)
EXTENDS Naturals, Sequences, FiniteSets

CONSTANTS
    Sessions,  \* the sessions there are at first
    Flows,     \* those of them whose surface is a flow
    News,      \* the sessions that can be created (bound)
    Ops,       \* the handlers that the user can start (bound)
    Reopens,   \* the reconnections, each with the handler it starts (bound)
    None

ASSUME FlowsAssumption == Flows \subseteq Sessions
ASSUME SlotsAssumption == IsFiniteSet(Ops) /\ IsFiniteSet(Reopens) /\ Ops \cap Reopens = {}
ASSUME NewsAssumption == IsFiniteSet(News) /\ News \cap Sessions = {}
ASSUME NoneAssumption == None \notin Sessions \cup News \cup Ops \cup Reopens

VARIABLES
    nav,   \* what the window shows, and the refs the handlers share
    ops,   \* the handlers, each at one of its awaits
    link   \* the connection and the backend behind it

vars == <<nav, ops, link>>

Slots == Ops \cup Reopens
Ids == Sessions \cup News

Kinds == {"none", "select", "home", "history", "fork", "context", "image", "paste",
          "send", "submit", "reopen", "restore"}

\* The awaits are named for the request whose answer they wait for; "joined"
\* waits for the creation that another handler has begun.
Awaits == {"delete", "list", "peek", "open", "fork", "create", "joined", "save",
           "patch", "queued", "clear", "submit"}

\* A handler: the version it captured, the session it is for, the session
\* that the user was in when he added something (own), and the temporary
\* session that it leaves behind (held).  With bare it knows only the id.
Op == [kind : Kinds, pc : Awaits \cup {"idle", "done", "failed"}, version : Nat,
       session : Ids \cup {None}, own : Ids \cup {None}, held : Ids \cup {None},
       bare : BOOLEAN]

\* The refs and the React states: navigationVersion, activeSessionId, the
\* session whose workbench is shown and whether it has additional context,
\* isNewSessionHome, activeSessionMetadata.temporary,
\* temporaryDraftSessionId, temporarySessionCreation; and, as history, the
\* handler that last took the user somewhere (wanted).
Nav == [version : Nat, active : Ids \cup {None}, shown : Ids \cup {None},
        filled : BOOLEAN, home : BOOLEAN, temporary : BOOLEAN,
        draft : Ids \cup {None}, creator : Slots \cup {None},
        wanted : Ops \cup {None}]

Request == [op : Slots, kind : Awaits \cup {"chat"}, session : Ids \cup {None},
            own : Ids \cup {None}]
Reply == [op : Slots, ok : BOOLEAN, session : Ids \cup {None}, filled : BOOLEAN]

Idle == [kind |-> "none", pc |-> "idle", version |-> 0, session |-> None,
         own |-> None, held |-> None, bare |-> FALSE]

\* The window starts at the home of new sessions.
Init ==
    /\ nav = [version |-> 0, active |-> None, shown |-> None, filled |-> FALSE,
              home |-> TRUE, temporary |-> FALSE, draft |-> None, creator |-> None,
              wanted |-> None]
    /\ ops = [o \in Slots |-> Idle]
    /\ link = [up |-> TRUE, current |-> None, exists |-> Sessions, temps |-> {},
               filled |-> {}, made |-> {}, requests |-> <<>>, answers |-> <<>>]

----------------------------------------------------------------------------
(* Handlers and requests.                                                  *)

\* The creation that others had joined is over: they go on before anything
\* else happens.
Waiting == {o \in Slots : ops[o].pc = "joined" /\ nav.creator = None}

\* A handler begins, with the scope there is now.
Began(o, kind) ==
    [Idle EXCEPT !.kind = kind, !.version = nav.version,
                 !.held = IF nav.temporary THEN nav.active ELSE None]

Free(o) == Waiting = {} /\ ops[o].pc = "idle"

Becomes(o, op) == ops' = [ops EXCEPT ![o] = op]

Ends(o, op, pc) == Becomes(o, [op EXCEPT !.pc = pc])

Asked(l, o, kind, session, own) ==
    [l EXCEPT !.requests =
        Append(@, [op |-> o, kind |-> kind, session |-> session, own |-> own])]

\* The handler asks the backend for something and waits for the answer.
Asks(o, op, l, kind, session) ==
    /\ Becomes(o, [op EXCEPT !.pc = kind])
    /\ link' = Asked(l, o, kind, session, op.own)

\* The answer that comes in is for this handler.
Heard(o, pc) ==
    /\ Waiting = {} /\ link.answers # <<>>
    /\ Head(link.answers).op = o /\ ops[o].pc = pc

Answer == Head(link.answers)
Took == [link EXCEPT !.answers = Tail(@)]

\* navigationVersionRef and activeSessionIdRef are still those of the handler.
InScope(o) == nav.version = ops[o].version /\ nav.active = ops[o].session

\* navigationVersionRef.current += 1.
Moved(n) == [n EXCEPT !.version = @ + 1]

\* beginLocalNewSessionDraft: the home of new sessions, without a session.
AtHome(n) ==
    [Moved(n) EXCEPT !.draft = None, !.active = None, !.temporary = FALSE,
                     !.home = TRUE, !.shown = None, !.filled = FALSE]

\* A session that was created on this connection is shown at once.
Entered(n, s, home) ==
    [n EXCEPT !.active = s, !.shown = s, !.filled = FALSE, !.home = home,
              !.temporary = home, !.draft = IF home THEN s ELSE @]

----------------------------------------------------------------------------
(* Selections, forks, and the home of new sessions.                        *)

\* handleSessionSelect after its awaits: the session becomes the active one,
\* nothing of it is shown, and it is opened.
Opens(o, op, n, l) ==
    /\ nav' = [n EXCEPT !.active = op.session, !.home = FALSE, !.shown = None,
                        !.filled = FALSE,
                        !.temporary = ~op.bare /\ op.session \in l.temps]
    /\ Asks(o, op, l, "open", op.session)

Goes(o, op, n, l) ==
    IF op.kind = "fork"
    THEN nav' = n /\ Asks(o, op, l, "fork", op.session)
    ELSE Opens(o, op, n, l)

\* discardTemporarySessionIfEmpty: a temporary session with a text (which is
\* not modelled) or with context is kept as the draft, an empty one is
\* deleted first.
Leaves(o, op, n, l) ==
    \/ op.held = None /\ Goes(o, op, n, l)
    \/ op.held # None /\ Goes(o, op, [n EXCEPT !.draft = op.held], l)
    \/ /\ op.held # None /\ ~n.filled
       /\ nav' = [n EXCEPT !.draft = None]
       /\ Asks(o, op, l, "delete", op.held)

Selected(o, op, n, l) == Leaves(o, [op EXCEPT !.version = n.version + 1], Moved(n), l)

Select(o, s) ==
    /\ Free(o) /\ s \in link.exists \ (link.temps \cup Flows)
    /\ Selected(o, [Began(o, "select") EXCEPT !.session = s],
                [nav EXCEPT !.wanted = o], link)

\* The empty temporary session is deleted, or could not be.
Discarded(o) ==
    /\ Heard(o, "delete")
    /\ IF ops[o].kind \in {"home", "restore"}
       THEN Ends(o, ops[o], "done") /\ link' = Took /\ UNCHANGED nav
       ELSE Goes(o, ops[o], nav, Took)

\* The content is shown if the user has not gone elsewhere.  A draft that
\* the home restores is shown there, whatever became of the selection.
Opened(o) ==
    /\ Heard(o, "open") /\ ops[o].kind # "restore"
    /\ LET n == IF Answer.ok /\ InScope(o)
                THEN [nav EXCEPT !.shown = ops[o].session, !.filled = Answer.filled,
                                 !.temporary = ops[o].session \in link.temps]
                ELSE nav
       IN  nav' = [n EXCEPT !.home = @ \/ ops[o].kind = "home"]
    /\ Ends(o, ops[o], IF Answer.ok THEN "done" ELSE "failed")
    /\ link' = Took

\* handleSessionFork, one at a time; the version changes with the answer.
Fork(o, s) ==
    /\ Free(o) /\ s \in link.exists \ link.temps
    /\ \A p \in Slots : ops[p].kind = "fork" => ops[p].pc \in {"done", "failed"}
    /\ Leaves(o, [Began(o, "fork") EXCEPT !.session = s], [nav EXCEPT !.wanted = o], link)

Forked(o) ==
    /\ Heard(o, "fork")
    /\ IF Answer.ok
       THEN /\ nav' = Entered(Moved(nav), Answer.session, FALSE)
            /\ Ends(o, [ops[o] EXCEPT !.session = Answer.session], "done")
       ELSE UNCHANGED nav /\ Ends(o, ops[o], "failed")
    /\ link' = Took

\* handleNewSession and handleNewWorkspaceSession.  A temporary session is
\* deleted; a draft kept from before is looked up and opened again, or, when
\* the home is to be fresh, deleted.
NewSession(o, fresh) ==
    LET n == [nav EXCEPT !.wanted = o]
        op == [Began(o, "home") EXCEPT !.held = None]
        stale == IF nav.temporary THEN nav.active ELSE nav.draft
    IN  /\ Free(o)
        /\ IF ~nav.temporary /\ nav.draft # None /\ ~fresh
           THEN nav' = n /\ Asks(o, [op EXCEPT !.session = nav.draft], link, "list", nav.draft)
           ELSE /\ nav' = AtHome(n)
                /\ IF stale # None THEN Asks(o, op, link, "delete", stale)
                   ELSE Ends(o, op, "done") /\ UNCHANGED link

\* restoreTemporaryDraftOnNewSessionHome.  A list that cannot be read is no
\* proof that the draft is gone.
HomeListed(o) ==
    /\ Heard(o, "list") /\ ops[o].kind = "home"
    /\ IF Answer.ok /\ Answer.session = None
       THEN nav' = AtHome(nav) /\ Ends(o, ops[o], "done") /\ link' = Took
       ELSE Selected(o, [ops[o] EXCEPT !.bare = ~Answer.ok], nav, Took)

\* A step in the history of sessions, a notification or a link.
History(o, s) ==
    /\ Free(o) /\ s \in Sessions /\ s # nav.active
    /\ nav' = [nav EXCEPT !.wanted = o]
    /\ Asks(o, [Began(o, "history") EXCEPT !.session = s], link, "list", s)

\* A session of the list is selected; one with a flow, or one that the list
\* lacks, is opened to learn what it is.
HistoryListed(o) ==
    /\ Heard(o, "list") /\ ops[o].kind = "history"
    /\ LET listed == Answer.session # None /\ ops[o].session \notin Flows
       IN  \/ ~Answer.ok /\ Ends(o, ops[o], "failed") /\ link' = Took /\ UNCHANGED nav
           \/ Answer.ok /\ listed /\ Selected(o, ops[o], nav, Took)
           \/ /\ Answer.ok /\ ~listed /\ UNCHANGED nav
              /\ Asks(o, ops[o], Took, "peek", ops[o].session)

Peeked(o) ==
    /\ Heard(o, "peek")
    /\ IF Answer.ok THEN Selected(o, ops[o], nav, Took)
       ELSE Ends(o, ops[o], "failed") /\ link' = Took /\ UNCHANGED nav

----------------------------------------------------------------------------
(* What is added to a session.                                             *)

\* createTemporarySession: one creation at a time, further callers join it.
Ensures(o, op, l) ==
    IF nav.creator = None
    THEN nav' = [nav EXCEPT !.creator = o] /\ Asks(o, op, l, "create", None)
    ELSE UNCHANGED nav /\ Ends(o, op, "joined") /\ link' = l

\* patchContextForCurrentSession: at once in an open session, at the home
\* after a session was created for it.  Without a session the window is at
\* the home.
Patches(o, op, l) ==
    IF nav.active # None THEN UNCHANGED nav /\ Asks(o, op, l, "queued", None)
    ELSE nav.home /\ Ensures(o, op, l)

Context(o) ==
    /\ Free(o)
    /\ Patches(o, [Began(o, "context") EXCEPT !.own = nav.active], link)

\* An image, or a long text that is pasted: saved first, then added.
Attach(o, kind) ==
    LET op == [Began(o, kind) EXCEPT !.own = nav.active, !.session = nav.active]
    IN  /\ Free(o)
        /\ \/ nav.active # None /\ UNCHANGED nav /\ Asks(o, op, link, "save", nav.active)
           \/ nav.active = None /\ nav.home /\ Ensures(o, op, link)

\* After the creation: a context patch and an image go on only in the scope
\* they began in, a pasted text goes on in whatever session is active.
Continues(o, op, n, l) ==
    LET same == n.version = op.version
        own == IF same THEN n.active ELSE op.own
        next == [op EXCEPT !.session = n.active, !.own = own]
    IN  IF n.active = None \/ (op.kind # "paste" /\ ~same)
        THEN Ends(o, op, "failed") /\ link' = l
        ELSE Asks(o, next, l, IF op.kind = "context" THEN "patch" ELSE "save", n.active)

\* A mutant: it becomes the active one wherever the user is.
BadArrived ==
    IF Answer.ok THEN Entered([nav EXCEPT !.creator = None], Answer.session, TRUE)
    ELSE [nav EXCEPT !.creator = None]

\* The created session becomes the active one unless the user went on.
Arrived ==
    LET n == [nav EXCEPT !.creator = None]
    IN  IF Answer.ok /\ nav.version = ops[nav.creator].version
        THEN Entered(n, Answer.session, TRUE) ELSE n

Created(o) ==
    /\ Heard(o, "create")
    /\ nav' = Arrived
    /\ IF Answer.ok THEN Continues(o, ops[o], Arrived, Took)
       ELSE /\ ops' = [p \in Slots |-> IF p = o \/ ops[p].pc = "joined"
                                       THEN [ops[p] EXCEPT !.pc = "failed"] ELSE ops[p]]
            /\ link' = Took

Join(o) == o \in Waiting /\ UNCHANGED nav /\ Continues(o, ops[o], nav, link)

\* A mutant: the scope of an image is not checked again after it was saved.
BadSaved(o) ==
    /\ Heard(o, "save")
    /\ \/ Answer.ok /\ ops[o].kind = "paste" /\ Patches(o, [ops[o] EXCEPT
              !.kind = "context", !.version = nav.version], Took)
       \/ Answer.ok /\ ops[o].kind = "image" /\ UNCHANGED nav
          /\ Asks(o, ops[o], Took, "patch", None)
       \/ ~Answer.ok /\ Ends(o, ops[o], "failed") /\ link' = Took /\ UNCHANGED nav

\* What was saved is added to the session: a pasted text to the one that is
\* active now, an image only in the scope it began in.
Saved(o) ==
    /\ Heard(o, "save")
    /\ \/ Answer.ok /\ ops[o].kind = "paste" /\ Patches(o, [ops[o] EXCEPT
              !.kind = "context", !.version = nav.version], Took)
       \/ /\ Answer.ok /\ ops[o].kind = "image" /\ InScope(o) /\ UNCHANGED nav
          /\ Asks(o, ops[o], Took, "patch", None)
       \/ /\ ~Answer.ok \/ (ops[o].kind = "image" /\ ~InScope(o))
          /\ Ends(o, ops[o], "failed") /\ link' = Took /\ UNCHANGED nav

\* applyWorkbench: the revisions of two sessions have nothing to do with each
\* other, so that either may be the higher one.
Applied(s, filled) ==
    \E newer \in BOOLEAN :
        nav' = IF newer \/ nav.shown \in {None, s}
               THEN [nav EXCEPT !.shown = s, !.filled = filled] ELSE nav

\* A patch that checks its scope applies the result only in it, and only if it
\* is that of its session.
Patched(o) ==
    /\ Heard(o, "patch")
    /\ IF Answer.ok /\ InScope(o) /\ Answer.session = ops[o].session
       THEN Applied(Answer.session, Answer.filled) /\ Ends(o, ops[o], "done")
       ELSE UNCHANGED nav /\ Ends(o, ops[o], "failed")
    /\ link' = Took

\* One that was sent at once does not.
Flushed(o) ==
    /\ Heard(o, "queued")
    /\ IF Answer.ok THEN Applied(Answer.session, Answer.filled) ELSE UNCHANGED nav
    /\ Ends(o, ops[o], IF Answer.ok THEN "done" ELSE "failed")
    /\ link' = Took

----------------------------------------------------------------------------
(* Messages.                                                               *)

\* handleComposerSubmit in a session: the context is cleared, then the
\* message goes.  At the home a temporary session becomes an ordinary one.
Send(o) ==
    /\ Free(o) /\ nav.active # None /\ nav.shown # None
    /\ nav' = [nav EXCEPT !.filled = FALSE, !.home = FALSE,
                          !.temporary = @ /\ ~nav.home,
                          !.draft = IF nav.home THEN None ELSE @,
                          !.wanted = IF nav.home THEN o ELSE @]
    /\ Asks(o, [Began(o, "send") EXCEPT !.own = nav.active, !.session = nav.active],
            link, "clear", None)

\* When it fails, the context that was sent along is shown again.
Cleared(o) ==
    /\ Heard(o, "clear")
    /\ IF Answer.ok
       THEN /\ Ends(o, ops[o], "done") /\ UNCHANGED nav
            /\ link' = Asked(Took, o, "chat", None, ops[o].own)
       ELSE /\ Ends(o, ops[o], "failed") /\ link' = Took
            /\ \E filled \in BOOLEAN : nav' = [nav EXCEPT !.filled = nav.shown # None /\ filled]

\* handleHomeComposerSubmit: a session is created for the message, which
\* becomes the active one whatever the user did in the meantime.
Submit(o) ==
    /\ Free(o) /\ nav.home /\ nav.active = None
    /\ \A p \in Slots : ops[p].pc # "submit"
    /\ nav' = [nav EXCEPT !.wanted = o]
    /\ Asks(o, Began(o, "submit"), link, "submit", None)

Submitted(o) ==
    /\ Heard(o, "submit")
    /\ IF Answer.ok
       THEN /\ nav' = Entered(nav, Answer.session, FALSE)
            /\ Ends(o, [ops[o] EXCEPT !.session = Answer.session], "done")
            /\ link' = Asked(Took, o, "chat", None, Answer.session)
       ELSE /\ nav' = [nav EXCEPT !.home = TRUE]
            /\ Ends(o, ops[o], "failed") /\ link' = Took

----------------------------------------------------------------------------
(* The backend and the connection.                                         *)

Fresh(l) == CHOOSE s \in News \ l.made : TRUE

\* What a request does to the backend.
Effect(q, l) ==
    LET made == [l EXCEPT !.current = Fresh(l), !.made = @ \cup {Fresh(l)},
                          !.exists = @ \cup {Fresh(l)}]
    IN  CASE q.kind \in {"open", "peek"} /\ q.session \in l.exists ->
                 [l EXCEPT !.current = q.session]
          [] q.kind = "fork" /\ q.session \in l.exists -> made
          [] q.kind = "submit" -> made
          [] q.kind = "create" -> [made EXCEPT !.temps = @ \cup {Fresh(l)}]
          [] q.kind = "delete" -> [l EXCEPT !.exists = @ \ {q.session}]
          [] q.kind \in {"queued", "patch"} /\ l.current \in l.exists ->
                 [l EXCEPT !.filled = @ \cup {l.current}]
          [] q.kind = "clear" -> [l EXCEPT !.filled = @ \ {l.current}]
          [] q.kind = "chat" -> [l EXCEPT !.temps = @ \ {l.current}]
          [] OTHER -> l

\* What it answers: an attachment is saved for the current session only, a
\* list says whether the session is in it.
Replied(q, l) ==
    LET e == Effect(q, l)
        ok == CASE q.kind \in {"open", "peek", "fork"} -> q.session \in l.exists
                [] q.kind = "save" -> q.session = l.current /\ l.current \in l.exists
                [] q.kind \in {"queued", "patch", "clear"} -> l.current \in l.exists
                [] OTHER -> TRUE
        about == CASE q.kind = "list" -> IF q.session \in l.exists THEN q.session ELSE None
                   [] q.kind \in {"delete", "save"} -> q.session
                   [] OTHER -> e.current
    IN  [op |-> q.op, ok |-> ok, session |-> IF ok THEN about ELSE None,
         filled |-> about \in e.filled]

\* A message is answered when its run ends, which nothing here waits for.
Handle ==
    /\ Waiting = {} /\ link.up /\ link.requests # <<>>
    /\ LET q == Head(link.requests)
           reply == IF q.kind = "chat" THEN <<>> ELSE <<Replied(q, link)>>
       IN  /\ q.kind \in {"create", "submit", "fork"} => News \ link.made # {}
           /\ link' = [Effect(q, link) EXCEPT !.requests = Tail(@), !.answers = @ \o reply]
    /\ UNCHANGED <<nav, ops>>

\* Another client of the backend deletes the draft that was kept.
DeleteDraft ==
    /\ nav.draft \in link.exists \ {nav.active}
    /\ link' = [link EXCEPT !.exists = @ \ {nav.draft}]
    /\ UNCHANGED <<nav, ops>>

\* The connection is lost, and with it every request that was not answered.
Drop ==
    /\ Waiting = {} /\ link.up /\ \E o \in Reopens : ops[o].pc = "idle"
    /\ LET open == SelectSeq(link.requests, LAMBDA q : q.kind # "chat")
           fails == [i \in 1 .. Len(link.answers) + Len(open) |->
               [op |-> (link.answers \o open)[i].op, ok |-> FALSE, session |-> None,
                filled |-> FALSE]]
       IN  link' = [link EXCEPT !.up = FALSE, !.current = None, !.requests = <<>>,
                                !.answers = fails]
    /\ UNCHANGED <<nav, ops>>

\* The requests that waited for the connection are sent; one that checks its
\* scope before it is sent may find it changed.
Outdated(q) ==
    /\ q.kind = "patch" \/ (q.kind = "save" /\ ops[q.op].kind = "image")
    /\ ~InScope(q.op)

\* A mutant: the active session is not opened again.
BadReconnect(o) ==
    /\ Free(o) /\ ~link.up /\ link.answers = <<>>
    /\ Becomes(o, [Began(o, "reopen") EXCEPT !.pc = "done"]) /\ UNCHANGED nav
    /\ link' = [link EXCEPT !.up = TRUE]

\* The new connection has no current session: the active one is opened again.
Reconnect(o) ==
    LET waiting == {q.op : q \in {w \in {link.requests[i] : i \in DOMAIN link.requests} :
                                     Outdated(w)}}
        kept == SelectSeq(link.requests, LAMBDA q : ~Outdated(q))
        op == [Began(o, IF nav.temporary THEN "restore" ELSE "reopen") EXCEPT
                  !.session = nav.active, !.held = None, !.bare = TRUE,
                  !.version = IF nav.temporary THEN @ ELSE @ + 1,
                  !.pc = IF nav.active = None THEN "done" ELSE "open"]
        again == <<[op |-> o, kind |-> "open", session |-> nav.active, own |-> None]>>
    IN  /\ Free(o) /\ ~link.up /\ link.answers = <<>>
        /\ ops' = [p \in Slots |-> IF p = o THEN op
                                   ELSE IF p \in waiting THEN [ops[p] EXCEPT !.pc = "failed"]
                                   ELSE ops[p]]
        /\ nav' = IF nav.active = None \/ nav.temporary THEN nav
                  ELSE [Moved(nav) EXCEPT !.home = FALSE, !.shown = None, !.filled = FALSE]
        /\ \E requests \in IF nav.active = None THEN {kept} ELSE {kept \o again, again \o kept} :
               link' = [link EXCEPT !.up = TRUE, !.requests = requests]

\* restoreMaterializedHomeDraftSession: a draft that is gone gives way to an
\* empty home, and is deleted for good.
Restored(o) ==
    /\ Heard(o, "open") /\ ops[o].kind = "restore"
    /\ IF Answer.ok
       THEN /\ nav' = IF nav.active # ops[o].session THEN nav
                      ELSE [nav EXCEPT !.draft = ops[o].session, !.temporary = TRUE,
                                       !.shown = ops[o].session, !.filled = Answer.filled,
                                       !.home = TRUE]
            /\ Ends(o, ops[o], "done") /\ link' = Took
       ELSE nav' = AtHome(nav) /\ Asks(o, ops[o], Took, "delete", ops[o].session)

----------------------------------------------------------------------------

Navigates(o) ==
    \/ \E s \in Ids : Select(o, s) \/ Fork(o, s) \/ History(o, s)
    \/ \E fresh \in BOOLEAN : NewSession(o, fresh)
    \/ Submit(o)

Adds(o) == Context(o) \/ Attach(o, "image") \/ Attach(o, "paste")

Hears(o) ==
    \/ Discarded(o) \/ Opened(o) \/ Forked(o) \/ HomeListed(o) \/ HistoryListed(o) \/ Peeked(o)
    \/ Created(o) \/ Saved(o) \/ Patched(o) \/ Flushed(o)
    \/ Cleared(o) \/ Submitted(o) \/ Restored(o)

Next ==
    \/ \E o \in Ops : Navigates(o) \/ Adds(o) \/ Send(o)
    \/ \E o \in Slots : Hears(o) \/ Join(o)
    \/ Handle \/ DeleteDraft \/ Drop \/ \E o \in Reopens : Reconnect(o)

Spec == Init /\ [][Next]_vars

\* A handler at an await after which it goes on without asking whether the
\* user has navigated since.
Unguarded(op) ==
    \/ op.pc \in {"list", "peek", "fork", "submit", "clear"}
    \/ op.pc = "delete" /\ op.kind \in {"select", "history", "fork"}
    \/ op.pc = "open" /\ op.kind \in {"home", "restore"}
    \/ op.pc \in Awaits /\ op.kind = "paste"

\* One that takes the window or the connection to another session.
Moves(op) ==
    \/ op.kind \in {"select", "home", "history", "fork", "submit", "restore"}
    \/ op.pc \in {"create", "joined"}

\* One that is to add something where it began.
Pending(op) == op.pc \in {"create", "joined", "save"}

\* Patches begin while there is a connection; unguarded handlers do, and keep it.
\* An unguarded handler meets no other that moves on nor, when it moves on
\* itself, anything still to be added.
Orderly ==
    /\ ~link.up /\ link'.up => \A p \in Slots : ~Unguarded(ops[p])
    /\ \A o \in Ops : ops[o].pc = "idle" /\ ops'[o].pc # "idle" =>
        /\ Unguarded(ops'[o]) \/ ops'[o].pc = "queued" => link.up
        /\ \A p \in Slots \ {o} :
            /\ Unguarded(ops[p]) => ~Moves(ops[p]) /\ ~Moves(ops'[o])
            /\ Unguarded(ops'[o]) /\ Moves(ops'[o]) => ~Pending(ops[p])

OrderlySpec == Init /\ [][Next /\ Orderly]_vars

----------------------------------------------------------------------------
(* Properties                                                              *)

TypeOK ==
    /\ nav \in Nav /\ ops \in [Slots -> Op]
    /\ link.current \in Ids \cup {None} /\ link.exists \subseteq Ids
    /\ link.temps \subseteq News /\ link.filled \subseteq Ids
    /\ \A i \in DOMAIN link.requests : link.requests[i] \in Request
    /\ \A i \in DOMAIN link.answers : link.answers[i] \in Reply

Quiet ==
    /\ link.up /\ link.requests = <<>> /\ link.answers = <<>>
    /\ \A o \in Slots : ops[o].pc \in {"idle", "done", "failed"}

\* When nothing is under way the window is where the user last asked to be:
\* at the home of new sessions, or in the session.
LastChoiceWins ==
    Quiet /\ nav.wanted # None =>
        LET op == ops[nav.wanted]
        IN  \/ op.pc = "failed"
            \/ op.kind = "home" /\ nav.home
            \/ op.kind # "home" /\ ~nav.home /\ nav.active = op.session

\* When nothing is under way the active session is the current one of the
\* connection, to which patches and messages go, and it is what is shown.
ActiveIsOpened ==
    Quiet /\ nav.active \in link.exists =>
        link.current = nav.active /\ nav.shown = nav.active

\* What the user added to a session, or wrote in it, never reaches another.
NothingStrays ==
    [][\A q \in {link.requests[i] : i \in DOMAIN link.requests \cap {1}} :
           link'.requests = Tail(link.requests) /\ link.up /\ link'.up
           /\ q.kind \in {"queued", "patch", "clear", "chat"} =>
               link.current \in {q.own, None}]_vars

=============================================================================

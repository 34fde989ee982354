------------------------------ MODULE Documents ------------------------------
(***************************************************************************)
(* The documents of the language server (lsp/src).  The editor sends its   *)
(* notifications and commands in order; each is handled by an async        *)
(* handler, several of which run at a time (tower-lsp starts them in the   *)
(* order of arrival, at most Concurrency at once).  The handlers share one *)
(* store, which belongs to a task of its own: they send it actions through *)
(* a bounded channel and wait for its replies.                             *)
(*                                                                         *)
(* A text is a number: the editor counts the states of the document up     *)
(* with every edit, so that a larger text is a later one.                  *)
(***************************************************************************)
EXTENDS Naturals, Sequences, FiniteSets

CONSTANTS
    Uris,           \* documents
    Concurrency,    \* handlers at a time
    Capacity,       \* actions the channel holds
    MaxText,        \* bound: states of a document
    MaxSends        \* bound: messages of the editor

ASSUME DocumentsAssumption ==
    /\ IsFiniteSet(Uris)
    /\ Concurrency \in Nat \ {0}
    /\ Capacity \in Nat \ {0}
    /\ MaxText \in Nat \ {0}
    /\ MaxSends \in Nat

VARIABLES
    editor,     \* the editor's documents: open or not, and their text
    sent,       \* messages the editor has sent
    inbox,      \* those that are not handled yet
    handler,    \* the handlers that run
    queue,      \* the channel, with the senders that wait for room behind it
    store,      \* document_map
    early       \* documents opened, changed or closed while did_open was at work

vars == <<editor, sent, inbox, handler, queue, store, early>>
editing == <<editor, sent, inbox, early>>

Handlers == 1 .. Concurrency
Texts == 1 .. MaxText

\* No document: what the map has not got.
Nothing == 0

\* Commands that edit: fix reads the document at once, apply reads pattern files first.
Commands == {"fix", "apply"}
Kinds == {"open", "change", "close"} \cup Commands
Messages == [kind : Kinds, uri : Uris, text : Texts]

\* base is the text the editor had when it sent the message, text what the handler
\* works on.
Free == [pc |-> "free"]
Running(pc, m) ==
    [pc |-> pc, kind |-> m.kind, uri |-> m.uri, text |-> m.text, base |-> m.text]

Action(op, h, m) == [op |-> op, by |-> h, uri |-> m.uri, text |-> m.text]

Busy == {h \in Handlers : handler[h].pc # "free"}

-----------------------------------------------------------------------------
Init ==
    /\ editor = [u \in Uris |-> [open |-> FALSE, text |-> 1]]
    /\ sent = 0
    /\ inbox = <<>>
    /\ handler = [h \in Handlers |-> Free]
    /\ queue = <<>>
    /\ store = [u \in Uris |-> Nothing]
    /\ early = {}

\* did_open for u has not reached the store.
Opening(u) ==
    \/ \E i \in DOMAIN inbox : inbox[i].kind = "open" /\ inbox[i].uri = u
    \/ \E h \in Busy : handler[h].kind = "open" /\ handler[h].uri = u
    \/ \E i \in DOMAIN queue : queue[i].op = "Upsert" /\ queue[i].uri = u

-----------------------------------------------------------------------------
(* The editor. *)

Send(kind, u) ==
    /\ sent < MaxSends
    /\ sent' = sent + 1
    /\ inbox' = Append(inbox, [kind |-> kind, uri |-> u, text |-> editor'[u].text])
    /\ early' = IF Opening(u) /\ kind \notin Commands THEN early \cup {u} ELSE early

OpenDocument(u) ==
    /\ ~ editor[u].open
    /\ editor' = [editor EXCEPT ![u].open = TRUE]
    /\ Send("open", u)

Edit(u) ==
    /\ editor[u].open
    /\ editor[u].text < MaxText
    /\ editor' = [editor EXCEPT ![u].text = @ + 1]
    /\ Send("change", u)

CloseDocument(u) ==
    /\ editor[u].open
    /\ editor' = [editor EXCEPT ![u].open = FALSE]
    /\ Send("close", u)

GiveCommand(u, command) ==
    /\ editor[u].open
    /\ UNCHANGED editor
    /\ Send(command, u)

\* apply_edit: the edits have no version, and the editor makes or refuses them.
AnswerEdit(h) ==
    /\ handler[h].pc = "editing"
    /\ handler' = [handler EXCEPT ![h] = Free]
    /\ \/ Edit(handler[h].uri)
       \/ UNCHANGED editing
    /\ UNCHANGED <<queue, store>>

EditorStep ==
    /\ \E u \in Uris : \/ OpenDocument(u)
                       \/ Edit(u)
                       \/ CloseDocument(u)
                       \/ \E c \in Commands : GiveCommand(u, c)
    /\ UNCHANGED <<handler, queue, store>>

-----------------------------------------------------------------------------
(* The handlers.  A step ends where a handler awaits.  Start holds all that
   happens before the first await that does not return at once.              *)

\* Which of the free places a handler takes makes no difference.
Spare == CHOOSE h \in Handlers \ Busy : TRUE

\* Taking the next message, for which there must be a free place.
Arrives(kind) ==
    /\ inbox # <<>>
    /\ Head(inbox).kind = kind
    /\ Busy # Handlers
    /\ inbox' = Tail(inbox)

\* Mutation: a sender overtakes the one that came before it.
EnqueueBefore(a) ==
    queue' = IF queue = <<>> THEN <<a>>
             ELSE SubSeq(queue, 1, Len(queue) - 1) \o <<a, queue[Len(queue)]>>

\* Senders that find the channel full wait in line, so both are one queue of which
\* the first Capacity actions are in the channel.
Enqueue(a) == queue' = Append(queue, a)

Begin(pc) == handler' = [handler EXCEPT ![Spare] = Running(pc, Head(inbox))]

\* did_open: on_change comes first.
StartOpen ==
    /\ Arrives("open")
    /\ Begin("checking")
    /\ UNCHANGED <<editor, sent, early, queue, store>>

\* did_change: the last change is the whole text; its document is asked for.
StartChange ==
    /\ Arrives("change")
    /\ Begin("asking")
    /\ Enqueue(Action("UpsertContent", Spare, Head(inbox)))
    /\ UNCHANGED <<editor, sent, early, store>>

StartClose ==
    /\ Arrives("close")
    /\ Begin("sending")
    /\ Enqueue(Action("Drop", Spare, Head(inbox)))
    /\ UNCHANGED <<editor, sent, early, store>>

\* Mutation: the map is read directly, past the actions in the channel.
StartFixDirect ==
    /\ Arrives("fix")
    /\ handler' = IF store[Head(inbox).uri] = Nothing THEN handler
                  ELSE [handler EXCEPT ![Spare] =
                           [Running("working", Head(inbox)) EXCEPT
                               !.text = store[Head(inbox).uri]]]
    /\ UNCHANGED <<editor, sent, early, queue, store>>

\* FixFile, ApplyNamedPattern and ApplyResult get the document first ..
StartFix ==
    /\ Arrives("fix")
    /\ Begin("asking")
    /\ Enqueue(Action("Get", Spare, Head(inbox)))
    /\ UNCHANGED <<editor, sent, early, store>>

\* .. ApplyPattern reads the pattern files before it does.
StartApply ==
    /\ Arrives("apply")
    /\ Begin("loading")
    /\ UNCHANGED <<editor, sent, early, queue, store>>

Loaded(h) ==
    /\ handler[h].pc = "loading"
    /\ handler' = [handler EXCEPT ![h].pc = "asking"]
    /\ Enqueue(Action("Get", h, handler[h]))
    /\ UNCHANGED <<editing, store>>

\* on_change: the patterns are resolved, the document is checked on a thread of
\* its own, the diagnostics are published; or it is left out or fails.
Checked(h) ==
    /\ handler[h].pc = "checking"
    /\ handler' = [handler EXCEPT ![h] = IF @.kind = "open" THEN [@ EXCEPT !.pc = "storing"]
                                                            ELSE Free]
    /\ UNCHANGED <<editing, queue, store>>

\* must_set_document, the second half of did_open.
StoreOpened(h) ==
    /\ handler[h].pc = "storing"
    /\ handler' = [handler EXCEPT ![h].pc = "sending"]
    /\ Enqueue(Action("Upsert", h, handler[h]))
    /\ UNCHANGED <<editing, store>>

\* The action has found room in the channel; no reply is awaited.
Sent(h) ==
    /\ handler[h].pc = "sending"
    /\ \A i \in DOMAIN queue : queue[i].by = h => i <= Capacity
    /\ handler' = [handler EXCEPT ![h] = Free]
    /\ UNCHANGED <<editing, queue, store>>

\* The pattern has run over the text: without a rewrite there is nothing to send.
Worked(h) ==
    /\ handler[h].pc = "working"
    /\ \E next \in {Free, [handler[h] EXCEPT !.pc = "editing"]} :
          handler' = [handler EXCEPT ![h] = next]
    /\ UNCHANGED <<editing, queue, store>>

-----------------------------------------------------------------------------
(* run_doc_manager: one task, one action after the other.  A reply through a
   oneshot channel is never waited for.                                      *)

Received(op) ==
    /\ queue # <<>>
    /\ Head(queue).op = op
    /\ queue' = Tail(queue)
    /\ UNCHANGED editing

DoUpsert ==
    /\ Received("Upsert")
    /\ store' = [store EXCEPT ![Head(queue).uri] = Head(queue).text]
    /\ UNCHANGED handler

DoDrop ==
    /\ Received("Drop")
    /\ store' = [store EXCEPT ![Head(queue).uri] = Nothing]
    /\ UNCHANGED handler

\* Mutation: a handler goes on with the document it has not got.
ReplyUnchecked(text, pc) ==
    handler' = [handler EXCEPT ![Head(queue).by] = [@ EXCEPT !.pc = pc, !.text = text]]

\* Mutation: no reply where there is no document.
ReplyIfThere(text, pc) ==
    handler' = [handler EXCEPT ![Head(queue).by] =
                    IF text = Nothing THEN @ ELSE [@ EXCEPT !.pc = pc, !.text = text]]

\* A handler that is told there is no document ends.
Reply(text, pc) ==
    handler' = [handler EXCEPT ![Head(queue).by] =
                    IF text = Nothing THEN Free ELSE [@ EXCEPT !.pc = pc, !.text = text]]

DoGet ==
    /\ Received("Get")
    /\ Reply(store[Head(queue).uri], "working")
    /\ UNCHANGED store

\* Mutation: the text is put into a copy of the document.
DoUpsertCopy ==
    /\ Received("UpsertContent")
    /\ Reply(IF store[Head(queue).uri] = Nothing THEN Nothing ELSE Head(queue).text, "checking")
    /\ UNCHANGED store

\* The text of a document that is there is replaced; one that is not stays away.
DoUpsertContent ==
    /\ Received("UpsertContent")
    /\ LET u == Head(queue).uri
       IN  /\ store' = [store EXCEPT ![u] = IF @ = Nothing THEN @ ELSE Head(queue).text]
           /\ Reply(store'[u], "checking")

-----------------------------------------------------------------------------
Manager == DoUpsert \/ DoDrop \/ DoGet \/ DoUpsertContent

Start == StartOpen \/ StartChange \/ StartClose \/ StartFix \/ StartApply

Step(h) ==
    Loaded(h) \/ Checked(h) \/ StoreOpened(h) \/ Sent(h) \/ Worked(h) \/ AnswerEdit(h)

\* The editor has sent all it may.
Stay ==
    /\ sent = MaxSends
    /\ UNCHANGED vars

Next ==
    \/ EditorStep
    \/ Start
    \/ \E h \in Handlers : Step(h)
    \/ Manager
    \/ Stay

\* Tasks that are ready are run; the editor answers the requests it is sent.
Fairness == WF_vars(Start) /\ WF_vars(Manager) /\ \A h \in Handlers : WF_vars(Step(h))

Spec == Init /\ [][Next]_vars /\ Fairness

-----------------------------------------------------------------------------
TypeOK ==
    /\ editor \in [Uris -> [open : BOOLEAN, text : Texts]]
    /\ sent \in 0 .. MaxSends
    /\ inbox \in Seq(Messages)
    /\ handler \in [Handlers -> {Free} \cup
                      [pc : {"checking", "storing", "sending", "asking", "loading",
                             "working", "editing"},
                       kind : Kinds, uri : Uris, text : Texts, base : Texts]]
    /\ queue \in Seq([op : {"Upsert", "Drop", "Get", "UpsertContent"}, by : Handlers,
                      uri : Uris, text : Texts])
    /\ store \in [Uris -> Texts \cup {Nothing}]
    /\ early \subseteq Uris

\* Nothing about u is under way.
Settled(u) ==
    /\ \A i \in DOMAIN inbox : inbox[i].uri # u
    /\ \A h \in Busy : handler[h].uri # u
    /\ \A i \in DOMAIN queue : queue[i].uri # u

Current(u) == store[u] = IF editor[u].open THEN editor[u].text ELSE Nothing

\* Once everything about a document is handled, the store has the text the editor
\* has, and nothing if it is closed there - unless it was opened, changed or closed
\* again while its did_open was still at work (did_open, did_change and did_close as
\* they share the document manager).
SettledCurrent == \A u \in Uris \ early : Settled(u) => Current(u)

\* A change never puts a text back: the changes of a document reach the store in
\* the order in which they were typed, though their handlers run side by side.
\* Only did_open can go back.
ChangesInOrder ==
    [][\A u \in Uris :
          store'[u] < store[u] => store'[u] = Nothing \/ Head(queue).op = "Upsert"]_store

\* The edits of a command are for the text the editor has: if the document was not
\* changed since the command was given, they were computed from that very text, so
\* the changes sent before the command were in the store when it read it.
EditFits ==
    \A h \in Busy :
       /\ handler[h].pc = "editing"
       /\ handler[h].uri \notin early
       /\ editor[handler[h].uri].text = handler[h].base
       => handler[h].text = handler[h].base

\* Every handler ends: none waits for ever for room in the channel, for a reply of
\* the document manager or for one of the editor.
EveryHandlerEnds == \A h \in Handlers : h \in Busy ~> h \notin Busy
=============================================================================

--------------------------- MODULE DocumentsProof ---------------------------
(***************************************************************************)
(* Theorems about Documents, for any documents, any number of handlers,    *)
(* any room in the channel and any number of messages: types, and all the  *)
(* safety properties of the store.                                         *)
(*                                                                         *)
(* A change goes from the inbox into the queue and from there to the       *)
(* store.  InOrder says that it has a larger text than everything about    *)
(* its document that is ahead of it, the store and the handlers included,  *)
(* and LastChange that the last one has the text of the editor.  OpenLast  *)
(* says that, unless the document is in early, nothing that closes it is   *)
(* behind what opens it, so that the store has it in the end (Stored).     *)
(*                                                                         *)
(* A step of the editor, the handlers or the document manager moves        *)
(* messages on in one of four ways (Sends, Takes, GoesOn, Receives); the   *)
(* invariant is proved for these, and for the actions that they are.       *)
(***************************************************************************)
EXTENDS Documents, TLAPS

Asks == {"Get", "UpsertContent"}

\* A handler asks for one document, the one its action is about, and waits.
Linked ==
    \A i \in DOMAIN queue : queue[i].op \in Asks =>
        /\ handler[queue[i].by].pc = "asking"
        /\ handler[queue[i].by].uri = queue[i].uri
        /\ handler[queue[i].by].base = queue[i].text
        /\ \A j \in DOMAIN queue :
              queue[j].op \in Asks /\ queue[j].by = queue[i].by => j = i

\* Until it has a reply, a handler works on the text that was sent.
Kept ==
    \A h \in Busy :
        /\ handler[h].kind = "open" \/ handler[h].pc = "loading"
              => handler[h].text = handler[h].base
        /\ handler[h].pc \in {"loading", "asking"} => handler[h].kind # "open"
        /\ handler[h].pc = "storing" => handler[h].kind = "open"

\* Nothing is ahead of the editor.
Behind ==
    /\ \A i \in DOMAIN inbox : inbox[i].text <= editor[inbox[i].uri].text
    /\ \A h \in Busy : handler[h].base <= editor[handler[h].uri].text
    /\ \A i \in DOMAIN queue : queue[i].text <= editor[queue[i].uri].text
    /\ \A u \in Uris : store[u] <= editor[u].text

IsChange(j) == inbox[j].kind = "change"
IsContent(j) == queue[j].op = "UpsertContent"

\* A change is later than everything about its document that is ahead of it.
InboxInOrder ==
    \A i, j \in DOMAIN inbox : IsChange(j) /\ i < j /\ inbox[i].uri = inbox[j].uri =>
        inbox[i].text < inbox[j].text
AfterHandlers ==
    \A j \in DOMAIN inbox, h \in Busy : IsChange(j) /\ handler[h].uri = inbox[j].uri =>
        handler[h].base < inbox[j].text
AfterQueue ==
    \A j \in DOMAIN inbox, i \in DOMAIN queue :
        IsChange(j) /\ queue[i].uri = inbox[j].uri => queue[i].text < inbox[j].text
InboxAfterStore ==
    \A j \in DOMAIN inbox : IsChange(j) => store[inbox[j].uri] < inbox[j].text
QueueInOrder ==
    \A i, j \in DOMAIN queue : IsContent(j) /\ i < j /\ queue[i].uri = queue[j].uri =>
        queue[i].text < queue[j].text
QueueAfterStore ==
    \A j \in DOMAIN queue : IsContent(j) => store[queue[j].uri] < queue[j].text

InOrder == InboxInOrder /\ AfterHandlers /\ AfterQueue /\ InboxAfterStore
               /\ QueueInOrder /\ QueueAfterStore

\* The last change of a document on its way has the text of the editor.
LastInInbox ==
    \A i \in DOMAIN inbox : IsChange(i) =>
        \/ inbox[i].text = editor[inbox[i].uri].text
        \/ \E j \in DOMAIN inbox : j > i /\ IsChange(j) /\ inbox[j].uri = inbox[i].uri
LastInQueue ==
    \A i \in DOMAIN queue : IsContent(i) =>
        \/ queue[i].text = editor[queue[i].uri].text
        \/ \E j \in DOMAIN queue : j > i /\ IsContent(j) /\ queue[j].uri = queue[i].uri
        \/ \E j \in DOMAIN inbox : IsChange(j) /\ inbox[j].uri = queue[i].uri

LastChange == LastInInbox /\ LastInQueue

\* What opens a document that is not in early has the text of the editor, where the
\* document is open, and nothing behind it closes the document.
IsOpen(u, text) == editor[u].open /\ editor[u].text = text

OpenInInbox ==
    \A i \in DOMAIN inbox : inbox[i].kind = "open" /\ inbox[i].uri \notin early =>
        /\ IsOpen(inbox[i].uri, inbox[i].text)
        /\ \A j \in DOMAIN inbox :
              j > i /\ inbox[j].uri = inbox[i].uri => inbox[j].kind # "close"
OpenInHandler ==
    \A h \in Busy : handler[h].kind = "open" /\ handler[h].uri \notin early =>
        /\ IsOpen(handler[h].uri, handler[h].text)
        /\ \A j \in DOMAIN inbox :
              inbox[j].uri = handler[h].uri => inbox[j].kind # "close"
OpenInQueue ==
    \A i \in DOMAIN queue : queue[i].op = "Upsert" /\ queue[i].uri \notin early =>
        /\ IsOpen(queue[i].uri, queue[i].text)
        /\ \A j \in DOMAIN queue :
              j > i /\ queue[j].uri = queue[i].uri => queue[j].op # "Drop"
        /\ \A j \in DOMAIN inbox :
              inbox[j].uri = queue[i].uri => inbox[j].kind # "close"

OpenLast == OpenInInbox /\ OpenInHandler /\ OpenInQueue

\* What is on its way to the store.
Unstored(u) ==
    \/ \E i \in DOMAIN inbox : inbox[i].kind = "open" /\ inbox[i].uri = u
    \/ \E h \in Busy : /\ handler[h].kind = "open" /\ handler[h].uri = u
                       /\ handler[h].pc \in {"checking", "storing"}
    \/ \E i \in DOMAIN queue : queue[i].op = "Upsert" /\ queue[i].uri = u
Changing(u) ==
    \/ \E i \in DOMAIN inbox : IsChange(i) /\ inbox[i].uri = u
    \/ \E i \in DOMAIN queue : IsContent(i) /\ queue[i].uri = u
Closing(u) ==
    \/ \E i \in DOMAIN inbox : inbox[i].kind = "close" /\ inbox[i].uri = u
    \/ \E i \in DOMAIN queue : queue[i].op = "Drop" /\ queue[i].uri = u

\* The store has what the editor has, but for what is on its way.
OpenStored ==
    \A u \in Uris \ early :
        editor[u].open /\ ~ Unstored(u) => store[u] # Nothing /\ ~ Closing(u)
ClosedGone ==
    \A u \in Uris \ early : ~ editor[u].open => Closing(u) \/ store[u] = Nothing
TextStored ==
    \A u \in Uris \ early : ~ Changing(u) => store[u] \in {Nothing, editor[u].text}

Stored == OpenStored /\ ClosedGone /\ TextStored

\* A command works on the text the editor had, unless the editor has another by now.
Fits ==
    \A h \in Busy :
       /\ handler[h].pc \in {"working", "editing"}
       /\ handler[h].uri \notin early
       /\ editor[handler[h].uri].text = handler[h].base
       => handler[h].text = handler[h].base

\* All but the types.
MInv == Linked /\ Kept /\ Behind /\ InOrder /\ LastChange /\ OpenLast /\ Stored /\ Fits

IInv == TypeOK /\ MInv

-----------------------------------------------------------------------------
(* Sequences, index by index.                                              *)

\* t is s, or s with e at n, behind all others.
Grows(s, t, n, e) ==
    /\ \A i \in DOMAIN t : (i = n /\ t[i] = e) \/ (i \in DOMAIN s /\ t[i] = s[i])
    /\ \A i \in DOMAIN s : i < n /\ i \in DOMAIN t /\ t[i] = s[i]
    /\ n \in Nat

\* t is s without its first element, which is e.
Shrinks(s, t, e) ==
    /\ 1 \in DOMAIN s /\ s[1] = e
    /\ \A i \in DOMAIN t : i \in Nat \ {0} /\ i + 1 \in DOMAIN s /\ t[i] = s[i + 1]
    /\ \A i \in DOMAIN s : i \in Nat \ {0}
    /\ \A i \in DOMAIN s : i # 1 => i - 1 \in DOMAIN t /\ t[i - 1] = s[i]

\* An element of a sequence, by its index.
LEMMA ElementTyped ==
    ASSUME NEW S, NEW s \in Seq(S)
    PROVE  /\ Len(s) \in Nat /\ DOMAIN s = 1 .. Len(s)
           /\ \A i \in DOMAIN s : s[i] \in S
  OBVIOUS

\* A sequence that stays as it is only grows.
LEMMA SameGrows ==
    ASSUME NEW S, NEW s \in Seq(S), NEW e
    PROVE  Grows(s, s, Len(s) + 1, e)
  BY DEF Grows

\* Append puts its element behind all others.
LEMMA AppendGrows ==
    ASSUME NEW S, NEW s \in Seq(S), NEW e \in S
    PROVE  /\ Append(s, e) \in Seq(S) /\ Grows(s, Append(s, e), Len(s) + 1, e)
           /\ Len(s) + 1 \in DOMAIN Append(s, e)
           /\ Append(s, e)[Len(s) + 1] = e
  <1> DEFINE t == Append(s, e)
  <1>1. /\ t \in Seq(S) /\ DOMAIN t = 1 .. Len(s) + 1
        /\ \A i \in 1 .. Len(s) : t[i] = s[i]
        /\ t[Len(s) + 1] = e
        /\ DOMAIN s = 1 .. Len(s) /\ Len(s) \in Nat
    OBVIOUS
  <1> HIDE DEF t
  <1>2. Grows(s, t, Len(s) + 1, e) /\ Len(s) + 1 \in DOMAIN t
    BY <1>1 DEF Grows
  <1>3. t \in Seq(S) /\ t[Len(s) + 1] = e
    BY <1>1
  <1> QED
    BY <1>2, <1>3, Zenon DEF t

\* Tail moves every element forward by one place.
LEMMA TailShrinks ==
    ASSUME NEW S, NEW s \in Seq(S), s # <<>>
    PROVE  Head(s) \in S /\ Tail(s) \in Seq(S) /\ Shrinks(s, Tail(s), Head(s))
  BY DEF Shrinks

-----------------------------------------------------------------------------
(* What the invariant needs of the types, element by element.              *)

Actions == [op : {"Upsert", "Drop", "Get", "UpsertContent"}, by : Handlers,
            uri : Uris, text : Texts]
Pcs == {"checking", "storing", "sending", "asking", "loading", "working", "editing"}
Runnings == [pc : Pcs, kind : Kinds, uri : Uris, text : Texts, base : Texts]

IsText(t) == t \in Nat /\ t > 0

Plain ==
    /\ DOMAIN inbox \subseteq Nat /\ DOMAIN queue \subseteq Nat
    /\ \A i \in DOMAIN inbox : inbox[i].uri \in Uris /\ IsText(inbox[i].text)
    /\ \A i \in DOMAIN queue : /\ queue[i].uri \in Uris /\ IsText(queue[i].text)
                               /\ queue[i].by \in Handlers
    /\ \A h \in Busy : /\ h \in Handlers /\ handler[h].uri \in Uris
                       /\ IsText(handler[h].text) /\ IsText(handler[h].base)
    /\ \A h \in Handlers \ Busy : handler[h].pc = "free"
    /\ \A u \in Uris : IsText(editor[u].text) /\ store[u] \in Nat

\* The types give it.
LEMMA TypePlain == TypeOK => Plain
  <1> SUFFICES ASSUME TypeOK PROVE Plain
    OBVIOUS
  <1>1. inbox \in Seq(Messages) /\ queue \in Seq(Actions)
    BY DEF TypeOK, Actions
  <1>2. /\ Len(inbox) \in Nat /\ DOMAIN inbox = 1 .. Len(inbox)
        /\ \A i \in DOMAIN inbox : inbox[i] \in Messages
    BY <1>1, ElementTyped
  <1>3. /\ Len(queue) \in Nat /\ DOMAIN queue = 1 .. Len(queue)
        /\ \A i \in DOMAIN queue : queue[i] \in Actions
    BY <1>1, ElementTyped
  <1>4. \A m \in Messages : m.uri \in Uris /\ IsText(m.text)
    BY DEF Messages, Texts, IsText
  <1>5. \A a \in Actions : a.uri \in Uris /\ IsText(a.text) /\ a.by \in Handlers
    BY DEF Actions, Texts, IsText
  <1>6. \A h \in Handlers : handler[h] \in {Free} \cup Runnings
    BY DEF TypeOK, Runnings, Pcs
  <1>7. Free.pc = "free"
    BY DEF Free
  <1>8. \A r \in Runnings : /\ r.uri \in Uris /\ IsText(r.text) /\ IsText(r.base)
                            /\ r.pc # "free"
    BY DEF Runnings, Pcs, Texts, IsText
  <1>9. \A u \in Uris : IsText(editor[u].text) /\ store[u] \in Nat
    BY DEF TypeOK, Texts, Nothing, IsText
  <1>10. DOMAIN inbox \subseteq Nat /\ DOMAIN queue \subseteq Nat
    BY <1>2, <1>3
  <1> QED
    BY <1>10, <1>2, <1>3, <1>4, <1>5, <1>6, <1>7, <1>8, <1>9 DEF Busy, Plain

-----------------------------------------------------------------------------
(* The four ways in which a step moves messages on.                        *)

\* The editor sends m.
Sends(m, n) ==
    /\ m.uri \in Uris /\ m.text = editor'[m.uri].text
    /\ Grows(inbox, inbox', n, m) /\ n \in DOMAIN inbox' /\ inbox'[n] = m
    /\ \A u \in Uris \ {m.uri} : editor'[u] = editor[u]
    /\ editor'[m.uri].text =
           editor[m.uri].text + (IF m.kind = "change" THEN 1 ELSE 0)
    /\ editor'[m.uri].open <=> m.kind # "close"
    /\ editor[m.uri].open <=> m.kind # "open"
    /\ early' = IF Opening(m.uri) /\ m.kind \notin Commands
                THEN early \cup {m.uri} ELSE early
    /\ Busy' \subseteq Busy
    /\ \A h \in Busy' : handler'[h] = handler[h]
    /\ \A h \in Busy \ Busy' : handler[h].pc = "editing"
    /\ UNCHANGED <<queue, store>>

\* Handler h takes m, and may put a into the queue.
Takes(m, h, n, a) ==
    /\ Shrinks(inbox, inbox', m)
    /\ h \in Handlers \ Busy /\ Busy' = Busy \cup {h}
    /\ \A k \in Busy : handler'[k] = handler[k]
    /\ handler'[h].kind = m.kind /\ handler'[h].uri = m.uri
    /\ handler'[h].text = m.text /\ handler'[h].base = m.text
    /\ Grows(queue, queue', n, a)
    /\ a.by = h /\ a.uri = m.uri /\ a.text = m.text
    /\ m.kind \in {"change", "close", "fix"} <=> n \in DOMAIN queue'
    /\ a.op = CASE m.kind = "change" -> "UpsertContent"
                [] m.kind = "close" -> "Drop"
                [] OTHER -> "Get"
    /\ handler'[h].pc = CASE m.kind = "open" -> "checking"
                          [] m.kind = "close" -> "sending"
                          [] m.kind = "apply" -> "loading"
                          [] OTHER -> "asking"
    /\ UNCHANGED <<editor, early, store>>

\* Handler h goes on, and may put a into the queue.
GoesOn(h, n, a) ==
    /\ h \in Busy /\ Busy' \subseteq Busy /\ Busy \ {h} \subseteq Busy'
    /\ \A k \in Busy \ {h} : handler'[k] = handler[k]
    /\ h \in Busy' =>
          /\ handler'[h].kind = handler[h].kind /\ handler'[h].uri = handler[h].uri
          /\ handler'[h].text = handler[h].text /\ handler'[h].base = handler[h].base
          /\ \/ handler[h].pc = "loading" /\ handler'[h].pc = "asking"
             \/ /\ handler[h].pc = "checking" /\ handler'[h].pc = "storing"
                /\ handler[h].kind = "open"
             \/ handler[h].pc = "storing" /\ handler'[h].pc = "sending"
             \/ handler[h].pc = "working" /\ handler'[h].pc = "editing"
    /\ h \notin Busy' => \/ handler[h].pc \in {"sending", "working", "editing"}
                         \/ handler[h].pc = "checking" /\ handler[h].kind # "open"
    /\ Grows(queue, queue', n, a)
    /\ a.by = h /\ a.uri = handler[h].uri /\ a.text = handler[h].text
    /\ n \in DOMAIN queue' <=> handler[h].pc \in {"loading", "storing"}
    /\ n \in DOMAIN queue' => queue'[n] = a
    /\ a.op = IF handler[h].pc = "storing" THEN "Upsert" ELSE "Get"
    /\ UNCHANGED <<editor, early, inbox, store>>

\* The document manager receives a.
Receives(a) ==
    /\ Shrinks(queue, queue', a)
    /\ \A u \in Uris \ {a.uri} : store'[u] = store[u]
    /\ store'[a.uri] =
           CASE a.op = "Upsert" -> a.text
             [] a.op = "Drop" -> Nothing
             [] a.op = "UpsertContent" /\ store[a.uri] # Nothing -> a.text
             [] OTHER -> store[a.uri]
    /\ Busy' \subseteq Busy
    /\ \A h \in Busy :
          h # a.by \/ a.op \notin Asks => h \in Busy' /\ handler'[h] = handler[h]
    /\ a.op \in Asks /\ a.by \in Busy' =>
          /\ handler'[a.by].kind = handler[a.by].kind
          /\ handler'[a.by].uri = handler[a.by].uri
          /\ handler'[a.by].base = handler[a.by].base
          /\ handler'[a.by].text = store'[a.uri]
          /\ store'[a.uri] # Nothing
          /\ handler'[a.by].pc = IF a.op = "Get" THEN "working" ELSE "checking"
    /\ UNCHANGED <<editor, early, inbox>>

-----------------------------------------------------------------------------
(* What each way of moving messages on does to the invariant.              *)

\* The editor sends: what it types is behind everything, and what it does to a
\* document that is being opened puts the document into early.
LEMMA SendsInv ==
    ASSUME Plain, IInv, NEW m, NEW n, Sends(m, n)
    PROVE  MInv'
  <1> USE DEF IInv, MInv, InOrder, LastChange, OpenLast, Stored,
              Plain, IsText, Sends, Grows
  <1>0. \A u \in Uris \ early' :
           /\ u \notin early
           /\ Opening(u) => /\ (editor'[u].open <=> editor[u].open)
                            /\ editor'[u].text = editor[u].text
                            /\ m.uri = u => m.kind \notin {"open", "change", "close"}
    BY DEF Commands
  <1>1. Linked'
    BY DEF Linked, Asks
  <1>2. Kept'
    BY DEF Kept, Linked, Asks
  <1>3. Behind'
    <2>1. \A i \in DOMAIN inbox' : inbox'[i].text <= editor'[inbox'[i].uri].text
      BY DEF Behind
    <2>2. \A h \in Busy' : handler'[h].base <= editor'[handler'[h].uri].text
      BY DEF Behind
    <2>3. \A i \in DOMAIN queue' : queue'[i].text <= editor'[queue'[i].uri].text
      BY DEF Behind, Kept
    <2>4. \A u \in Uris : store'[u] <= editor'[u].text
      BY DEF Behind, Nothing
    <2> QED
      BY <2>1, <2>2, <2>3, <2>4 DEF Behind
  <1>4. InOrder'
    BY DEF InboxInOrder, AfterHandlers, AfterQueue, InboxAfterStore, QueueInOrder,
           QueueAfterStore, IsChange, IsContent, Behind, Kept
  <1>5. LastChange'
    BY DEF LastInInbox, LastInQueue, IsChange, IsContent
  <1>6. OpenLast'
    <2>1. OpenInInbox'
      <3> SUFFICES ASSUME NEW i \in DOMAIN inbox',
                          inbox'[i].kind = "open", inbox'[i].uri \notin early'
                   PROVE  /\ editor'[inbox'[i].uri].open
                          /\ editor'[inbox'[i].uri].text = inbox'[i].text
                          /\ \A j \in DOMAIN inbox' :
                                j > i /\ inbox'[j].uri = inbox'[i].uri
                                => inbox'[j].kind # "close"
        BY DEF OpenInInbox, IsOpen
      <3>1. CASE i = n
        BY <3>1
      <3>2. CASE i \in DOMAIN inbox /\ inbox'[i] = inbox[i]
        <4>1. Opening(inbox[i].uri) /\ inbox[i].uri \in Uris \ early'
          BY <3>2 DEF Opening
        <4> QED
          BY <1>0, <3>2, <4>1 DEF OpenInInbox, OpenInHandler, OpenInQueue, IsOpen
      <3> QED
        BY <3>1, <3>2
    <2>2. OpenInHandler'
      BY <1>0 DEF OpenInInbox, OpenInHandler, OpenInQueue, IsOpen, Opening
    <2>3. OpenInQueue'
      BY <1>0 DEF OpenInInbox, OpenInHandler, OpenInQueue, IsOpen, Opening
    <2> QED
      BY <2>1, <2>2, <2>3 DEF OpenLast
  <1>7. Stored'
    <2>1. OpenStored'
      <3> SUFFICES ASSUME NEW u \in Uris \ early', editor'[u].open, ~ Unstored(u)'
                   PROVE  store'[u] # Nothing /\ ~ Closing(u)'
        BY DEF OpenStored
      <3>1. Unstored(u) => Unstored(u)'
        BY DEF Unstored
      <3>2. m.uri = u => m.kind # "open"
        BY DEF Unstored
      <3>3. editor[u].open
        BY <3>2
      <3>4. Closing(u)' => Closing(u) \/ (m.uri = u /\ m.kind = "close")
        BY DEF Closing
      <3> QED
        BY <1>0, <3>1, <3>3, <3>4 DEF OpenStored, ClosedGone, TextStored
    <2>2. ClosedGone'
      <3>1. \A u \in Uris : Closing(u) => Closing(u)'
        BY DEF Closing
      <3>2. \A u \in Uris : m.uri = u /\ m.kind = "close" => Closing(u)'
        BY DEF Closing
      <3> QED
        BY <1>0, <3>1, <3>2 DEF OpenStored, ClosedGone, TextStored
    <2>3. TextStored'
      BY <1>0 DEF OpenStored, ClosedGone, TextStored, Changing, IsChange, IsContent
    <2> QED
      BY <2>1, <2>2, <2>3 DEF Stored
  <1>8. Fits'
    BY DEF Fits, Behind
  <1> QED
    BY <1>1, <1>2, <1>3, <1>4, <1>5, <1>6, <1>7, <1>8

\* A message goes from the inbox to a handler, and for most kinds into the queue too.
LEMMA TakesInv ==
    ASSUME Plain, IInv, NEW m, NEW h, NEW n, NEW a, Takes(m, h, n, a)
    PROVE  MInv'
  <1> USE DEF IInv, MInv, InOrder, LastChange, OpenLast, Stored,
              Plain, IsText, Takes, Grows, Shrinks
  <1>1. Linked'
    BY DEF Linked, Asks
  <1>2. Kept'
    BY DEF Kept, Linked, Asks
  <1>3. Behind'
    <2>1. \A i \in DOMAIN inbox' : inbox'[i].text <= editor'[inbox'[i].uri].text
      BY DEF Behind
    <2>2. \A k \in Busy' : handler'[k].base <= editor'[handler'[k].uri].text
      BY DEF Behind
    <2>3. \A i \in DOMAIN queue' : queue'[i].text <= editor'[queue'[i].uri].text
      BY DEF Behind, Kept
    <2>4. \A u \in Uris : store'[u] <= editor'[u].text
      BY DEF Behind, Nothing
    <2> QED
      BY <2>1, <2>2, <2>3, <2>4 DEF Behind
  <1>4. InOrder'
    <2> USE DEF IsChange, IsContent
    <2>1. InboxInOrder'
      BY DEF InboxInOrder, AfterHandlers, AfterQueue, InboxAfterStore, QueueInOrder,
             QueueAfterStore
    <2>2. AfterHandlers'
      BY DEF InboxInOrder, AfterHandlers, AfterQueue, InboxAfterStore, QueueInOrder,
             QueueAfterStore
    <2>3. AfterQueue'
      BY DEF InboxInOrder, AfterHandlers, AfterQueue, InboxAfterStore, QueueInOrder,
             QueueAfterStore
    <2>4. InboxAfterStore'
      BY DEF InboxInOrder, AfterHandlers, AfterQueue, InboxAfterStore, QueueInOrder,
             QueueAfterStore
    <2>5. QueueInOrder'
      BY DEF InboxInOrder, AfterHandlers, AfterQueue, InboxAfterStore, QueueInOrder,
             QueueAfterStore
    <2>6. QueueAfterStore'
      BY DEF InboxInOrder, AfterHandlers, AfterQueue, InboxAfterStore, QueueInOrder,
             QueueAfterStore
    <2> QED
      BY <2>1, <2>2, <2>3, <2>4, <2>5, <2>6 DEF InOrder
  <1>5. LastChange'
    <2>1. LastInInbox'
      BY DEF LastInInbox, LastInQueue, IsChange
    <2>2. LastInQueue'
      BY DEF LastInInbox, LastInQueue, IsChange, IsContent
    <2> QED
      BY <2>1, <2>2 DEF LastChange
  <1>6. OpenLast'
    <2>1. OpenInInbox'
      BY DEF OpenInInbox, OpenInHandler, OpenInQueue, IsOpen
    <2>2. OpenInHandler'
      BY DEF OpenInInbox, OpenInHandler, OpenInQueue, IsOpen
    <2>3. OpenInQueue'
      BY DEF OpenInInbox, OpenInHandler, OpenInQueue, IsOpen
    <2> QED
      BY <2>1, <2>2, <2>3 DEF OpenLast
  <1>7. Stored'
    BY DEF OpenStored, ClosedGone, TextStored, Unstored, Changing, Closing, IsChange,
           IsContent
  <1>8. Fits'
    BY DEF Fits, Behind
  <1> QED
    BY <1>1, <1>2, <1>3, <1>4, <1>5, <1>6, <1>7, <1>8

\* A handler puts the text it was sent with behind all actions in the queue.
LEMMA GoesOnInv ==
    ASSUME Plain, IInv, NEW h, NEW n, NEW a, GoesOn(h, n, a)
    PROVE  MInv'
  <1> USE DEF IInv, MInv, InOrder, LastChange, OpenLast, Stored,
              Plain, IsText, GoesOn, Grows
  <1>1. Linked'
    BY DEF Linked, Asks, Kept
  <1>2. Kept'
    BY DEF Kept, Linked, Asks
  <1>3. Behind'
    <2>1. \A i \in DOMAIN inbox' : inbox'[i].text <= editor'[inbox'[i].uri].text
      BY DEF Behind
    <2>2. \A k \in Busy' : handler'[k].base <= editor'[handler'[k].uri].text
      BY DEF Behind
    <2>3. \A i \in DOMAIN queue' : queue'[i].text <= editor'[queue'[i].uri].text
      BY DEF Behind, Kept
    <2>4. \A u \in Uris : store'[u] <= editor'[u].text
      BY DEF Behind, Nothing
    <2> QED
      BY <2>1, <2>2, <2>3, <2>4 DEF Behind
  <1>4. InOrder'
    BY DEF InboxInOrder, AfterHandlers, AfterQueue, InboxAfterStore, QueueInOrder,
           QueueAfterStore, IsChange, IsContent, Behind, Kept
  <1>5. LastChange'
    BY DEF LastInInbox, LastInQueue, IsChange, IsContent
  <1>6. OpenLast'
    BY DEF OpenInInbox, OpenInHandler, OpenInQueue, IsOpen, Opening, Kept
  <1>7. Stored'
    BY DEF OpenStored, ClosedGone, TextStored, Unstored, Changing, Closing, IsChange,
           IsContent, Kept
  <1>8. Fits'
    BY DEF Fits, Behind
  <1> QED
    BY <1>1, <1>2, <1>3, <1>4, <1>5, <1>6, <1>7, <1>8

\* The action at the head of the queue is the oldest: the store only moves forward
\* by it, and a command is told the text it was given for.
LEMMA ReceivesInv ==
    ASSUME Plain, IInv, NEW a, Receives(a)
    PROVE  MInv'
  <1> USE DEF IInv, MInv, InOrder, LastChange, OpenLast, Stored,
              Plain, IsText, Receives, Shrinks
  <1>0. /\ a = queue[1] /\ 1 \in DOMAIN queue /\ a.uri \in Uris
        /\ store'[a.uri] \in {0, store[a.uri], a.text}
    BY DEF Nothing
  <1>1. Linked'
    BY DEF Linked, Asks
  <1>2. Kept'
    BY DEF Kept, Linked, Asks
  <1>3. Behind'
    <2>1. \A i \in DOMAIN inbox' : inbox'[i].text <= editor'[inbox'[i].uri].text
      BY DEF Behind
    <2>2. \A h \in Busy' : handler'[h].base <= editor'[handler'[h].uri].text
      BY DEF Behind
    <2>3. \A i \in DOMAIN queue' : queue'[i].text <= editor'[queue'[i].uri].text
      BY DEF Behind, Kept
    <2>4. \A u \in Uris : store'[u] <= editor'[u].text
      BY DEF Behind, Nothing
    <2> QED
      BY <2>1, <2>2, <2>3, <2>4 DEF Behind
  <1>4. InOrder'
    <2> USE DEF IsChange, IsContent
    <2>1. InboxInOrder'
      BY <1>0 DEF InboxInOrder, AfterHandlers, AfterQueue, InboxAfterStore,
                  QueueInOrder, QueueAfterStore
    <2>2. AfterHandlers'
      BY <1>0 DEF InboxInOrder, AfterHandlers, AfterQueue, InboxAfterStore,
                  QueueInOrder, QueueAfterStore
    <2>3. AfterQueue'
      BY <1>0 DEF InboxInOrder, AfterHandlers, AfterQueue, InboxAfterStore,
                  QueueInOrder, QueueAfterStore
    <2>4. InboxAfterStore'
      BY <1>0 DEF InboxInOrder, AfterHandlers, AfterQueue, InboxAfterStore,
                  QueueInOrder, QueueAfterStore
    <2>5. QueueInOrder'
      BY <1>0 DEF InboxInOrder, AfterHandlers, AfterQueue, InboxAfterStore,
                  QueueInOrder, QueueAfterStore
    <2>6. QueueAfterStore'
      BY <1>0 DEF InboxInOrder, AfterHandlers, AfterQueue, InboxAfterStore,
                  QueueInOrder, QueueAfterStore
    <2> QED
      BY <2>1, <2>2, <2>3, <2>4, <2>5, <2>6 DEF InOrder
  <1>5. LastChange'
    <2>1. LastInInbox'
      BY DEF LastInInbox, LastInQueue, IsChange
    <2>2. LastInQueue'
      BY DEF LastInInbox, LastInQueue, IsChange, IsContent
    <2> QED
      BY <2>1, <2>2 DEF LastChange
  <1>6. OpenLast'
    <2>1. OpenInInbox'
      BY DEF OpenInInbox, OpenInHandler, OpenInQueue, IsOpen
    <2>2. OpenInHandler'
      BY DEF OpenInInbox, OpenInHandler, OpenInQueue, IsOpen, Linked, Asks, Kept
    <2>3. OpenInQueue'
      BY DEF OpenInInbox, OpenInHandler, OpenInQueue, IsOpen
    <2> QED
      BY <2>1, <2>2, <2>3 DEF OpenLast
  <1>7. Stored'
    <2>1. OpenStored'
      <3> SUFFICES ASSUME NEW u \in Uris \ early, editor[u].open, ~ Unstored(u)'
                   PROVE  store'[u] # Nothing /\ ~ Closing(u)'
        BY DEF OpenStored
      <3>1. Unstored(u) => a.op = "Upsert" /\ a.uri = u
        BY DEF Unstored, Linked, Asks, Kept
      <3>2. Closing(u)' => Closing(u)
        BY DEF Closing
      <3>3. a.op = "Upsert" /\ a.uri = u => store'[u] # Nothing /\ ~ Closing(u)'
        BY <1>0 DEF Closing, OpenInInbox, OpenInHandler, OpenInQueue, IsOpen, Nothing
      <3>4. a.op = "Drop" => Closing(a.uri)
        BY <1>0 DEF Closing
      <3> QED
        BY <1>0, <3>1, <3>2, <3>3, <3>4 DEF OpenStored, ClosedGone, TextStored, Nothing
    <2>2. ClosedGone'
      BY DEF OpenStored, ClosedGone, TextStored, Closing, OpenInInbox, OpenInHandler,
             OpenInQueue, IsOpen
    <2>3. TextStored'
      BY DEF OpenStored, ClosedGone, TextStored, Changing, OpenInInbox, OpenInHandler,
             OpenInQueue, IsOpen, LastInInbox, LastInQueue, IsChange, IsContent
    <2> QED
      BY <2>1, <2>2, <2>3 DEF Stored
  <1>8. Fits'
    <2> SUFFICES ASSUME NEW h \in Busy', handler'[h].pc \in {"working", "editing"},
                        handler[h].uri \notin early,
                        editor[handler[h].uri].text = handler[h].base,
                        h = a.by, a.op = "Get"
                 PROVE  handler'[h].text = handler[h].base
      BY DEF Fits, Asks
    <2>1. handler[h].uri = a.uri /\ handler[h].base = a.text
      BY DEF Linked, Asks
    <2>2. ~ Changing(a.uri)
      BY <2>1, <1>0 DEF Changing, IsChange, IsContent, InboxInOrder, AfterHandlers,
                        AfterQueue, InboxAfterStore, QueueInOrder, QueueAfterStore,
                        Behind
    <2>3. store[a.uri] \in {Nothing, editor[a.uri].text}
      BY <2>1, <2>2, <1>0 DEF OpenStored, ClosedGone, TextStored
    <2> QED
      BY <2>1, <2>3 DEF Asks
  <1> QED
    BY <1>1, <1>2, <1>3, <1>4, <1>5, <1>6, <1>7, <1>8

-----------------------------------------------------------------------------
(* Every step moves messages on in one of these ways.                      *)

\* A document that is closed is still one.
LEMMA ClosedTyped ==
    \A e \in [open : BOOLEAN, text : Texts] :
        [e EXCEPT !.open = FALSE] \in [open : BOOLEAN, text : Texts]
  OBVIOUS

\* The editor's steps, of its own or with its answer to a handler.
LEMMA SendInv ==
    ASSUME IInv, NEW u \in Uris,
           \/ OpenDocument(u) \/ Edit(u) \/ CloseDocument(u)
           \/ \E c \in Commands : GiveCommand(u, c),
           handler' \in [Handlers -> {Free} \cup Runnings],
           \A h \in Handlers : \/ handler'[h] = handler[h]
                               \/ handler[h].pc = "editing" /\ handler'[h] = Free,
           UNCHANGED <<queue, store>>
    PROVE  IInv'
  <1>1. PICK kind \in Kinds :
           /\ Send(kind, u)
           /\ editor' \in [Uris -> [open : BOOLEAN, text : Texts]]
           /\ \A v \in Uris \ {u} : editor'[v] = editor[v]
           /\ editor'[u].text = editor[u].text + (IF kind = "change" THEN 1 ELSE 0)
           /\ editor'[u].open <=> kind # "close"
           /\ editor[u].open <=> kind # "open"
    <2> USE DEF IInv, TypeOK, Kinds, Commands
    <2>0. editor[u].open \in BOOLEAN /\ editor[u].text \in Nat
      BY DEF Texts
    <2>1. CASE OpenDocument(u)
      <3>1. /\ Send("open", u) /\ ~ editor[u].open
            /\ editor' = [editor EXCEPT ![u].open = TRUE]
        BY <2>1 DEF OpenDocument
      <3>2. editor' \in [Uris -> [open : BOOLEAN, text : Texts]]
        BY <3>1
      <3>3. /\ \A v \in Uris \ {u} : editor'[v] = editor[v]
            /\ editor'[u].text = editor[u].text /\ editor'[u].open = TRUE
        BY <3>1
      <3> QED
        BY <2>0, <3>1, <3>2, <3>3
    <2>2. CASE Edit(u)
      <3>1. /\ Send("change", u) /\ editor[u].open /\ editor[u].text < MaxText
            /\ editor' = [editor EXCEPT ![u].text = @ + 1]
        BY <2>2 DEF Edit
      <3>2. editor[u].text + 1 \in Texts
        BY <3>1, DocumentsAssumption DEF Texts
      <3> QED
        BY <2>0, <3>1, <3>2
    <2>3. CASE CloseDocument(u)
      <3>1. /\ Send("close", u) /\ editor[u].open
            /\ editor' = [editor EXCEPT ![u].open = FALSE]
        BY <2>3 DEF CloseDocument
      <3>2. editor' \in [Uris -> [open : BOOLEAN, text : Texts]]
        <4>1. [editor[u] EXCEPT !.open = FALSE] \in [open : BOOLEAN, text : Texts]
          BY ClosedTyped
        <4> QED
          BY <3>1, <4>1
      <3>3. /\ \A v \in Uris \ {u} : editor'[v] = editor[v]
            /\ editor'[u].text = editor[u].text /\ editor'[u].open = FALSE
        BY <3>1
      <3> QED
        BY <2>0, <3>1, <3>2, <3>3
    <2>4. CASE \E c \in Commands : GiveCommand(u, c)
      <3>1. PICK c \in Commands : Send(c, u) /\ editor[u].open /\ UNCHANGED editor
        BY <2>4 DEF GiveCommand
      <3> QED
        BY <2>0, <3>1
    <2> QED
      BY <2>1, <2>2, <2>3, <2>4
  <1> DEFINE m == [kind |-> kind, uri |-> u, text |-> editor'[u].text]
             n == Len(inbox) + 1
  <1>2. m \in Messages /\ m.kind = kind /\ m.uri = u /\ m.text = editor'[u].text
    BY <1>1 DEF Messages
  <1>3. /\ inbox' \in Seq(Messages) /\ Grows(inbox, inbox', n, m)
        /\ n \in DOMAIN inbox' /\ inbox'[n] = m
    <2>1. inbox' = Append(inbox, m) /\ inbox \in Seq(Messages)
      BY <1>1 DEF Send, IInv, TypeOK
    <2> HIDE DEF m
    <2> QED
      BY <2>1, <1>2, AppendGrows
  <1>4. TypeOK'
    <2>1. sent' \in 0 .. MaxSends
      BY <1>1, DocumentsAssumption DEF Send, IInv, TypeOK
    <2>2. early' \subseteq Uris
      BY <1>1 DEF Send, IInv, TypeOK
    <2> QED
      BY <1>1, <1>3, <2>1, <2>2 DEF IInv, TypeOK, Runnings, Pcs
  <1>5. /\ Busy' \subseteq Busy
        /\ \A h \in Busy' : handler'[h] = handler[h]
        /\ \A h \in Busy \ Busy' : handler[h].pc = "editing"
    BY DEF Busy, Free
  <1>6. early' = IF Opening(u) /\ kind \notin Commands THEN early \cup {u} ELSE early
    BY <1>1 DEF Send
  <1> HIDE DEF m, n
  <1>7. Sends(m, n)
    BY <1>1, <1>2, <1>3, <1>5, <1>6 DEF Sends
  <1> QED
    BY <1>4, <1>7, SendsInv, TypePlain DEF IInv

\* What a handler is that takes the next message.
LEMMA ArrivesParts ==
    ASSUME TypeOK, NEW kind, Arrives(kind), NEW pc \in Pcs, Begin(pc)
    PROVE  /\ Head(inbox) \in Messages /\ Head(inbox).kind = kind
           /\ inbox' \in Seq(Messages) /\ Shrinks(inbox, inbox', Head(inbox))
           /\ Spare \in Handlers \ Busy
           /\ handler' \in [Handlers -> {Free} \cup Runnings]
           /\ handler'[Spare] = Running(pc, Head(inbox))
           /\ \A h \in Busy : handler'[h] = handler[h]
           /\ Busy' = Busy \cup {Spare}
  <1>1. Spare \in Handlers \ Busy
    <2>1. Handlers \ Busy # {}
      BY DEF Arrives, Busy
    <2> QED
      BY <2>1 DEF Spare
  <1>2. /\ Head(inbox) \in Messages /\ Head(inbox).kind = kind
        /\ inbox' \in Seq(Messages) /\ Shrinks(inbox, inbox', Head(inbox))
    BY TailShrinks DEF Arrives, TypeOK
  <1>3. Running(pc, Head(inbox)) \in Runnings /\ Running(pc, Head(inbox)).pc = pc
    BY <1>2 DEF Running, Runnings, Messages
  <1>4. pc # "free"
    BY DEF Pcs
  <1>5. handler \in [Handlers -> {Free} \cup Runnings]
    BY DEF TypeOK, Runnings, Pcs
  <1>6. handler' = [handler EXCEPT ![Spare] = Running(pc, Head(inbox))]
    BY DEF Begin
  <1> HIDE DEF Begin
  <1> QED
    BY <1>1, <1>2, <1>3, <1>4, <1>5, <1>6 DEF Busy

\* The handlers as they start.
LEMMA StartInv == IInv /\ Start => IInv'
  <1> SUFFICES ASSUME IInv, Start PROVE IInv'
    OBVIOUS
  <1> DEFINE m == Head(inbox)
             h == Spare
             n == Len(queue) + 1
  <1>0. TypeOK
    BY DEF IInv
  <1>1. ASSUME NEW kind \in Kinds, NEW pc \in Pcs, NEW op, NEW asks \in BOOLEAN,
               Arrives(kind), Begin(pc),
               op \in {"Upsert", "Drop", "Get", "UpsertContent"},
               IF asks THEN Enqueue(Action(op, Spare, Head(inbox))) ELSE UNCHANGED queue,
               asks <=> kind \in {"change", "close", "fix"},
               op = CASE kind = "change" -> "UpsertContent"
                      [] kind = "close" -> "Drop"
                      [] OTHER -> "Get",
               pc = CASE kind = "open" -> "checking"
                      [] kind = "close" -> "sending"
                      [] kind = "apply" -> "loading"
                      [] OTHER -> "asking",
               UNCHANGED <<editor, sent, early, store>>
        PROVE  IInv'
    <2> DEFINE a == Action(op, h, m)
    <2>1. /\ m \in Messages /\ m.kind = kind
          /\ inbox' \in Seq(Messages) /\ Shrinks(inbox, inbox', m)
          /\ h \in Handlers \ Busy
          /\ handler' \in [Handlers -> {Free} \cup Runnings]
          /\ handler'[h] = Running(pc, m)
          /\ \A k \in Busy : handler'[k] = handler[k]
          /\ Busy' = Busy \cup {h}
      BY <1>0, <1>1, ArrivesParts
    <2>2. /\ handler'[h].kind = m.kind /\ handler'[h].uri = m.uri
          /\ handler'[h].text = m.text /\ handler'[h].base = m.text
          /\ handler'[h].pc = pc
      BY <2>1 DEF Running
    <2>3. a \in Actions /\ a.op = op /\ a.by = h /\ a.uri = m.uri /\ a.text = m.text
      BY <1>1, <2>1 DEF Action, Actions, Messages
    <2>4. queue \in Seq(Actions) /\ DOMAIN queue = 1 .. Len(queue) /\ Len(queue) \in Nat
      BY <1>0 DEF TypeOK, Actions
    <2>5. /\ queue' \in Seq(Actions) /\ Grows(queue, queue', n, a)
          /\ asks <=> n \in DOMAIN queue'
      <3> HIDE DEF a
      <3>1. CASE asks
        <4>1. queue' = Append(queue, a)
          BY <1>1, <3>1 DEF Enqueue, a
        <4> QED
          BY <2>3, <2>4, <3>1, <4>1, AppendGrows
      <3>2. CASE ~ asks
        BY <1>1, <2>4, <3>2, SameGrows
      <3> QED
        BY <3>1, <3>2
    <2>6. TypeOK'
      BY <1>0, <1>1, <2>1, <2>5 DEF TypeOK, Actions, Runnings, Pcs
    <2> HIDE DEF a, h, m, n
    <2>7. Takes(m, h, n, a)
      BY <1>1, <2>1, <2>2, <2>3, <2>5 DEF Takes
    <2> QED
      BY <2>6, <2>7, TakesInv, TypePlain DEF IInv
  <1>2. CASE StartOpen
    BY <1>1, <1>2, "open" \in Kinds, "checking" \in Pcs DEF StartOpen, Kinds, Pcs
  <1>3. CASE StartChange
    BY <1>1, <1>3 DEF StartChange, Kinds, Pcs
  <1>4. CASE StartClose
    BY <1>1, <1>4 DEF StartClose, Kinds, Pcs
  <1>5. CASE StartFix
    BY <1>1, <1>5 DEF StartFix, Kinds, Commands, Pcs
  <1>6. CASE StartApply
    BY <1>1, <1>6 DEF StartApply, Kinds, Commands, Pcs
  <1> QED
    BY <1>2, <1>3, <1>4, <1>5, <1>6 DEF Start

\* The steps of a handler that has a message.
LEMMA StepInv == ASSUME IInv, NEW h \in Handlers, Step(h) PROVE IInv'
  <1> DEFINE n == Len(queue) + 1
             w == handler[h]
  <1>0. /\ TypeOK /\ Kept
        /\ handler \in [Handlers -> {Free} \cup Runnings]
        /\ queue \in Seq(Actions) /\ DOMAIN queue = 1 .. Len(queue) /\ Len(queue) \in Nat
        /\ Free.pc = "free"
        /\ w = Free \/ (w \in Runnings /\ h \in Busy)
    <2>1. TypeOK /\ Kept /\ handler \in [Handlers -> {Free} \cup Runnings]
      BY DEF IInv, MInv, TypeOK, Runnings, Pcs
    <2>2. queue \in Seq(Actions) /\ DOMAIN queue = 1 .. Len(queue) /\ Len(queue) \in Nat
      BY <2>1 DEF TypeOK, Actions
    <2>3. \A r \in Runnings : r.pc # "free"
      BY DEF Runnings, Pcs
    <2>4. Free.pc = "free"
      BY DEF Free
    <2> QED
      BY <2>1, <2>2, <2>3, <2>4 DEF Busy
  <1>1. ASSUME w \in Runnings, NEW pc \in Pcs,
               NEW op \in {"Upsert", "Get"}, NEW asks \in BOOLEAN,
               handler' = [handler EXCEPT ![h].pc = pc],
               IF asks THEN Enqueue(Action(op, h, w)) ELSE UNCHANGED queue,
               UNCHANGED <<editing, store>>,
               asks <=> w.pc \in {"loading", "storing"},
               op = IF w.pc = "storing" THEN "Upsert" ELSE "Get",
               \/ w.pc = "loading" /\ pc = "asking"
               \/ w.pc = "checking" /\ pc = "storing" /\ w.kind = "open"
               \/ w.pc = "storing" /\ pc = "sending"
               \/ w.pc = "working" /\ pc = "editing"
        PROVE  IInv'
    <2> DEFINE a == Action(op, h, w)
    <2>1. /\ handler' \in [Handlers -> {Free} \cup Runnings]
          /\ handler'[h].pc = pc /\ handler'[h].kind = w.kind /\ handler'[h].uri = w.uri
          /\ handler'[h].text = w.text /\ handler'[h].base = w.base
          /\ \A k \in Handlers \ {h} : handler'[k] = handler[k]
      <3>1. [w EXCEPT !.pc = pc] \in Runnings
        BY <1>1 DEF Runnings
      <3>2. handler' = [handler EXCEPT ![h] = [w EXCEPT !.pc = pc]]
        BY <1>1
      <3>3. /\ [w EXCEPT !.pc = pc].pc = pc /\ [w EXCEPT !.pc = pc].kind = w.kind
            /\ [w EXCEPT !.pc = pc].uri = w.uri /\ [w EXCEPT !.pc = pc].text = w.text
            /\ [w EXCEPT !.pc = pc].base = w.base
        BY <1>1 DEF Runnings
      <3> DEFINE r == [w EXCEPT !.pc = pc]
      <3> HIDE DEF r, w
      <3> QED
        BY <1>0, <3>1, <3>2, <3>3 DEF r
    <2>2. /\ Busy' = Busy /\ h \in Busy
          /\ \A k \in Busy \ {h} : handler'[k] = handler[k]
      BY <1>0, <1>1, <2>1 DEF Busy, Pcs
    <2>3. a \in Actions /\ a.op = op /\ a.by = h /\ a.uri = w.uri /\ a.text = w.text
      BY <1>1 DEF Action, Actions, Runnings
    <2>4. /\ queue' \in Seq(Actions) /\ Grows(queue, queue', n, a)
          /\ asks <=> n \in DOMAIN queue'
          /\ asks => queue'[n] = a
      <3> HIDE DEF a
      <3>1. CASE asks
        <4>1. queue' = Append(queue, a)
          BY <1>1, <3>1 DEF Enqueue, a
        <4> QED
          BY <1>0, <2>3, <3>1, <4>1, AppendGrows
      <3>2. CASE ~ asks
        BY <1>0, <1>1, <3>2, SameGrows
      <3> QED
        BY <3>1, <3>2
    <2>5. TypeOK'
      BY <1>0, <1>1, <2>1, <2>4 DEF TypeOK, Actions, Runnings, Pcs, editing
    <2> HIDE DEF a, n, w
    <2>6. GoesOn(h, n, a)
      BY <1>1, <2>1, <2>2, <2>3, <2>4 DEF GoesOn, editing, w
    <2> QED
      BY <2>5, <2>6, GoesOnInv, TypePlain DEF IInv
  <1>2. ASSUME handler' = [handler EXCEPT ![h] = Free],
               w \in Runnings,
               \/ w.pc \in {"sending", "working", "editing"}
               \/ w.pc = "checking" /\ w.kind # "open",
               UNCHANGED <<editing, queue, store>>
        PROVE  IInv'
    <2> DEFINE a == Action("Get", h, w)
    <2>1. /\ handler' \in [Handlers -> {Free} \cup Runnings]
          /\ Busy' = Busy \ {h} /\ h \in Busy
          /\ \A k \in Busy \ {h} : handler'[k] = handler[k]
      BY <1>0, <1>2 DEF Busy
    <2>2. TypeOK'
      BY <1>0, <1>2, <2>1 DEF TypeOK, Runnings, Pcs, editing
    <2>3. Grows(queue, queue', n, a) /\ n \notin DOMAIN queue'
      BY <1>0, <1>2, SameGrows
    <2>4. a.op = "Get" /\ a.by = h /\ a.uri = w.uri /\ a.text = w.text
      BY DEF Action
    <2> HIDE DEF a, n, w
    <2>5. GoesOn(h, n, a)
      BY <1>2, <2>1, <2>3, <2>4 DEF GoesOn, editing, w
    <2> QED
      BY <2>2, <2>5, GoesOnInv, TypePlain DEF IInv
  <1>3. CASE Loaded(h)
    <2>1. w \in Runnings
      BY <1>0, <1>3 DEF Loaded
    <2> QED
      BY <1>1, <1>3, <2>1 DEF Loaded, Pcs
  <1>4. CASE Checked(h)
    <2>1. w \in Runnings /\ w.pc = "checking" /\ UNCHANGED <<editing, queue, store>>
      BY <1>0, <1>4 DEF Checked
    <2>2. CASE w.kind = "open"
      <3>1. handler' = [handler EXCEPT ![h].pc = "storing"]
        BY <1>4, <2>2 DEF Checked
      <3> QED
        BY <1>1, <2>1, <2>2, <3>1 DEF Pcs
    <2>3. CASE w.kind # "open"
      <3>1. handler' = [handler EXCEPT ![h] = Free]
        BY <1>4, <2>3 DEF Checked
      <3> QED
        BY <1>2, <2>1, <2>3, <3>1
    <2> QED
      BY <2>2, <2>3
  <1>5. CASE StoreOpened(h)
    <2>1. w \in Runnings
      BY <1>0, <1>5 DEF StoreOpened
    <2> QED
      BY <1>1, <1>5, <2>1 DEF StoreOpened, Pcs
  <1>6. CASE Sent(h)
    <2>1. w \in Runnings
      BY <1>0, <1>6 DEF Sent
    <2> QED
      BY <1>2, <1>6, <2>1 DEF Sent
  <1>7. CASE Worked(h)
    <2>1. /\ w \in Runnings /\ w.pc = "working" /\ UNCHANGED <<editing, queue, store>>
          /\ \/ handler' = [handler EXCEPT ![h] = Free]
             \/ handler' = [handler EXCEPT ![h].pc = "editing"]
      BY <1>0, <1>7 DEF Worked
    <2>2. CASE handler' = [handler EXCEPT ![h] = Free]
      BY <1>2, <2>1, <2>2
    <2>3. CASE handler' = [handler EXCEPT ![h].pc = "editing"]
      BY <1>1, <2>1, <2>3 DEF Pcs
    <2> QED
      BY <2>1, <2>2, <2>3
  <1>8. CASE AnswerEdit(h)
    <2>1. /\ w \in Runnings /\ w.pc = "editing" /\ UNCHANGED <<queue, store>>
          /\ handler' = [handler EXCEPT ![h] = Free]
          /\ Edit(w.uri) \/ UNCHANGED editing
      BY <1>0, <1>8 DEF AnswerEdit
    <2>2. CASE UNCHANGED editing
      BY <1>2, <2>1, <2>2
    <2>3. CASE Edit(w.uri)
      <3>1. w.uri \in Uris
        BY <2>1 DEF Runnings
      <3>2. /\ handler' \in [Handlers -> {Free} \cup Runnings]
            /\ \A k \in Handlers : \/ handler'[k] = handler[k]
                                   \/ handler[k].pc = "editing" /\ handler'[k] = Free
        <4>1. handler' \in [Handlers -> {Free} \cup Runnings]
          BY <1>0, <2>1
        <4>2. handler'[h] = Free /\ \A k \in Handlers \ {h} : handler'[k] = handler[k]
          BY <1>0, <2>1
        <4> QED
          BY <2>1, <4>1, <4>2
      <3> QED
        BY <2>1, <2>3, <3>1, <3>2, SendInv
    <2> QED
      BY <2>1, <2>2, <2>3
  <1> QED
    BY <1>3, <1>4, <1>5, <1>6, <1>7, <1>8 DEF Step

\* The steps of the document manager.
LEMMA ManagerInv == IInv /\ Manager => IInv'
  <1> SUFFICES ASSUME IInv, Manager PROVE IInv'
    OBVIOUS
  <1> DEFINE a == Head(queue)
             w == handler[a.by]
  <1>0. /\ queue # <<>> /\ queue' = Tail(queue) /\ UNCHANGED editing
        /\ queue \in Seq(Actions)
        /\ TypeOK /\ Linked /\ handler \in [Handlers -> {Free} \cup Runnings]
        /\ store \in [Uris -> Texts \cup {Nothing}]
    <2>1. queue # <<>> /\ queue' = Tail(queue) /\ UNCHANGED editing
      BY DEF Manager, DoUpsert, DoDrop, DoGet, DoUpsertContent, Received
    <2>2. /\ queue \in Seq(Actions)
          /\ TypeOK /\ Linked /\ handler \in [Handlers -> {Free} \cup Runnings]
          /\ store \in [Uris -> Texts \cup {Nothing}]
      BY DEF IInv, MInv, TypeOK, Actions, Runnings, Pcs
    <2> QED
      BY <2>1, <2>2
  <1>1. a \in Actions /\ queue' \in Seq(Actions) /\ Shrinks(queue, queue', a)
    BY <1>0, TailShrinks
  <1>2. /\ a.op \in {"Upsert", "Drop", "Get", "UpsertContent"} /\ a.by \in Handlers
        /\ a.uri \in Uris /\ a.text \in Texts /\ a.text # Nothing
    BY <1>1 DEF Actions, Texts, Nothing
  <1>3. \A r \in Runnings : r.pc # "free"
    BY DEF Runnings, Pcs
  <1>4. Free.pc = "free"
    BY DEF Free
  <1>5. a.op \in Asks => w.pc = "asking" /\ w \in Runnings /\ a.by \in Busy
    <2>1. a.op \in Asks => w.pc = "asking"
      BY <1>0, <1>1 DEF Linked, Shrinks
    <2> QED
      BY <1>0, <1>2, <1>4, <2>1 DEF Busy
  <1> HIDE DEF a, w
  <1>6. ASSUME a.op \notin Asks, UNCHANGED handler, NEW t \in Texts \cup {Nothing},
               store' = [store EXCEPT ![a.uri] = t],
               t = IF a.op = "Upsert" THEN a.text ELSE Nothing
        PROVE  IInv'
    <2>1. TypeOK'
      BY <1>0, <1>1, <1>2, <1>6 DEF TypeOK, editing, Actions
    <2>2. Receives(a)
      BY <1>0, <1>1, <1>2, <1>6 DEF Receives, editing, Asks, Busy
    <2> QED
      BY <2>1, <2>2, ReceivesInv, TypePlain DEF IInv
  <1>7. ASSUME a.op \in Asks, NEW t \in Texts \cup {Nothing},
               store' = [store EXCEPT ![a.uri] = t],
               t = IF a.op = "UpsertContent" /\ store[a.uri] # Nothing
                   THEN a.text ELSE store[a.uri],
               NEW pc, pc = IF a.op = "Get" THEN "working" ELSE "checking",
               handler' = [handler EXCEPT ![a.by] =
                              IF t = Nothing THEN Free
                              ELSE [w EXCEPT !.pc = pc, !.text = t]]
        PROVE  IInv'
    <2> DEFINE r == [w EXCEPT !.pc = pc, !.text = t]
    <2>1. t # Nothing => r \in Runnings
      BY <1>5, <1>7 DEF Runnings, Pcs
    <2>2. t # Nothing => /\ r.pc = pc /\ r.kind = w.kind /\ r.uri = w.uri
                         /\ r.text = t /\ r.base = w.base
      BY <1>5, <1>7 DEF Runnings
    <2> HIDE DEF r
    <2>3. handler' = [handler EXCEPT ![a.by] = IF t = Nothing THEN Free ELSE r]
      BY <1>7 DEF r
    <2>4. /\ handler' \in [Handlers -> {Free} \cup Runnings]
          /\ handler'[a.by] = IF t = Nothing THEN Free ELSE r
          /\ \A h \in Handlers \ {a.by} : handler'[h] = handler[h]
      BY <1>0, <1>2, <2>1, <2>3
    <2>5. /\ Busy' \subseteq Busy
          /\ \A h \in Busy : h # a.by => h \in Busy' /\ handler'[h] = handler[h]
          /\ a.by \in Busy' => t # Nothing
      BY <1>4, <1>5, <1>7, <2>4 DEF Busy
    <2>6. TypeOK'
      BY <1>0, <1>1, <1>2, <1>7, <2>4 DEF TypeOK, editing, Actions, Runnings, Pcs
    <2>7. /\ \A u \in Uris \ {a.uri} : store'[u] = store[u]
          /\ store'[a.uri] = t
      BY <1>0, <1>2, <1>7
    <2>8. t = CASE a.op = "Upsert" -> a.text
                [] a.op = "Drop" -> Nothing
                [] a.op = "UpsertContent" /\ store[a.uri] # Nothing -> a.text
                [] OTHER -> store[a.uri]
      BY <1>7 DEF Asks
    <2>9. Receives(a)
      BY <1>0, <1>1, <1>7, <2>2, <2>4, <2>5, <2>7, <2>8 DEF Receives, editing, w
    <2> QED
      BY <2>6, <2>9, ReceivesInv, TypePlain DEF IInv
  <1>8. CASE DoUpsert
    <2>1. a.op = "Upsert" /\ UNCHANGED handler /\ store' = [store EXCEPT ![a.uri] = a.text]
      BY <1>8 DEF DoUpsert, Received, a
    <2> QED
      BY <1>2, <1>6, <2>1 DEF Asks
  <1>9. CASE DoDrop
    <2>1. a.op = "Drop" /\ UNCHANGED handler /\ store' = [store EXCEPT ![a.uri] = Nothing]
      BY <1>9 DEF DoDrop, Received, a
    <2> QED
      BY <1>6, <2>1 DEF Asks
  <1>10. CASE DoGet
    <2>1. /\ a.op = "Get" /\ UNCHANGED store
          /\ handler' = [handler EXCEPT ![a.by] =
                            IF store[a.uri] = Nothing THEN Free
                            ELSE [w EXCEPT !.pc = "working", !.text = store[a.uri]]]
      BY <1>10 DEF DoGet, Received, Reply, a, w
    <2>2. store' = [store EXCEPT ![a.uri] = store[a.uri]] /\ store[a.uri] \in Texts \cup {Nothing}
      BY <1>0, <1>2, <2>1
    <2> QED
      BY <1>7, <2>1, <2>2 DEF Asks
  <1>11. CASE DoUpsertContent
    <2> DEFINE t == IF store[a.uri] = Nothing THEN store[a.uri] ELSE a.text
    <2>1. a.op = "UpsertContent" /\ store' = [store EXCEPT ![a.uri] = t]
      BY <1>11 DEF DoUpsertContent, Received, a
    <2>2. t \in Texts \cup {Nothing} /\ store'[a.uri] = t
      BY <1>0, <1>2, <2>1
    <2>3. handler' = [handler EXCEPT ![a.by] =
                         IF t = Nothing THEN Free
                         ELSE [w EXCEPT !.pc = "checking", !.text = t]]
      BY <1>11, <2>2 DEF DoUpsertContent, Reply, a, w
    <2> QED
      BY <1>7, <2>1, <2>2, <2>3 DEF Asks
  <1> QED
    BY <1>8, <1>9, <1>10, <1>11 DEF Manager

-----------------------------------------------------------------------------
\* The initial state satisfies the invariant.
LEMMA InitInv == Init => IInv
  <1> SUFFICES ASSUME Init PROVE IInv
    OBVIOUS
  <1>1. TypeOK
    <2>1. 1 \in Texts /\ 0 \in 0 .. MaxSends
      BY DocumentsAssumption DEF Texts
    <2> QED
      BY <2>1 DEF Init, TypeOK, Nothing
  <1>2. Busy = {}
    BY DEF Init, Busy, Free
  <1>3. DOMAIN inbox = {} /\ DOMAIN queue = {}
    BY DEF Init
  <1>4. \A u \in Uris : /\ store[u] = Nothing /\ editor[u].text = 1
                        /\ ~ editor[u].open
    BY DEF Init
  <1> QED
    BY <1>1, <1>2, <1>3, <1>4
       DEF IInv, MInv, InOrder, InboxInOrder, AfterHandlers, AfterQueue,
           InboxAfterStore, QueueInOrder, QueueAfterStore, LastChange, LastInInbox,
           LastInQueue, OpenLast, OpenInInbox, OpenInHandler, OpenInQueue, IsOpen,
           Stored, OpenStored, ClosedGone, TextStored, Linked, Kept, Behind, Fits,
           Unstored, Changing, Closing, Nothing

\* Every step preserves the invariant.
LEMMA NextInv == IInv /\ [Next]_vars => IInv'
  <1> SUFFICES ASSUME IInv, [Next]_vars PROVE IInv'
    OBVIOUS
  <1>1. CASE EditorStep
    <2>1. PICK u \in Uris : \/ OpenDocument(u) \/ Edit(u) \/ CloseDocument(u)
                            \/ \E c \in Commands : GiveCommand(u, c)
      BY <1>1 DEF EditorStep
    <2>2. UNCHANGED <<handler, queue, store>>
      BY <1>1 DEF EditorStep
    <2>3. handler \in [Handlers -> {Free} \cup Runnings]
      BY DEF IInv, TypeOK, Runnings, Pcs
    <2>4. /\ handler' \in [Handlers -> {Free} \cup Runnings]
          /\ \A h \in Handlers : handler'[h] = handler[h]
      BY <2>2, <2>3
    <2> QED
      BY <2>1, <2>2, <2>4, SendInv
  <1>2. CASE Start
    BY <1>2, StartInv
  <1>3. CASE \E h \in Handlers : Step(h)
    BY <1>3, StepInv
  <1>4. CASE Manager
    BY <1>4, ManagerInv
  <1>5. CASE UNCHANGED vars
    BY <1>5 DEF vars, IInv, TypeOK,
           MInv, InOrder, InboxInOrder, AfterHandlers, AfterQueue,
           InboxAfterStore, QueueInOrder, QueueAfterStore, LastChange, LastInInbox,
           LastInQueue, OpenLast, OpenInInbox, OpenInHandler, OpenInQueue, IsOpen,
           Stored, OpenStored, ClosedGone, TextStored, Linked, Kept, Behind, Fits,
           Busy, Unstored, Changing, Closing, IsChange, IsContent
  <1> QED
    BY <1>1, <1>2, <1>3, <1>4, <1>5 DEF Next, Stay

\* The inductive invariant holds in every reachable state.
LEMMA Invariance == Spec => []IInv
  BY InitInv, NextInv, PTL DEF Spec

-----------------------------------------------------------------------------
\* The store, the channel and the handlers have the values they are meant to have.
THEOREM DocumentsTyped == Spec => []TypeOK
  BY Invariance, PTL DEF IInv

\* SettledCurrent: once everything about a document is handled, run_doc_manager has
\* the text the editor has, unless the document was in early.
THEOREM SettledCurrentAlways == Spec => []SettledCurrent
  <1>1. IInv => SettledCurrent
    <2> SUFFICES ASSUME IInv, NEW u \in Uris \ early, Settled(u) PROVE Current(u)
      BY DEF SettledCurrent
    <2>1. ~ Unstored(u) /\ ~ Changing(u) /\ ~ Closing(u)
      BY DEF Settled, Unstored, Changing, Closing, IsChange, IsContent
    <2> QED
      BY <2>1 DEF IInv, MInv, Stored, TextStored, OpenStored, ClosedGone, Current
  <1> QED
    BY <1>1, Invariance, PTL

\* EditFits: the edits a command sends are for the text the editor has, if that is
\* still the text it had when the command was given.
THEOREM EditFitsAlways == Spec => []EditFits
  <1>1. IInv => EditFits
    BY DEF IInv, MInv, Fits, EditFits
  <1> QED
    BY <1>1, Invariance, PTL

\* ChangesInOrder: the handlers of did_change never put a text of the store back.
THEOREM ChangesInOrderAlways == Spec => ChangesInOrder
  <1>1. IInv /\ [Next]_vars =>
           [\A u \in Uris : store'[u] < store[u] =>
                              store'[u] = Nothing \/ Head(queue).op = "Upsert"]_store
    <2> SUFFICES ASSUME IInv, [Next]_vars, store' # store,
                        NEW u \in Uris, store'[u] < store[u]
                 PROVE  store'[u] = Nothing \/ Head(queue).op = "Upsert"
      OBVIOUS
    <2>1. TypeOK /\ Plain
      BY TypePlain DEF IInv
    <2>2. Manager
      BY DEF Next, vars, EditorStep, Start, StartOpen, StartChange, StartClose, StartFix,
             StartApply, Step, Loaded, Checked, StoreOpened, Sent, Worked, AnswerEdit, Stay
    <2>3. CASE DoUpsert
      BY <2>3 DEF DoUpsert, Received
    <2>4. CASE DoDrop
      BY <2>1, <2>4 DEF DoDrop, TypeOK, Plain
    <2>5. CASE DoGet
      BY <2>5 DEF DoGet
    <2>6. CASE DoUpsertContent
      <3>1. /\ 1 \in DOMAIN queue /\ queue[1] = Head(queue)
            /\ queue[1].op = "UpsertContent"
        <4>1. queue \in Seq(Actions) /\ queue # <<>>
          BY <2>1, <2>6 DEF TypeOK, Actions, DoUpsertContent, Received
        <4> QED
          BY <2>6, <4>1 DEF DoUpsertContent, Received
      <3>2. /\ queue[1].uri \in Uris /\ IsText(queue[1].text)
            /\ store[queue[1].uri] < queue[1].text
        BY <2>1, <3>1 DEF IInv, MInv, InOrder, QueueAfterStore, IsContent, Plain
      <3>3. store' = [store EXCEPT ![queue[1].uri] =
                         IF @ = Nothing THEN @ ELSE queue[1].text]
        BY <2>6, <3>1 DEF DoUpsertContent
      <3>4. /\ store'[u] = store[u] \/ store[u] < store'[u]
            /\ store[u] \in Nat /\ store'[u] \in Nat
        BY <2>1, <3>2, <3>3 DEF TypeOK, Plain, IsText
      <3> QED
        BY <3>4
    <2> QED
      BY <2>2, <2>3, <2>4, <2>5, <2>6 DEF Manager
  <1> QED
    BY <1>1, Invariance, PTL DEF Spec, ChangesInOrder
=============================================================================

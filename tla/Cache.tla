-------------------------------- MODULE Cache --------------------------------
(***************************************************************************)
(* The mismatch cache: ThreadedCache of gritcache/src/new_cache.rs, opened *)
(* by cache_for_cwd (paths.rs), and the file behind it, which every grit   *)
(* process of the project shares.                                          *)
(*                                                                         *)
(* The file is a version byte followed by keys of 64 bytes, with nothing   *)
(* between them.  Opening reads the whole file into a snapshot, which is   *)
(* all that has_no_matches looks at.  put_no_matches sends the key to a    *)
(* thread of the process, whose BufWriter appends to the file when it is   *)
(* full or dropped, in one write or, when the system cuts a write short,   *)
(* in several, with writes of other processes in between; closing is       *)
(* drop(cache), which ends the channel, and then manager.join().  A        *)
(* process may also end without it.                                        *)
(*                                                                         *)
(* A key is kept as three bytes: the first byte of the file hash, which    *)
(* may happen to be the version, the rest of the file hash, and the        *)
(* pattern hash.                                                           *)
(***************************************************************************)
EXTENDS Naturals, Sequences, FiniteSets

CONSTANTS
    Procs,          \* grit processes of one project
    Files, Patterns,\* hashes
    Mismatches,     \* pairs of a file and a pattern that does not match it
    FirstIsVersion, \* the file hashes that begin with the version byte
    Commands,       \* that open the cache: "check", "apply"
    Starts,         \* the file at first: "missing", "old" or "versioned"
    Capacity,       \* bytes a BufWriter holds (8192)
    MayRefresh,     \* --refresh-cache may be given
    MayCrash,       \* a process may end without closing its cache
    MaxPuts,        \* bound: puts by all processes together
    MaxOpens,       \* bound: openings by all processes together
    MaxTears        \* bound: writes that are cut short or fail (disk full)

Version == <<2, "version">>
OldVersion == <<1, "version">>
Width == 3          \* bytes of a key (64)

ASSUME MismatchesAssumption == Mismatches \subseteq Files \X Patterns
ASSUME FirstAssumption == FirstIsVersion \subseteq Files
ASSUME CommandsAssumption == Commands \subseteq {"check", "apply"}
ASSUME StartsAssumption == Starts \subseteq {"missing", "old", "versioned"}
ASSUME CapacityAssumption == Capacity \in Nat /\ Capacity > Width
ASSUME FlagsAssumption == {MayRefresh, MayCrash} \subseteq BOOLEAN
ASSUME BoundsAssumption == MaxPuts \in Nat /\ MaxOpens \in Nat /\ MaxTears \in Nat

VARIABLES
    exists,     \* the cache file is there
    file,       \* its bytes
    pc,         \* per process: where in opening or closing it is
    no_matches, \* per process: the snapshot, a set of keys
    sender,     \* per process: the cache's end of the channel is alive
    chan,       \* per process: keys sent and not received
    writer,     \* per process: its manager thread
    buffer,     \* per process: bytes in the thread's BufWriter
    mine,       \* per process: the pairs put since it opened the cache
    ever,       \* every pair any process ever put
    since,      \* the pairs that may have been written since it was truncated
    headed,     \* the file began empty, got its version byte first, and no write
                \* began or ended within a key
    intact,     \* processes that read or reset it since it was last truncated
                \* and had no write fail
    torn,       \* processes a write of which ended within a key
    opens,      \* openings so far
    puts,       \* puts so far
    tears       \* writes so far that were cut short or failed

vars == <<exists, file, pc, no_matches, sender, chan, writer, buffer, mine, ever,
          since, headed, intact, torn, opens, puts, tears>>
disk == <<exists, file, headed, intact, torn, tears>>
thread == <<writer, buffer>>
history == <<mine, ever, since, puts>>

Pairs == Files \X Patterns
FirstByte(f) == IF f \in FirstIsVersion THEN Version ELSE <<f, "first">>

\* Mutation: both halves of the key are the pattern hash.
KeyOfPattern(f, q) == <<<<q, "first">>, <<q, "rest">>, <<q, "pattern">>>>

\* Self::key: the two hashes, one after the other.
Key(f, q) == <<FirstByte(f), <<f, "rest">>, <<q, "pattern">>>>

KeysOf(pairs) == {Key(x[1], x[2]) : x \in pairs}

\* key_vector.chunks_exact(64) behind the version byte: a tail that is shorter
\* than a key is left out.
Chunks(bytes) ==
    LET n == (Len(bytes) - 1) \div Width
    IN  {SubSeq(bytes, 2 + i * Width, 1 + (i + 1) * Width) : i \in 0 .. n - 1}

HasVersion(bytes) == bytes # <<>> /\ bytes[1] = Version

\* has_no_matches, of a snapshot.
Has(snapshot, f, q) == Key(f, q) \in snapshot

-----------------------------------------------------------------------------
Init ==
    /\ \E start \in Starts :
          /\ exists = (start # "missing")
          /\ file = CASE start = "missing" -> <<>>
                      [] start = "old" -> <<OldVersion>>
                      [] start = "versioned" -> <<Version>>
          /\ headed = (start = "versioned")
    /\ intact = {}
    /\ torn = {}
    /\ pc = [p \in Procs |-> "off"]
    /\ no_matches = [p \in Procs |-> {}]
    /\ sender = [p \in Procs |-> FALSE]
    /\ chan = [p \in Procs |-> <<>>]
    /\ writer = [p \in Procs |-> "none"]
    /\ buffer = [p \in Procs |-> <<>>]
    /\ mine = [p \in Procs |-> {}]
    /\ ever = {}
    /\ since = {}
    /\ opens = 0 /\ puts = 0 /\ tears = 0

\* Every write succeeds and is whole, or may be cut short or fail.
Untorn == tears' = tears
Tear == tears < MaxTears /\ tears' = tears + 1

Goto(p, place) == pc' = [pc EXCEPT ![p] = place]

\* cache_for_cwd and ThreadedCache::new(dir, refresh).  The --refresh-cache of an
\* apply excludes --cache, without which it is given a NullCache.
Open(p) ==
    /\ pc[p] = "off"
    /\ opens < MaxOpens
    /\ opens' = opens + 1
    /\ \/ MayRefresh /\ "check" \in Commands /\ Goto(p, "truncating")
       \/ MayRefresh /\ "apply" \in Commands /\ Goto(p, "null")
       \/ Goto(p, "reading")
    /\ UNCHANGED <<disk, no_matches, sender, chan, thread, history>>

\* The process ends without having used its NullCache, which has no thread.
LeaveNull(p) ==
    /\ pc[p] = "null"
    /\ Goto(p, "off")
    /\ UNCHANGED <<disk, no_matches, sender, chan, thread, history, opens>>

\* Mutation: the file is opened for reset without truncating it.
TruncateNothing(p) ==
    /\ pc[p] = "truncating"
    /\ Goto(p, "versioning")
    /\ exists' = TRUE
    /\ intact' = {}
    /\ since' = UNION {mine[o] : o \in Procs \ {p}}
    /\ UNCHANGED <<file, headed, torn, tears, no_matches, sender, chan, thread,
                   mine, ever, opens, puts>>

\* reset: the file is created or emptied ..
Truncate(p) ==
    /\ pc[p] = "truncating"
    /\ Goto(p, "versioning")
    /\ exists' = TRUE
    /\ file' = <<>>
    /\ headed' = FALSE
    /\ intact' = {}
    /\ since' = UNION {mine[o] : o \in Procs \ {p}}
    /\ UNCHANGED <<torn, tears, no_matches, sender, chan, thread, mine, ever, opens, puts>>

\* .. and the version is written at offset 0, when reset drops its BufWriter, which
\* ignores a failure.
WriteVersion(p) ==
    /\ pc[p] = "versioning"
    /\ Goto(p, "opening")
    /\ \/ /\ file' = IF file = <<>> THEN <<Version>> ELSE [file EXCEPT ![1] = Version]
          /\ headed' = (file = <<>> \/ headed)
          /\ intact' = intact \union {p}
          /\ Untorn
       \/ Tear /\ UNCHANGED <<file, headed, intact>>
    /\ UNCHANGED <<exists, torn, no_matches, sender, chan, thread, history, opens>>

\* initialize: no file or an empty one is an empty cache, another version is
\* reset, and everything else is read.
Read(p) ==
    /\ pc[p] = "reading"
    /\ \/ /\ ~exists \/ file = <<>>
          /\ Goto(p, "opening")
          /\ UNCHANGED no_matches
       \/ /\ exists /\ file # <<>> /\ ~HasVersion(file)
          /\ Goto(p, "truncating")
          /\ UNCHANGED no_matches
       \/ /\ exists /\ HasVersion(file)
          /\ Goto(p, "opening")
          /\ no_matches' = [no_matches EXCEPT ![p] = Chunks(file)]
    /\ intact' = intact \union {p}
    /\ UNCHANGED <<exists, file, headed, torn, tears, sender, chan, thread, history,
                   opens>>

\* new_writer, which creates the file, and thread::spawn.
OpenWriter(p) ==
    /\ pc[p] = "opening"
    /\ Goto(p, "open")
    /\ exists' = TRUE
    /\ sender' = [sender EXCEPT ![p] = TRUE]
    /\ writer' = [writer EXCEPT ![p] = "running"]
    /\ UNCHANGED <<file, headed, intact, torn, tears, no_matches, chan, buffer,
                   history, opens>>

-----------------------------------------------------------------------------
\* put_no_matches: a key the snapshot has is not sent again, and a thread that has
\* panicked has no receiver.
Put(p, f, q) ==
    /\ pc[p] = "open"
    /\ writer[p] \in {"running", "flushing"}
    /\ <<f, q>> \in Mismatches \ mine[p]
    /\ puts < MaxPuts
    /\ puts' = puts + 1
    /\ chan' = IF Has(no_matches[p], f, q) THEN chan
               ELSE [chan EXCEPT ![p] = Append(@, Key(f, q))]
    /\ mine' = [mine EXCEPT ![p] = @ \union {<<f, q>>}]
    /\ ever' = ever \union {<<f, q>>}
    /\ since' = since \union {<<f, q>>}
    /\ UNCHANGED <<disk, pc, no_matches, sender, thread, opens>>

Full(p) == Len(buffer[p]) + Width > Capacity

\* Mutation: a full buffer goes on growing.
RecvUnbounded(p) ==
    /\ writer[p] = "running"
    /\ chan[p] # <<>>
    /\ buffer' = [buffer EXCEPT ![p] = @ \o Head(chan[p])]
    /\ chan' = [chan EXCEPT ![p] = Tail(@)]
    /\ UNCHANGED <<disk, pc, no_matches, sender, writer, history, opens>>

\* receiver.recv(), and write_all of a key that fits into the buffer.
Recv(p) ==
    /\ writer[p] = "running"
    /\ chan[p] # <<>>
    /\ ~Full(p)
    /\ buffer' = [buffer EXCEPT ![p] = @ \o Head(chan[p])]
    /\ chan' = [chan EXCEPT ![p] = Tail(@)]
    /\ UNCHANGED <<disk, pc, no_matches, sender, writer, history, opens>>

\* flush_buf goes on: for a key that does not fit, or as the BufWriter is dropped.
Flushing(p) ==
    \/ writer[p] \in {"flushing", "dropping"}
    \/ writer[p] = "running" /\ chan[p] # <<>> /\ Full(p)

Whole(n) == n % Width = 0

\* Mutation: the buffer is filled to the last byte before it is flushed.
WriteSplit(p) ==
    /\ Flushing(p)
    /\ LET key == IF writer[p] = "dropping" THEN <<>> ELSE Head(chan[p])
           all == buffer[p] \o key
           cut == IF Len(all) > Capacity THEN Capacity ELSE Len(all)
       IN  /\ file' = file \o SubSeq(all, 1, cut)
           /\ buffer' = [buffer EXCEPT ![p] = SubSeq(all, cut + 1, Len(all))]
    /\ IF writer[p] = "dropping"
       THEN writer' = [writer EXCEPT ![p] = "ended"] /\ UNCHANGED chan
       ELSE chan' = [chan EXCEPT ![p] = Tail(@)] /\ UNCHANGED writer
    /\ UNCHANGED <<exists, headed, intact, torn, tears, pc, no_matches, sender,
                   history, opens>>

\* One write of flush_buf, to a file that is open for appending: of the whole
\* buffer or, when the system cuts it short, of its beginning.
Write(p) ==
    /\ Flushing(p)
    /\ \E n \in 1 .. Len(buffer[p]) :
          LET left == Len(buffer[p]) - n
          IN  /\ IF left = 0 THEN Untorn ELSE Tear
              /\ file' = file \o SubSeq(buffer[p], 1, n)
              /\ buffer' = [buffer EXCEPT ![p] = SubSeq(@, n + 1, Len(@))]
              /\ headed' = (headed /\ Whole(Len(buffer[p])) /\ Whole(left))
              /\ torn' = IF Whole(left) THEN torn ELSE torn \union {p}
              /\ writer' = [writer EXCEPT ![p] =
                    CASE @ = "dropping" -> IF left = 0 THEN "ended" ELSE @
                      [] OTHER -> IF left = 0 THEN "running" ELSE "flushing"]
    /\ UNCHANGED <<exists, intact, pc, no_matches, sender, chan, history, opens>>

\* A write of flush_buf fails.  For a key, unwrap panics: the key and the receiver
\* are gone, and the BufWriter, as it is dropped, tries what is left of its buffer
\* once more.  A failure of that is ignored.
WriteFails(p) ==
    /\ Tear
    /\ Flushing(p)
    /\ intact' = intact \ {p}
    /\ IF writer[p] = "dropping"
       THEN /\ writer' = [writer EXCEPT ![p] = "ended"]
            /\ buffer' = [buffer EXCEPT ![p] = <<>>]
       ELSE /\ writer' = [writer EXCEPT ![p] = "dropping"]
            /\ UNCHANGED buffer
    /\ chan' = [chan EXCEPT ![p] = <<>>]
    /\ UNCHANGED <<exists, file, headed, torn, pc, no_matches, sender, history,
                   opens>>

\* Mutation: the thread ends without flushing.
DrainUnflushed(p) ==
    /\ writer[p] = "running"
    /\ chan[p] = <<>>
    /\ ~sender[p]
    /\ writer' = [writer EXCEPT ![p] = "ended"]
    /\ buffer' = [buffer EXCEPT ![p] = <<>>]
    /\ UNCHANGED <<disk, pc, no_matches, sender, chan, history, opens>>

\* recv fails once the sender is dropped and the channel empty: the thread ends
\* and drops its BufWriter, which flushes what it holds.
Drain(p) ==
    /\ writer[p] = "running"
    /\ chan[p] = <<>>
    /\ ~sender[p]
    /\ writer' = [writer EXCEPT ![p] = IF buffer[p] = <<>> THEN "ended" ELSE "dropping"]
    /\ UNCHANGED <<disk, pc, no_matches, sender, chan, buffer, history, opens>>

-----------------------------------------------------------------------------
\* Mutation: the sender outlives the cache.
CloseKeepingSender(p) ==
    /\ pc[p] = "open"
    /\ Goto(p, "closing")
    /\ UNCHANGED <<disk, no_matches, sender, chan, thread, history, opens>>

\* drop(cache): the sender goes with it.
Close(p) ==
    /\ pc[p] = "open"
    /\ Goto(p, "closing")
    /\ sender' = [sender EXCEPT ![p] = FALSE]
    /\ UNCHANGED <<disk, no_matches, chan, thread, history, opens>>

\* The process is gone, and its snapshot with it.
Forget(p) ==
    /\ no_matches' = [no_matches EXCEPT ![p] = {}]
    /\ mine' = [mine EXCEPT ![p] = {}]

\* manager.join(), with a panic of the thread only logged; the process ends.
Join(p) ==
    /\ pc[p] = "closing"
    /\ writer[p] = "ended"
    /\ Goto(p, "off")
    /\ writer' = [writer EXCEPT ![p] = "none"]
    /\ Forget(p)
    /\ UNCHANGED <<disk, sender, chan, buffer, ever, since, opens, puts>>

\* The process is killed, or returns without joining: its thread and what the
\* thread had not written are gone.
Crash(p) ==
    /\ MayCrash
    /\ pc[p] # "off"
    /\ Goto(p, "off")
    /\ sender' = [sender EXCEPT ![p] = FALSE]
    /\ chan' = [chan EXCEPT ![p] = <<>>]
    /\ writer' = [writer EXCEPT ![p] = "none"]
    /\ buffer' = [buffer EXCEPT ![p] = <<>>]
    /\ Forget(p)
    /\ UNCHANGED <<disk, ever, since, opens, puts>>

Opening(p) == \/ Open(p) \/ Truncate(p) \/ WriteVersion(p) \/ Read(p)
              \/ OpenWriter(p) \/ LeaveNull(p)
Manager(p) == Recv(p) \/ Write(p) \/ WriteFails(p) \/ Drain(p)
Use(p) == \E f \in Files, q \in Patterns : Put(p, f, q)

Ended == opens = MaxOpens /\ \A p \in Procs : pc[p] = "off"
Stay == Ended /\ UNCHANGED vars

Next ==
    \/ \E p \in Procs : \/ Opening(p) \/ Use(p) \/ Manager(p) \/ Close(p)
                        \/ Join(p) \/ Crash(p)
    \/ Stay

\* The manager thread runs on, and so does a process that joins it.
Spec == /\ Init /\ [][Next]_vars
        /\ \A p \in Procs : WF_vars(Manager(p)) /\ WF_vars(Join(p))

-----------------------------------------------------------------------------
Bytes == {Version, OldVersion} \union (Files \X {"first", "rest"})
                        \union (Patterns \X {"pattern"})

TypeOK ==
    /\ exists \in BOOLEAN
    /\ file \in Seq(Bytes)
    /\ pc \in [Procs -> {"off", "null", "truncating", "versioning", "reading", "opening",
                         "open", "closing"}]
    /\ no_matches \in [Procs -> SUBSET (Bytes \X Bytes \X Bytes)]
    /\ sender \in [Procs -> BOOLEAN]
    /\ chan \in [Procs -> Seq(KeysOf(Pairs))]
    /\ writer \in [Procs -> {"none", "running", "flushing", "dropping", "ended"}]
    /\ buffer \in [Procs -> Seq(Bytes)]
    /\ \A p \in Procs : Len(buffer[p]) <= Capacity
    /\ mine \in [Procs -> SUBSET Pairs]
    /\ ever \subseteq Pairs
    /\ since \subseteq ever
    /\ headed \in BOOLEAN
    /\ intact \subseteq Procs /\ torn \subseteq Procs
    /\ opens \in 0..MaxOpens /\ puts \in 0..MaxPuts /\ tears \in 0..MaxTears

\* The rest of a key that was cut begins a write of its own.  When another process
\* was cut as well, it may come to stand behind a part of that one's key, and the
\* two make a key that nobody put.
OneTorn == \A p, o \in torn : p = o

\* has_no_matches says yes only for a file and a pattern that some run marked,
\* whatever crashes, races between a refresh and the writers of other processes,
\* and the writes of one process that were cut or failed have done to the bytes of
\* the file: `grit check` never skips a file on the strength of garbage.
HitsWerePut ==
    OneTorn =>
        \A p \in Procs, f \in Files, q \in Patterns :
            Has(no_matches[p], f, q) => <<f, q>> \in ever

\* A file that got its version byte, and no cut write, holds whole keys at every
\* moment at which a process may die or another may read it: the BufWriter never
\* splits a key.
WholeKeys ==
    headed => /\ HasVersion(file)
              /\ (Len(file) - 1) % Width = 0
              /\ Chunks(file) \subseteq KeysOf(ever)

\* A process that closes its cache leaves every key it put where the next one
\* finds it, while other processes append to the same file, unless the file was
\* reset in the meantime.
CloseKeepsAll ==
    \A p \in intact : headed /\ pc[p] = "closing" /\ writer[p] = "ended" =>
        KeysOf(mine[p]) \subseteq Chunks(file)

\* After a refresh nothing is remembered from before it, except what processes
\* that were still open then had put, cut writes of one process or not.
RefreshForgets ==
    OneTorn => \A p \in intact : pc[p] \in {"opening", "open"} =>
        \A f \in Files, q \in Patterns :
            Has(no_matches[p], f, q) => <<f, q>> \in since

\* drop(cache) and manager.join() end: the thread sees the end of its channel.
CloseReturns == \A p \in Procs : []<>(pc[p] # "closing")

\* util/src/cache.rs of put_no_matches and has_no_matches: what was marked is
\* found marked by whoever opens the cache next.
MarkedIsFound ==
    \A p \in Procs : pc[p] = "closing" /\ writer[p] = "ended" =>
        \A x \in mine[p] : HasVersion(file) /\ Has(Chunks(file), x[1], x[2])
=============================================================================

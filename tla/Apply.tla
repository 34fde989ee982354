-------------------------------- MODULE Apply --------------------------------
(***************************************************************************)
(* One `grit apply`: par_apply_pattern (cli/src/analyze.rs), the execution *)
(* of a Problem (core/src/problem.rs) and the handling of its results      *)
(* (marzano_messenger/src/emit.rs).                                        *)
(*                                                                         *)
(* The work runs on a rayon pool.  One thread of the pool runs the body of *)
(* par_apply_pattern; it spawns the consumer, executes the problem over    *)
(* the found files together with the idle threads, then spins until every  *)
(* file is counted or the consumer says stop, and joins the consumer.      *)
(* Each execution sends one vector of messages over an unbounded channel;  *)
(* the consumer handles the messages of a vector in order: it counts,      *)
(* reports, asks the user and writes files.                                *)
(*                                                                         *)
(* A file is its path; of its text only whether it was rewritten is kept.  *)
(***************************************************************************)
EXTENDS Naturals, Sequences, FiniteSets, SequencesExt

CONSTANTS
    Tasks,          \* positions in found_paths
    Paths,          \* paths of files
    PathOf,         \* [Tasks -> Paths]: found_paths
    Outcomes,       \* what executing the problem on a file may produce
    Modes,          \* whether the problem is a multifile one: both may be
    Answers,        \* what the user types at a prompt
    Pool,           \* number of threads of the rayon pool
    IoMayFail,      \* reporting, or asking the user, may fail
    MaxRuns         \* bound: applies run one after the other on the tree

ASSUME TasksAssumption == Tasks \subseteq Nat /\ IsFiniteSet(Tasks)
ASSUME PathsAssumption == PathOf \in [Tasks -> Paths]
ASSUME OutcomesAssumption ==
    Outcomes \subseteq {"error", "parse_errors", "clean", "logs", "match",
                        "rewrite", "create"}
\* "word": a word that begins with one of the letters, like "yes".
ASSUME AnswersAssumption == Answers \subseteq {"y", "n", "s", "a", "q", "word"}
ASSUME FlagsAssumption == Modes \subseteq BOOLEAN /\ IoMayFail \in BOOLEAN
ASSUME BoundsAssumption == Pool \in Nat \ {0} /\ MaxRuns \in Nat \ {0}

VARIABLES
    arg,            \* dry_run and cache, flags of the command, and is_multifile
    interactive,    \* ask before each change; cleared by "a" and "q"
    task,           \* per found file: "todo", "running" or "sent"
    outcome,        \* per found file: what its execution produced
    chan,           \* the channel: vectors of messages, oldest first
    consumer,       \* where the consumer is
    inbox,          \* messages of the current vector still to handle
    parse_errors,   \* files with an error already reported
    main,           \* where par_apply_pattern is
    processed,      \* AtomicI32: files done
    matched,        \* details.matched
    should_continue,\* AtomicBool: cleared when the user quits
    failed,         \* handle_results returned early through an Err
    disk,           \* per path: "original", "rewritten" or "suppressed"
    created,        \* paths whose rewrite also created a file
    no_matches,     \* snapshot of the mismatch cache
    puts,           \* keys sent to the cache's writer
    run             \* number of the current apply

vars == <<arg, interactive, task, outcome, chan, consumer, inbox, parse_errors,
          main, processed, matched, should_continue, failed, disk, created,
          no_matches, puts, run>>
workerVars == <<task, outcome>>
consumerVars == <<inbox, parse_errors, processed, matched, failed, disk,
                  created, puts>>
settings == <<arg, no_matches, run>>

-----------------------------------------------------------------------------
(* Messages: a MatchResult, of which task and with what has_results.       *)

\* An AnalysisLog is an "error" or, below that level, a "log".
Message == [kind: {"match", "rewrite", "create", "done", "log", "error"}, of: Tasks,
            has_results: {"None", "true", "false"}, from_cache: BOOLEAN]

Msg(k, t) == [kind |-> k, of |-> t, has_results |-> "None", from_cache |-> FALSE]

MatchKinds == {"match", "rewrite", "create"}
IsMatch(m) == m.kind \in MatchKinds

\* file_to_match_result for each file of the registry, behind the user logs;
\* an Err of execute gives one error.
Results(t, o) ==
    CASE o = "error"   -> <<Msg("error", t)>>
      [] o = "clean"   -> <<>>
      [] o = "logs"    -> <<Msg("log", t)>>
      [] o = "parse_errors" -> <<Msg("error", t), Msg("error", t)>>
      [] o = "match"   -> <<Msg("match", t)>>
      [] o = "rewrite" -> <<Msg("rewrite", t)>>
      [] o = "create"  -> <<Msg("rewrite", t), Msg("create", t)>>

\* A DoneFile is marked Some(true) when the file has a match, and otherwise
\* keeps the default None.
Done(t, o) ==
    [Msg("done", t) EXCEPT !.has_results =
        IF o \in {"match", "rewrite", "create"} THEN "true" ELSE "None"]

\* Mutation: the DoneFile is put in front of the results.
DoneFirst(t, o) == <<Done(t, o)>> \o Results(t, o)

\* execute_and_send for one file.
Outputs(t, o) == Results(t, o) \o <<Done(t, o)>>

\* outputs.sort(): by variant, in the order MatchResult declares them.
Rank(m) == CASE m.kind = "match"   -> 1
             [] m.kind = "rewrite" -> 2
             [] m.kind = "create"  -> 3
             [] m.kind = "done"    -> 4
             [] m.kind \in {"log", "error"} -> 5

\* done_files is a map from path to DoneFile: one per distinct path.
Distinct == {t \in Tasks : \A u \in Tasks : PathOf[u] = PathOf[t] => t <= u}

\* The vector of a multifile problem: the results of all files and the DoneFiles,
\* in the order that the sort leaves them in.  Outputs are known by their file and
\* their place among those of the file.
FileOutputs(o, t) ==
    Results(t, o[t]) \o (IF t \in Distinct THEN <<Done(t, o[t])>> ELSE <<>>)
Parts(o) == {x \in Tasks \X (1..3) : x[2] \in DOMAIN FileOutputs(o, x[1])}
Output(o, x) == FileOutputs(o, x[1])[x[2]]

Before(o, x, y) ==
    \/ Rank(Output(o, x)) < Rank(Output(o, y))
    \/ /\ Rank(Output(o, x)) = Rank(Output(o, y))
       /\ x[1] < y[1] \/ (x[1] = y[1] /\ x[2] < y[2])
Place(o, x) == Cardinality({y \in Parts(o) : y = x \/ Before(o, y, x)})

MultifileOutputs(o) ==
    [i \in 1..Cardinality(Parts(o)) |->
        Output(o, CHOOSE x \in Parts(o) : Place(o, x) = i)]

-----------------------------------------------------------------------------
Init ==
    /\ arg \in [dry_run: BOOLEAN, cache: BOOLEAN, is_multifile: Modes]
    /\ interactive \in BOOLEAN
    /\ ~(arg.dry_run /\ interactive)    \* conflicting flags
    /\ task = [t \in Tasks |-> "todo"]
    /\ outcome = [t \in Tasks |-> "none"]
    /\ chan = <<>>
    /\ consumer = "queued"
    /\ inbox = <<>>
    /\ parse_errors = {}
    /\ main = "executing"
    /\ processed = 0
    /\ matched = 0
    /\ should_continue = TRUE
    /\ failed = FALSE
    /\ disk = [p \in Paths |-> "original"]
    /\ created = {}
    /\ no_matches = {}
    /\ puts = {}
    /\ run = 1

found_count == Cardinality(Tasks)

\* A send fails, with an error log only, once the receiver is gone.
RxOpen == consumer \in {"queued", "receiving", "handling"}
Send(vector) == chan' = IF RxOpen THEN Append(chan, vector) ELSE chan

Running == {t \in Tasks : task[t] = "running"}

\* While it waits for the workers, the thread of main executes files as well.
ThreadForFile ==
    Cardinality(Running) + (IF consumer \in {"receiving", "handling"}
                            THEN 1 ELSE 0) < Pool

\* Main keeps its thread until it joins: the consumer needs another one.
ThreadForConsumer ==
    main = "joining" \/ (Pool >= 2 /\ Cardinality(Running) < Pool)

-----------------------------------------------------------------------------
(* The workers.                                                            *)

\* A thread takes a file; a file the snapshot knows returns at once.
Claim(t) ==
    /\ main = "executing"
    /\ ~arg.is_multifile
    /\ task[t] = "todo"
    /\ ThreadForFile
    /\ task' = [task EXCEPT ![t] = IF arg.cache /\ PathOf[t] \in no_matches
                                   THEN "sent" ELSE "running"]
    /\ UNCHANGED <<outcome, chan, consumer, consumerVars, interactive, main,
                   should_continue, settings>>

\* execute and execute_and_send of one file.
ExecuteFile(t) ==
    /\ task[t] = "running"
    /\ \E o \in Outcomes :
          /\ outcome' = [outcome EXCEPT ![t] = o]
          /\ Send(Outputs(t, o))
    /\ task' = [task EXCEPT ![t] = "sent"]
    /\ UNCHANGED <<consumer, consumerVars, interactive, main, should_continue,
                   settings>>

\* A multifile problem is executed once, by the main thread, over all files.
ExecuteMultifile ==
    /\ main = "executing"
    /\ arg.is_multifile
    /\ \E t \in Tasks : task[t] = "todo"
    /\ \E o \in [Tasks -> Outcomes] :
          /\ \/ \A t \in Tasks : o[t] = "error"
             \/ \A t \in Tasks : o[t] # "error"
          /\ \A t, u \in Tasks : PathOf[t] = PathOf[u] => o[t] = o[u]
          /\ outcome' = o
          /\ Send(MultifileOutputs(o))
    /\ task' = [t \in Tasks |-> "sent"]
    /\ UNCHANGED <<consumer, consumerVars, interactive, main, should_continue,
                   settings>>

-----------------------------------------------------------------------------
(* The consumer.                                                           *)

\* An idle thread steals the consumer's task.
StartConsumer ==
    /\ consumer = "queued"
    /\ ThreadForConsumer
    /\ consumer' = "receiving"
    /\ UNCHANGED <<workerVars, chan, consumerVars, interactive, main,
                   should_continue, settings>>

\* The keys put for one vector: only a DoneFile that says Some(false).
Learned(vector) ==
    {PathOf[m.of] : m \in {x \in ToSet(vector) :
        x.kind = "done" /\ x.has_results = "false" /\ ~x.from_cache}}

\* `for message in rx`: the next vector, with its puts made first.
Receive ==
    /\ consumer = "receiving"
    /\ chan # <<>>
    /\ inbox' = Head(chan)
    /\ chan' = Tail(chan)
    /\ consumer' = "handling"
    /\ puts' = IF arg.cache /\ ~arg.is_multifile
               THEN puts \union (Learned(Head(chan)) \ no_matches)
               ELSE puts
    /\ UNCHANGED <<workerVars, parse_errors, processed, matched, failed, disk,
                   created, interactive, main, should_continue,
                   settings>>

\* The channel is empty and its senders, dropped when execution ended, gone.
ChannelClosed ==
    /\ consumer = "receiving"
    /\ chan = <<>>
    /\ main # "executing"
    /\ consumer' = "stopped"
    /\ UNCHANGED <<workerVars, chan, consumerVars, interactive, main,
                   should_continue, settings>>

\* Mutation: processed counts down, as if it held the files left.
CountRemaining(m) ==
    /\ matched' = matched + (IF IsMatch(m) THEN 1 ELSE 0)
    /\ processed' = processed - (IF m.kind = "done" THEN 1 ELSE 0)

\* Mutation: only a Match counts as a match.
CountMatchesOnly(m) ==
    /\ matched' = matched + (IF m.kind = "match" THEN 1 ELSE 0)
    /\ processed' = processed + (IF m.kind = "done" THEN 1 ELSE 0)

\* The counters move before anything else happens to a message; a match has one
\* range.
Count(m) ==
    /\ matched' = matched + (IF IsMatch(m) THEN 1 ELSE 0)
    /\ processed' = processed + (IF m.kind = "done" THEN 1 ELSE 0)

\* An error of a file that already had one is neither reported nor handled.
Repeated(m) == m.kind = "error" /\ PathOf[m.of] \in parse_errors
Remember(m) == parse_errors' = IF m.kind = "error"
                               THEN parse_errors \union {PathOf[m.of]}
                               ELSE parse_errors

Handling == consumer = "handling" /\ inbox # <<>>

\* A log, a DoneFile, or a result of a dry run: reported and no more.
HandleReport ==
    /\ Handling
    /\ LET m == Head(inbox) IN
          /\ ~IsMatch(m) \/ arg.dry_run
          /\ Count(m)
          /\ Remember(m)
    /\ inbox' = Tail(inbox)
    /\ UNCHANGED <<workerVars, chan, consumer, failed, disk, created, puts,
                   interactive, main, should_continue, settings>>

\* apply_rewrite: a failure to write is reported as a log and passed over.
ApplyRewrite(m) ==
    \/ /\ disk' = IF m.kind = "rewrite"
                  THEN [disk EXCEPT ![PathOf[m.of]] = "rewritten"] ELSE disk
       /\ created' = IF m.kind = "create"
                     THEN created \union {PathOf[m.of]} ELSE created
    \/ IoMayFail /\ UNCHANGED <<disk, created>>

\* The user is not asked, or answers "y" or "a".
Accept ==
    \/ ~interactive /\ UNCHANGED interactive
    \/ interactive /\ "y" \in Answers /\ UNCHANGED interactive
    \/ interactive /\ "a" \in Answers /\ interactive' = FALSE

\* A result that is written.
HandleAccepted ==
    /\ Handling
    /\ ~arg.dry_run
    /\ LET m == Head(inbox) IN
          /\ IsMatch(m)
          /\ Count(m)
          /\ ApplyRewrite(m)
    /\ Accept
    /\ inbox' = Tail(inbox)
    /\ UNCHANGED <<workerVars, chan, consumer, parse_errors, failed, puts, main,
                   should_continue, settings>>

\* "n": the rewrite is passed over.  A Match cannot be declined.
HandleRejected ==
    /\ Handling
    /\ interactive /\ "n" \in Answers
    /\ LET m == Head(inbox) IN
          /\ m.kind \in {"rewrite", "create"}
          /\ Count(m)
    /\ inbox' = Tail(inbox)
    /\ UNCHANGED <<workerVars, chan, consumer, parse_errors, failed, disk,
                   created, puts, interactive, main, should_continue, settings>>

\* "s": the original text is written back with a suppression comment.
HandleSuppressed ==
    /\ Handling
    /\ interactive /\ "s" \in Answers
    /\ LET m == Head(inbox) IN
          /\ m.kind \in {"match", "rewrite"}
          /\ Count(m)
          /\ \/ disk' = [disk EXCEPT ![PathOf[m.of]] = "suppressed"]
             \/ IoMayFail /\ UNCHANGED disk
    /\ inbox' = Tail(inbox)
    /\ UNCHANGED <<workerVars, chan, consumer, parse_errors, failed, created,
                   puts, interactive, main, should_continue, settings>>

\* Mutation: "q" ends the questions but lets the consumer go on.
QuitQuietly ==
    /\ Handling
    /\ interactive /\ "q" \in Answers
    /\ LET m == Head(inbox) IN
          /\ IsMatch(m)
          /\ Count(m)
    /\ interactive' = FALSE
    /\ should_continue' = FALSE
    /\ inbox' = Tail(inbox)
    /\ UNCHANGED <<workerVars, chan, consumer, parse_errors, failed, disk,
                   created, puts, main, settings>>

\* Mutation: the consumer breaks without telling the main thread.
QuitUnseen ==
    /\ Handling
    /\ interactive /\ "q" \in Answers
    /\ LET m == Head(inbox) IN
          /\ IsMatch(m)
          /\ Count(m)
    /\ interactive' = FALSE
    /\ consumer' = "stopped"
    /\ inbox' = <<>>
    /\ chan' = <<>>
    /\ UNCHANGED <<workerVars, parse_errors, failed, disk, created, puts, main,
                   should_continue, settings>>

\* "q": handle_results returns false; the consumer breaks and drops rx.
HandleQuit ==
    /\ Handling
    /\ interactive /\ "q" \in Answers
    /\ LET m == Head(inbox) IN
          /\ IsMatch(m)
          /\ Count(m)
    /\ interactive' = FALSE
    /\ should_continue' = FALSE
    /\ consumer' = "stopped"
    /\ inbox' = <<>>
    /\ chan' = <<>>
    /\ UNCHANGED <<workerVars, parse_errors, failed, disk, created, puts, main,
                   settings>>

\* A handler that fails has written nothing, unless it fails to format or to
\* report what it wrote.
WhenFailing(m) ==
    \/ UNCHANGED <<interactive, disk, created>>
    \/ /\ IoMayFail /\ IsMatch(m) /\ ~arg.dry_run
       /\ Accept
       /\ ApplyRewrite(m)

\* An Err out of handle_results_inner: reporting, asking or formatting failed, or
\* the user wants to suppress a created file, which has no text to put the
\* comment in.  The rest of the vector is dropped and the consumer goes on.
HandleErr ==
    /\ Handling
    /\ LET m == Head(inbox) IN
          /\ ~Repeated(m)
          /\ \/ IoMayFail
             \/ interactive /\ "s" \in Answers /\ m.kind = "create"
          /\ Count(m)
          /\ Remember(m)
          /\ WhenFailing(m)
    /\ failed' = TRUE
    /\ inbox' = <<>>
    /\ UNCHANGED <<workerVars, chan, consumer, puts, main, should_continue,
                   settings>>

\* Reporting that error fails too, or the answer is a word: the validator looks
\* at its first letter, the match at all of it.  The panic drops rx.
HandlePanics ==
    /\ Handling
    /\ LET m == Head(inbox) IN
          /\ ~Repeated(m)
          /\ \/ IoMayFail
             \/ interactive /\ "word" \in Answers /\ IsMatch(m)
          /\ Count(m)
          /\ Remember(m)
          /\ WhenFailing(m)
    /\ failed' = TRUE
    /\ consumer' = "panicked"
    /\ inbox' = <<>>
    /\ chan' = <<>>
    /\ UNCHANGED <<workerVars, puts, main, should_continue, settings>>

\* handle_results returned true: back to rx.
VectorHandled ==
    /\ consumer = "handling"
    /\ inbox = <<>>
    /\ consumer' = IF should_continue THEN "receiving" ELSE "stopped"
    /\ UNCHANGED <<workerVars, chan, consumerVars, interactive, main,
                   should_continue, settings>>

-----------------------------------------------------------------------------
(* The body of par_apply_pattern.                                          *)

\* execute_paths_streaming returns once every file was executed.
Executed ==
    /\ main = "executing"
    /\ \A t \in Tasks : task[t] = "sent"
    /\ main' = "spinning"
    /\ UNCHANGED <<workerVars, chan, consumer, consumerVars, interactive,
                   should_continue, settings>>

AllProcessed == processed >= found_count

\* Once more round the loop, without yielding the thread.
Spin ==
    /\ main = "spinning"
    /\ ~AllProcessed /\ should_continue
    /\ UNCHANGED vars

LeaveLoop ==
    /\ main = "spinning"
    /\ AllProcessed \/ ~should_continue
    /\ main' = "joining"
    /\ UNCHANGED <<workerVars, chan, consumer, consumerVars, interactive,
                   should_continue, settings>>

\* Mutation: the report does not wait for the consumer.
ReportUnjoined ==
    /\ main = "joining"
    /\ main' = "reported"
    /\ UNCHANGED <<workerVars, chan, consumer, consumerVars, interactive,
                   should_continue, settings>>

\* The scope joins the consumer, the cache's writer is joined, AllDone is sent;
\* a panic of the consumer is resumed here.
Report ==
    /\ main = "joining"
    /\ consumer \in {"stopped", "panicked"}
    /\ main' = IF consumer = "stopped" THEN "reported" ELSE "panicked"
    /\ UNCHANGED <<workerVars, chan, consumer, consumerVars, interactive,
                   should_continue, settings>>

\* The command is run again: the cache is read back, all else starts anew.
NextRun ==
    /\ main = "reported"
    /\ run < MaxRuns
    /\ run' = run + 1
    /\ no_matches' = no_matches \union puts
    /\ interactive' \in IF arg.dry_run THEN {FALSE} ELSE BOOLEAN
    /\ task' = [t \in Tasks |-> "todo"]
    /\ outcome' = [t \in Tasks |-> "none"]
    /\ chan' = <<>>
    /\ consumer' = "queued"
    /\ inbox' = <<>>
    /\ parse_errors' = {}
    /\ main' = "executing"
    /\ processed' = 0
    /\ matched' = 0
    /\ should_continue' = TRUE
    /\ failed' = FALSE
    /\ puts' = {}
    /\ UNCHANGED <<arg, disk, created>>

\* The process has ended.
Ended == main = "panicked" \/ (main = "reported" /\ run = MaxRuns)
Stay == Ended /\ UNCHANGED vars

Worker(t) == Claim(t) \/ ExecuteFile(t)
Handle == \/ HandleReport \/ HandleAccepted \/ HandleRejected
          \/ HandleSuppressed \/ HandleQuit \/ HandleErr \/ HandlePanics
Consume == \/ StartConsumer \/ Receive \/ ChannelClosed \/ Handle
           \/ VectorHandled
Main == ExecuteMultifile \/ Executed \/ LeaveLoop \/ Report \/ NextRun

Next == (\E t \in Tasks : Worker(t)) \/ Consume \/ Main \/ Spin \/ Stay

\* The threads of the pool run on, and the user answers a question.
Fairness ==
    /\ \A t \in Tasks : WF_vars(Worker(t))
    /\ WF_vars(Consume)
    /\ WF_vars(Main)

Spec == Init /\ [][Next]_vars /\ Fairness

-----------------------------------------------------------------------------
TypeOK ==
    /\ arg \in [dry_run: BOOLEAN, cache: BOOLEAN, is_multifile: Modes]
    /\ interactive \in BOOLEAN
    /\ task \in [Tasks -> {"todo", "running", "sent"}]
    /\ outcome \in [Tasks -> Outcomes \union {"none"}]
    /\ chan \in Seq(Seq(Message))
    /\ consumer \in {"queued", "receiving", "handling", "stopped", "panicked"}
    /\ inbox \in Seq(Message)
    /\ parse_errors \subseteq Paths
    /\ main \in {"executing", "spinning", "joining", "reported", "panicked"}
    /\ processed \in Nat
    /\ matched \in Nat
    /\ should_continue \in BOOLEAN
    /\ failed \in BOOLEAN
    /\ disk \in [Paths -> {"original", "rewritten", "suppressed"}]
    /\ created \subseteq Paths
    /\ no_matches \subseteq Paths
    /\ puts \subseteq Paths
    /\ run \in 1..MaxRuns

\* The messages of some kinds in a vector, in the channel, and on their way.
CountIn(msgs, kinds) == Cardinality({i \in DOMAIN msgs : msgs[i].kind \in kinds})
Places(vectors) == UNION {{i} \X DOMAIN vectors[i] : i \in DOMAIN vectors}
CountAll(vectors, kinds) ==
    Cardinality({x \in Places(vectors) : vectors[x[1]][x[2]].kind \in kinds})
Pending(kinds) == CountIn(inbox, kinds) + CountAll(chan, kinds)
NonePending == inbox = <<>> /\ chan = <<>>

\* The matches and the DoneFiles that the executions so far have sent.
Executions == {t \in Tasks : outcome[t] # "none"}
MatchesSent ==
    Cardinality({t \in Executions : outcome[t] \in {"match", "rewrite"}})
    + 2 * Cardinality({t \in Executions : outcome[t] = "create"})
DonesSent ==
    Cardinality(IF arg.is_multifile THEN Executions \intersect Distinct ELSE Executions)

\* Between the workers, the channel and the consumer no message is lost or
\* counted twice: at every moment the counters and the messages still on their
\* way make up what was sent.
CountsAddUp ==
    should_continue /\ ~failed =>
        /\ processed + Pending({"done"}) = DonesSent
        /\ matched + Pending(MatchKinds) = MatchesSent

\* AllDone (analyze.rs, apply_pattern.rs) is sent only after every result of
\* every file was handled, unless the user quit or a handler failed: it counts
\* every file and every match, and each accepted rewrite has been written.
ReportComplete ==
    main = "reported" /\ should_continue /\ ~failed =>
        /\ NonePending
        /\ processed = found_count
        /\ matched = MatchesSent

\* The loop of par_apply_pattern that waits for `processed` sees the total only
\* when all other messages have been handled: a file is counted last.
TotalMeansHandled ==
    ~arg.is_multifile /\ should_continue /\ ~failed /\ AllProcessed => NonePending

\* Once the user has quit, nothing more of that run reaches the disk, although
\* the workers keep executing and sending.
QuitIsFinal ==
    [][~should_continue => UNCHANGED <<disk, created>>]_vars

\* Every apply ends with its report, or with the resumed panic, unless a
\* handler failed: main leaves its loop whatever the order in which the files
\* are done and also when the user quits before they are.
ApplyEnds == <>(failed \/ Ended)
=============================================================================

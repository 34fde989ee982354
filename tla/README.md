# GritQL: a TLA+ verification project

GritQL searches and rewrites source code: `grit apply` and `grit check` compile a
pattern into a `Problem`, run it over every file of a tree on a pool of threads, and
hand the results to a consumer that reports them and writes the rewrites back. This
directory models the parts of that engine whose correctness depends on the order in
which things happen, checks them with TLC on small instances, and proves the central
facts with TLAPS for every instance.

Paths below are relative to `src/crates`.

## 1. Inventory

| Component | Source | State it keeps | Operations | What makes it correct |
|---|---|---|---|---|
| `limit` pattern | `grit-pattern-matcher/src/pattern/limit.rs` | an atomic counter shared by all threads | check, run the inner pattern, take a slot by compare-exchange | never more than N matches, never a match refused while a slot is left |
| Apply pipeline | `cli/src/analyze.rs`, `core/src/problem.rs`, `marzano_messenger/src/emit.rs` | the channel of result vectors, `processed`, `should_continue`, the files on disk | workers execute files and send; one consumer reports, asks the user, writes; the main thread waits | every file reported once, every accepted rewrite written, nothing written after the user quits, the wait ends |
| Mismatch cache | `gritcache/src/new_cache.rs`, `paths.rs` | a file of 64-byte keys behind a version byte, an in-memory snapshot, a writer thread with a buffer | open, refresh, has, put, drop, join | a hit was put by some run; a cache that is closed remembers what was put |
| Steps and file registry | `core/src/marzano_context.rs`, `grit-pattern-matcher/src/pattern/state.rs`, `core/src/api.rs` | versions of each file, effects, new files | load, run a step, push a revision, push new files, undo | a step sees the last revision of the one before and leaves nothing behind |
| Linearization of effects | `grit-pattern-matcher/src/intervals.rs`, `core/src/inline_snippets.rs`, `core/src/marzano_binding.rs` | list of edits with byte ranges | sort, reject overlaps, take the top level, drop repeated ones, write | the edits are disjoint and outermost, none is lost |
| `check` command | `cli/src/commands/check.rs`, `util/src/finder.rs` | hashes of the files found, results of each pattern, keys put into the cache | find, select by the cache, execute, mark, report, fix, close the cache | the cache hides no match, fixes build on each other |
| Matcher | `grit-pattern-matcher/src/pattern/*`, `core/src/ast_node.rs`, `core/src/marzano_binding.rs` | a stack of frames for each definition, what a variable is bound to and its mirrors, effects, logs | combinators, node and list patterns, contains and within, variables, calls, rewrites | a match binds and rewrites what the language says it does, a failed part leaves nothing behind |
| Pattern compiler | `core/src/pattern_compiler/*` | none that outlives a call | wraps, limits, scopes | the limit is outside the file pattern |
| Language server | `lsp/src/*` | open documents, in a task of their own behind a channel | open, change, close, commands that edit | the store ends with the text of the editor, edits are for the text they were computed from |
| Grit modules | `gritmodule/src/*` | installed module directories | fetch, resolve | every referenced module installed once |
| Updater and auth | `cli/src/updater.rs`, `auth/src/*` | manifest file, tokens | read, refresh, dump | a saved token is not overwritten |
| Languages, wasm | `language/*`, `wasm-bindings/*` | none | parse | generated or third-party code; not a subject here |

How they interact. The apply pipeline and `check` execute a `Problem` for each file; an
execution is a run of *Steps*, whose effects become text by *Linearization*; patterns
within a step may hold a `limit`, whose counter belongs to the compiled problem and is
shared by all executions. Both commands consult the mismatch cache before they execute a
file and tell it which files had no match. The channel between workers and consumer, the
cache's channel to its writer thread, the cache file between processes, the atomics
`processed`, `should_continue` and `invocation_count`, and the tree on disk are all that
is shared. Within an execution everything is sequential: the *matcher* works on one
mutable `State` that is cloned where a pattern may fail and go on. The language server
uses the same problems on the documents of an editor; its handlers run concurrently and
share only the channel to the document manager.

## 2. Modules

| Module | Models | Actions and the code they stand for |
|---|---|---|
| `Budget` | what `limit N` promises | `Accept`, `Refuse`, `Miss`: each atomic |
| `Limit` | `Limit::execute`, any number of threads | `Bypass` (limits ignored), `Precheck` (relaxed load), `ExecuteInner`, `Load`, `CompareExchange` |
| `Apply` | one or more `grit apply` | workers: `Claim`, `ExecuteFile`; main thread: `ExecuteMultifile`, `Executed`, `Spin`, `LeaveLoop`, `Report`, `NextRun`; consumer: `StartConsumer`, `Receive`, `Handle...` (one per branch of `handle_results_inner`), `VectorHandled`, `ChannelClosed` |
| `Cache` | `ThreadedCache` in several processes on one file | opening: `Open`, `Truncate`, `WriteVersion`, `Read`, `OpenWriter`, `LeaveNull`; in use: `Put`; writer thread: `Recv`, `Write`, `WriteFails`, `Drain`; closing: `Close`, `Join`; `Crash` |
| `Linearize` | one call of `linearize_binding` | `Sort`, `CheckNeighbours`, `SelectInsert`, `SelectRewrite`, `SelectSkip`, `SelectDone`, `FilterNested`, `Arrange`, `Write`, `Done` |
| `Steps` | one `Problem::execute` | `Enter` (first half of `exec_step`), the pattern: `Load`, `Rewrite`, `AskFile`, `Clone`, `GoBack`, `Nest`, `Matches`, `Raise`, `Fails`, `Undo`; second half of `exec_step`: `Apply`, `ApplyFails`, `Panics`, `PushNewFiles`; `NextStep`, `Return`, `Collect` |
| `Documents` | the document store of the language server, its handlers and the editor | editor: `OpenDocument`, `Edit`, `CloseDocument`, `GiveCommand`, `AnswerEdit`; handlers, from one await to the next: `StartOpen`, `Checked`, `StoreOpened` (`did_open`), `StartChange`, `Checked` (`did_change`), `StartClose`, `Sent` (`did_close`), `StartFix`, `StartApply`, `Loaded`, `Worked` (`execute_command`); `run_doc_manager`: `DoUpsert`, `DoDrop`, `DoGet`, `DoUpsertContent` |
| `Check` | `run_check`, run after run, over a cache that is a set of keys | `Begin`, `Find` (one file of `get_input_files`), `Select`, `Execute` (one file of `execute_paths`), `Collect`; the ways it ends: `ReportOther`, `ReportNothing`, `Stops`, `Close`; `Report`, `FixStored`, `FixAgain`; somebody else: `Edit` |
| `Matching` | `Pattern::execute` and everything below it | one operator for each pattern, `Execute` to choose; `Match`, the one action, executes a pattern on a tree. `Means` is the reading of the language it is compared with |

`Subsequences` has the one operator `Linearize` and `Steps` share: what `retain`, `remove` and
`filter_map` leave of a vector, by the places that stay.

`LimitProof`, `ApplyProof`, `CacheProof`, `StepsProof`, `DocumentsProof`, `LinearizeProof` and
`CheckProof` hold the theorems, each about the module it is named after; `SequenceProof` has
what several of them need of numbers and of `Subsequence`. `MCLimit`, `MCApply`, `MCCache`, `MCLinearize`, `MCSteps`, `MCDocuments`, `MCMatching` and `MCCheck` give the
constants that a configuration cannot write. Operators marked "Mutation" are wrong variants of the definition that follows
them; nothing uses them, and each is there to show that some property notices when the
definition is replaced by it.

What is abstracted:

- `Limit`: a thread's execution is one call; what the inner pattern says is open. All
  accesses are sequentially consistent except the first, whose staleness is that the
  counter has moved on by the time its answer is used.
- `Apply`: a file is a path, and of its text the model keeps whether it was rewritten or
  had a suppression comment put in. A match counts one range. Progress bars, formats and
  wording are left out. The channel is unbounded, as in the code. rayon is modelled by
  the number of threads that are busy. The sorted vector of a multifile problem is given
  by the place of each output in it (`Place`), which a proof can count.
- `Cache`: a key of 64 bytes is kept as three - the first byte of the file hash, which may
  be equal to the version, the rest of that hash, and the pattern's hash - so that
  everything that can happen to the alignment of the file can happen. A `BufWriter` is a
  buffer that is flushed when the next key does not fit or when it is dropped. A flush is
  one write or, when the system cuts a write short, several, and other processes may write
  or truncate between any two of them (`Write`). A write may fail (`WriteFails`): for a key
  the thread panics, and the drop of its `BufWriter` tries what is left of the buffer once
  more, as a write of its own and later; at the drop the rest is lost without a word, as
  the version byte may be (`WriteVersion`).
- `Linearize`: the text is a sequence of tokens without newlines or commas, for which
  `pad_snippet`, `delete_hanging_comma` and the deletion of whole lines do nothing. The
  text of an effect is given (a nested call has its own instance of the model). The range
  of an effect may be empty, as that of an empty capture group of a regular expression is
  (`regex.rs`:99).
- `Steps`: a pattern may do anything that the registry lets it. A text is one that was
  found or that was made for a revision; an edited file may get a text made for it, the one
  it had, or any that one of the files has had, as the code does not compare them; a name
  likewise. Which steps edited a revision, and how, is kept beside it (`edits`). A `maybe`,
  `or`, `any`, `some` or `not` clones the state before what is within it (`Clone`), which
  may then be given up, an inner sequence with it (`GoBack`, `Undo`). A frame has room for
  one clone: it is overwritten, or stays and the newer one is not made, so that a pattern
  can go back to any place it has passed, though not to two one after the other. An inner
  sequence is for all files of the step or for one of them. Parsing and cleaning
  the new text, and mapping it back for notebooks, are left out; that a new text does not
  parse at all does not happen with tree-sitter. The u16 numbers have no width.
- `Documents`: a text is a number that the editor counts up with every edit, so a larger
  one is a later one. tower-lsp is outside: it takes messages in the order in which they
  were sent and runs up to `Concurrency` handlers side by side (four in the library). What
  a check or a pattern finds in a text is open, as is whether the editor accepts an edit.
  The manager's replies go through oneshot channels and are never waited for; a sender
  that finds the channel full waits in line behind the others. `GetAll` and the requests
  that only read are left out.
- `Check`: a text stands for its hash and a pattern for its own, so a key is a text and a
  pattern. What a pattern finds is a table from texts to a match, a rewrite, a move of the
  file or nothing; a limit is counted atomically (`Limit` has the races). The cache that a
  check opens is a snapshot, and what it has put is in the file when it closed, or any
  part of it when it did not (`Cache` has the writer). One check runs at a time; files are
  of one language; the name a file is moved to is not checked. Reading, executing and
  writing a file again while fixing is one step.
- `Matching`: the tree is given by its named nodes in pre-order, with their kinds, texts
  and fields; anonymous nodes, which no pattern here matches, are not walked. An effect is
  the binding that is rewritten; the replacement is left out, as are the value history,
  logs, errors, constants, maps, snippets and assignments. Definitions do not call
  themselves. `Execute` follows the code: frames that are copied and popped, arguments as
  patterns in frames, mirrors, and a state that is cloned only where the code clones it.
  `Means` has none of these: a name is resolved through the callers to the variable it
  stands for, the outcome of a match is the set of states it may leave, which is empty
  when it fails, and a rewrite adds to a set. Both share what a node is: `Singleton`,
  `Equivalent`, the lists and the parents.

## 3. Runs

| Run | Instance | Distinct states | Shows |
|---|---|---|---|
| `limit` | 4 calls, N = 2, limits honoured or ignored | 4 124 | exact counter, no early refusal, every call returns, refinement of `Budget` |
| `apply` | 2 files, 3 threads, two applies in a row, all outcomes, answers and I/O failures, single-file and multifile, dry run or not, cached or not | 1 326 454 | nothing lost or counted twice; the total comes last; a quit is final; each apply ends, the second with the cache of the first too |
| `cache` | 2 processes, 3 openings, 3 puts, 2 files with a pattern each, file missing, old or of this version, refresh, crash, 2 writes that are cut short or fail | 1 091 087 | hits are true, keys stay whole, closing loses nothing, a refresh forgets, closing returns |
| `linearize` | all lists of up to 2 effects with 3 texts, all of 3 with fixed texts, on 5 tokens, empty ranges included | 905 782 | the edits are disjoint, outermost, in the right place; the text is the plain reading of the effects |
| `steps` | 1 file of each kind of failure to load, or 2 with equal or other texts of which one may fail, 3 steps, sequences nested twice, over one file or all, 1 effect or wanted file at a time, 1 new file | 2 329 060 | steps start clean, edits survive, new files are made once, only files that a step edited are reported as rewritten |
| `documents` | 1 document, 3 handlers, room for 1 action, 3 texts, 5 messages | 145 754 | the store ends with the editor's text, a change is never taken back, edits fit their text, every handler ends |
| `matching` | 23 613 patterns on the tree of `f(a, f(b), b) = b` | 47 226 | a pattern matches, binds and rewrites what the language says, and nothing that a failed part did is left |
| `check` | 2 files of 3 texts, 2 patterns (rewrites of each other's text; one with a limit; one that moves files), 2 checks with all flags, 1 edit from outside | 1 280 182 | the cache hides no match, fixes are made one after the other |
| `cache_first_run`, `steps_unloaded`, `matching_lists`, `matching_calls` | small | - | violations, see section 6 |

Why the bounds are enough for what they are for:

- Two of four calls must be refused, one each by the relaxed check and in the loop, while
  two others take turns to lose the compare-exchange: more calls only repeat this, and
  the proofs cover any number.
- Two files are what it takes for vectors to be sent in either order, for a quit between
  them and for an error in one; three threads let both run beside the main thread, and
  with two the consumer must wait for one. `create` gives a vector of two results.
- `Capacity = 4` bytes with keys of three: the buffer is flushed while in use, and has
  room for a part of a key, so a write that did not care for keys would tear one.
  Three openings are a first run, a second one at the same time or after it, and a third
  that reads what the two have left. Two writes that are cut or fail are the rest of a
  buffer whose second attempt fails too, or a torn key of each process. Each of the two
  files has a pattern of its own that does not match it, so a key that is made of parts of
  two of theirs is one that nobody put.
- Five tokens with the range 1..4 have effects in front of, behind, around, across and
  inside the range, and empty ones everywhere; two effects take every relation of two intervals, three are what the
  test of neighbours can miss.
- Three steps put an inner step between two outer ones, and give a file a chain of three
  edits. One effect or wanted file at a time (`MaxEffects`) edits two files where they have
  the same text, is applied by an inner step where the outer one left it, and is alone where
  a file fails to load; the proofs cover any number. `MaxOwners` bounds when a pattern may
  still load a file; steps go on pushing revisions. Nodes are beneath a comment that
  suppresses in the single files and in one of a pair.
- Documents do not interact but through the channel, where another document's actions do
  no more than take room: with one document and `Capacity = 1` three handlers already wait
  for room. Five messages are an opening, a change, a command and another change and a
  close or a second opening; three handlers are what it takes for a change to start while
  a change and a command are on their way.
- A key is put in one check and read in the next, so two checks show what the cache hides,
  and one edit comes anywhere in them: before hashing, between hashing and executing,
  between executing and fixing, and between the checks. Two patterns are what it takes for
  one fix to undo another, and a second file for a limit to be spent on.
- The tree has a list of three with a list of one inside, one text at three places, one of
  them outside of the call, and a node that is the only one of its text. The patterns are
  all of three levels over two names and two variables; contains and within around each
  other; lists of up to four with dots; and a definition with a parameter and a variable
  of its own called once or twice for variables that are bound before.

`CHECK_DEADLOCK` is off for `Matching` only, where a match is one step and then over.
Elsewhere a system that has ended takes the step `Stay` or `Finished`, which is enabled
only then.

## 4. Fairness

- `Limit`: weak fairness of each call. A call is a thread that the scheduler runs again;
  nothing in it blocks.
- `Apply`: weak fairness of each worker, of the consumer and of the main thread. They run
  on a pool whose threads are never taken away: a task starts when one is idle
  (`ThreadForFile`, `ThreadForConsumer` guard this, it is not assumed), and the user is
  taken to answer a prompt. `Spin` has no fairness and needs none.
- `Cache`: weak fairness of the writer thread and of `Join`. Processes are not assumed to
  close, only to go on once they do.
- `Documents`: weak fairness of taking a message, of the document manager and of each
  handler. They are tasks of tokio, which runs those that are ready; the editor is taken
  to answer the edits it is sent, and need not send anything.
- `Linearize`, `Steps` and `Matching` are sequential and have safety properties only; so has
  `Check`, whose waiting for workers and for the writer is that of `Apply` and `Cache`.

## 5. Proofs

All theorems hold for every value of the constants under the named assumptions of the
modules (finite sets of calls and tasks, natural bounds, ranges of effects that do not end
before they begin).

- `LimitProof`. `IInv` is `TypeOK` with four facts: the counter is the number of accepted
  calls and at most N; a call about to exchange has seen a free slot; a refused call has
  seen a spent budget, and since the counter never falls it stays spent; with limits
  ignored no call gets that far. `SlotsExact` alone is not inductive: without the second
  fact the exchange might pass N. From `IInv` follow `TypeCorrect`, `SlotsExactAlways`,
  `RefusedOnlyWhenSpentAlways` and, step by step, `Refinement`: every step of the loop is
  a step of `Budget` or none.
- `ApplyProof`. Two invariants. `QuitStops`: once `should_continue` is cleared the
  consumer has stopped, with nothing to handle and no channel to receive from. Each action
  keeps it; only an action of a consumer that handles something writes to the disk, so
  `QuitIsFinal`. `ApplyInv` is `TypeOK` with `Ordered`, `DoneLast` and `CountsAddUp`.
  `CountsAddUp` alone is not inductive: a vector that is sent to a consumer that is gone, or
  for a file whose execution was counted before, would break it. `Ordered` excludes both: a
  file that was not sent has no outcome (`NotYet`) and is executed while main executes
  (`AllSent`), the files of a multifile problem together (`AtOnce`); a consumer is gone
  after a panic, which is a failure (`Panics`), or, without a quit, at the end of a channel
  that nobody sends to any more (`Closed`). Handling then moves a message from one side of
  the sum to the other. Messages are counted by one-to-one maps between their places:
  between a vector and its tail, the channel and what it was, the sorted vector of a
  multifile problem and the results of its files. `TotalMeansHandledAlways` follows with
  `DoneLast`, that what is left of any vector ends with its `DoneFile`: no `DoneFile` on its
  way, no message on its way. `ReportCompleteAlways` follows with `Left` and `Joined`, why
  main left its loop and what it joined.
- `CacheProof`. `IInv` is `TypeOK`, `Idle` (a process that does not use the cache holds
  nothing) and `MInv`. `HitsWerePut` says what the snapshots hold, the bytes of the file come
  from many writes, whole and cut, of several processes. `FilePaired` says that wherever the
  rest of a file hash and a pattern hash follow each other in the file, they come from one
  pair that was put. A write that begins with a key makes no such pair with what is in front
  of it, since the first byte of a key is neither. A write that goes on within a key might;
  what it follows is then either a byte that ends or begins a key, or what the same process
  wrote last, of the same key - as long as no other process has a write that ended within a
  key (`OneTorn`). `Joined` says this of every buffer, whatever other processes append or
  truncate in between, and `Buffered` what a buffer is: whole keys its process put
  (`Sending`), behind the rest of one that was cut. This gives `HitsWerePutAlways` whatever
  fails or crashes and however the file is aligned, and `RefreshForgetsAlways`, both under
  `OneTorn`; without it they do not hold (section 6). `Snapshots` says that what a process
  read is still there until the file is truncated. `Headed` says that a file that got its
  version byte, and no cut write, is that byte and whole keys: `WholeKeysAlways`. `Kept`
  follows a key from the channel to the buffer to the file, unless a write of its process
  failed (`intact`): `CloseKeepsAllAlways`. The version byte may be equal to the first byte of
  a key in all of this.
- `StepsProof`. What is reported is said of the last state only, but a state is cloned at any
  place of a pattern and may come back, after more versions were pushed than it knows.
  `IInv` therefore says of the current state and of every clone (`Saved`) that it is good
  (`Good`): its numbers are of versions there are (`Registry`), no version is of two files
  (`Apart`), each begins without edits (`Origin`) and has the edits of the ones before it
  (`Survive`); files that never had one text or name are told apart by these (`Different`);
  and without oddities every revision has an edit (`Revised`). `Survive` is not inductive by
  itself: a revision is made of the version a step began with, and must follow the last one.
  So a frame is related to the state it goes on with, and while its pattern is at work to its
  clone as well (`Frames`): unless a sequence within it has revised a file, its pointers are
  the latest (`Latest`), which gives `EditsSurviveAlways`; if one has, effects that come after
  it are an oddity ("nested"). Without oddities every effect is for the last version of a
  file the step has still to come to, or for one it has already edited (`Fresh`), so that a
  version is pushed only for an edit: `OnlyEditedRewrittenAlways`. It speaks of edits, not of
  texts, which an edit may leave as they were. A clone has no more versions than those made
  after it and than the state (`Growing`), so that the pointers of a frame stay in range
  (`InRange`). `StepStartsCleanAlways` is `Begins` with `Waiting` (the frames below the top are
  within their pattern) and the "stepped" part of `FrameOK`. That the versions and the wanted
  files add up (`Registry`) gives `CreatedOnceAlways`: the results that are creations are
  counted by a one-to-one map from the files that were not found. `Subsequence` picks files
  and results at a set of places; `SubsequenceOrder` (in `SequenceProof`) says that it has each
  of them once, in order. The steps move the innermost frame (`TopMoves`), add one
  (`NestMoves`), go back (`BackMoves`) or return, for which the invariant is proved once.
- `DocumentsProof`. `IInv` orders what is on its way from the editor to the store: inbox,
  handlers, queue. `InOrder`: a change is later than everything about its document that is
  ahead of it, so that none puts an older text back (`ChangesInOrderAlways`), although
  handlers overtake each other: a change waits for nothing between being taken and being
  queued. `LastChange`: the last change has the text of the editor. `OpenLast`: unless it
  is in `early`, what opens a document has nothing behind it that closes it. `Stored` puts
  them together: the store has what the editor has, but for what is on its way, which is
  `SettledCurrentAlways` when nothing is. `Fits`, with `Kept` and `Linked` (a handler's
  request has the text it took), gives `EditFitsAlways`. The steps are four ways to
  move messages on (`Sends`, `Takes`, `GoesOn`, `Receives`), for which the invariant is
  proved once.
- `LinearizeProof`. The loop that selects the outermost effects remembers one number,
  `top_level_open`. `IInv` says what it stands for: the start of a rewrite that was
  chosen, behind which all chosen ones lie (`ChosenBehind`, `OpenIsStart`), and, if the
  effects are nested or disjoint, that every rewrite already passed lies within a chosen
  one (`CoveredBehind`). An effect that is skipped ends behind `top_level_open` and no
  later than the rewrite that begins there, so the two can only be nested. From this
  follow `EditsDisjointAlways` (for crossing effects too) and `OutermostChosenAlways`;
  `OnlyCrossingRejectedAlways` is the same about the test of neighbours.

  `EditInv` goes on to the end, for crossing effects too. All along the edits are within the
  range and sorted by their ends (`AllPlaced`, `Falling`; `NotBehind` while they are
  chosen). Two rewrites are apart when they are selected, and each round of
  `filter_out_nested` leaves nothing that overlaps the edit it is about (`SeparateUpto`), an
  insertion being empty. Sorted by their starts as well they are then one behind the
  other (`InOrder`), so `has_overlapping_ranges` never fails. The output ranges are sums; all
  that is needed of them is that each is as far from the one in front of it as in the
  source (`Chained`), so none begins in front of the range (`RangesRise`). They are
  computed before the text is edited from its end to its beginning: in between, an edit is
  where its range says but for the growth of those in front of it that are still to be
  written (`WrittenShown`, `Growth`). This gives `LinearizeTyped`, `ChecksRedundantAlways` and
  `RangesShowEditsAlways`.

  `ResultInv` says what the text becomes, and needs both. It names the effect of the input
  that each selected one is (`q`, in `Origin`), since two effects can be equal. The loop has
  selected, of those it has passed, the insertions and the outermost rewrites
  (`SelectedSoFar`): where `IInv` has a rewrite around one that is skipped, the order of
  `compare` decides between two of one range. What `filter_out_nested` has dropped is an
  insertion, and is `Lost`: within an outermost rewrite (`Swallowed`), or repeated by one
  behind it that has had its round and so stays (`Repeated`); this is where `~Twins` is
  needed, as the texts that were seen at a place (`SeenFrom`) do not say of what they
  are. After the last round no two insertions of one place share a text (`NoRepeat`), so what is
  left is `Intended`, and `sort_range_start` puts it in the order of the text (`Arranged`),
  of which there is only one (`OneList`). While the edits are written the text is the
  source in front of the last one that is not, and `b[k]` behind (`Behind`);
  `ReferenceIsBehind` shows that `b[0]` is what the recursive function in `Reference`
  defines. This gives `ResultAsIntendedAlways`, the theorem about `Linearize` that says most:
  the sort, the two filters and writing backwards amount to the plain reading of a rewrite.
  It is about nested or disjoint effects (`Laminar`), empty ones included, and has two
  exceptions that the code really makes (section 6): `Twins`, and `EmptyBeside`, a rewrite
  of an empty range where another rewrite begins. All that is proved of `EditInv` holds in
  these cases too.

- `CheckProof`. `NothingHidden` speaks of the end of one check, the keys come from all the
  earlier ones. `IInv` therefore says of every key, in the file, in the snapshot or on its
  way there, that it is true of its text (`KeysTrue`), that what was executed on the text
  that was hashed gave what is in it (`Ran`), and that a file is skipped for a key or for
  not being there (`SkippedKnown`). `Collect` is the step that needs `Ran` to keep
  `KeysTrue`. `CheckTyped` and `NothingHiddenAlways` follow; any part of the keys may be
  lost when a check ends, since each key is true by itself.
  `InTurnInv` is about fixing. Of a file that nobody edits it says that it is as it was found
  until its turn (`AsFound`, `Fixed`), that what the patterns said of it is about that text
  (`RanRight`), and while it is fixed that it holds what the patterns that had their turn
  (`again`) make of it one after the other; one more turn makes an order of theirs one
  longer. At the last turn these are all its rewriters: `FixedInTurnAlways`.

Only model-checked: liveness (`EveryCallReturns`, `ApplyEnds`, `CloseReturns`,
`EveryHandlerEnds`), which is out of TLAPS's reach, as is ENABLED; and everything about
`Matching`, which is recursive over patterns. Where a proof needs induction over numbers, as
for what a recursive function of numbers is, it takes the least one a claim fails for
(`LeastElement`).

## 6. Disagreements between the code and what it says

Shown by a run:

- `cache_first_run`: a cache file that was missing gets no version byte; what is put into
  it is lost or shifted for the next process (`new_cache.rs`:69).
- `steps_unloaded`: a step such as `maybe contains X` in a `sequential` matches without
  having loaded its file, and `exec_step` panics (`marzano_context.rs`:236).
- `matching_lists`: behind dots the places for the next pattern are tried in one state, so
  that a variable bound at the first place that fails is bound at the others too: `[..., $x,
  b]` does not match `(a, c, b)`, and matches `(a, a, b)` only because the first `a` is like
  the second (`list.rs`:99). The lists in the run `matching` have names behind their dots.
- `matching_calls`: a predicate definition leaves its frame, and the next call copies the
  mirrors of the frame on top; what `$p` of the second call matches is then added to the
  variable of the first, and a rewrite of that rewrites other code
  (`predicate_definition.rs`:34, `state.rs`:292). In the run `matching` predicates are
  called once.

Met while modelling, without a run of their own:

- The prompt accepts any word that begins with a valid letter, and the code behind it
  panics over "yes" (`emit.rs`:228; the answer "word" in `Apply`). The panic is seen only
  after the wait for a counter that nothing moves any more.
- The test for overlapping rewrites compares neighbours of the sorted list only: (0,2),
  (2,3), (1,4) is accepted although the first and the last cross, and one of them is
  dropped (`intervals.rs`:41). `OnlyCrossingRejected` is the direction that holds.
- In a multifile run one file that is too big or unreadable makes an error of the results
  of all (`api.rs`:117; the outcome "no_versions" in `Steps`).
- With a pool of one thread an apply does not end: the consumer is never started
  (`analyze.rs`:264, 319; `Pool = 1`).
- An error in a handler drops the rest of its vector, a `DoneFile` among it, and the apply
  does not end (`emit.rs`:86). Suppressing a file that would be created is such an error
  (`emit.rs`:215). `ApplyEnds` says "unless a handler failed" for this reason.
- A path found twice is counted twice in `found_count` and once, by path, in a multifile
  run's `DoneFile`s (`problem.rs`:218): such an apply does not end.
- `grit apply --cache` never learns a file: no `DoneFile` that it sees says "no results"
  and is new (`analyze.rs`:273). Were that mended alone, the next apply would not end,
  since a file known to the cache sends no `DoneFile` (`problem.rs`:248).
- `--refresh-cache` of an apply without `--cache` refreshes nothing (`paths.rs`:32).
- An insertion whose text is that of the rewrite of the same node is dropped as a repeat
  (`inline_snippets.rs`:39), which is what `Twins` excepts in `ResultAsIntended`.
- A rewrite of an empty range, as that of an empty capture group (`regex.rs`:99), where
  another rewrite begins lies within that one but is made as well: the selection sees two
  ranges that touch (`intervals.rs`:86), and `filter_out_nested` keeps what is empty
  (`inline_snippets.rs`:28-33). Of two rewrites of one empty range both are made for the same
  reason, if their texts differ. `EmptyBeside` excepts both in `ResultAsIntended`.
- A write of the cache that the system cuts short goes on later, with writes of other
  processes in between (`new_cache.rs`:43-47). When two processes have a write that ended
  within a key, the rest of one key may come to stand behind the beginning of another, and
  the two are a key that nobody put: a check would skip a file for it. `OneTorn` excepts
  this in `HitsWerePut` and `RefreshForgets`. The version byte is written by the drop of a
  `BufWriter` that ignores failures (`new_cache.rs`:61-63).
- After a multifile step all its files are marked as matched (a todo in the code).
- The edits of a sequence within a step are lost if that step then rewrites the same file
  from the revision it began with; effects of the outer step on other files are cleared
  by the inner one. `EditsSurvive` excepts the first ("nested").
- A rewrite that yields the text or the name that was there pushes a revision like any
  other, and the file is reported as rewritten: `exec_step` (`marzano_context.rs`:249-330) and
  `file_to_match_result` (`api.rs`:134-138) compare nothing. `OnlyEditedRewritten` therefore
  speaks of files that a step edited, not of files that changed.
- A file with the text of another, an effect on an older revision, or a suppressed effect
  next to a live one, gives a revision without any edit; the file is then reported as
  rewritten too (`odd` in `OnlyEditedRewritten`).
- Mirrors are one level deep: a definition that passes its own parameter on to another one
  does not keep the variable of its caller in step (`variable_content.rs`:14), and a
  rewrite of that variable misses places. A definition that calls itself with its own
  parameter refers to the frame of the call, not to that of its caller. `MCMatching` has
  no such definitions.
- The `until` of `within` is executed in place, so what it binds stays, and it is not asked
  at an ancestor that matches (`within.rs`:66); that of `contains` is executed in a clone
  and always asked (`contains.rs`:66). In `Means` both are
  asked everywhere and bind nothing; the patterns of the runs do not tell the two apart.
- `every`, `and` and `rewrite` do not restore the state when they fail half way
  (`every.rs`:34 says so); the patterns around them do.
- A predicate definition that ends with an error does not leave its scope
  (`predicate_definition.rs`:42).
- `did_open` stores the document after its diagnostics are out. A change that comes
  meanwhile is dropped and then the opened text stored; a close meanwhile leaves a document
  that nobody drops (`server.rs`:304). `SettledCurrent` and `EditFits` except the documents
  this happened to (`early`).
- A check takes a pattern with a limit from the cache and marks the files its limit refused,
  which an apply does not (`analyze.rs`:183): the next check does not look at them
  (`check.rs`:205). With `--fix` and several rewrites of a file the pattern is executed again
  with the limit it has already spent, and fixes nothing (`check.rs`:382).
- The results of a pattern that moves files have the new names, so the old ones are marked
  as having no match, and a second check reports nothing (`problem.rs`:362, `api.rs`:526).
  Where such a pattern and another one rewrite a file, the fix may end with an error at the
  file that is gone, and the files behind it are not fixed (`check.rs`:381).
- A file that is edited after a check hashed it is executed as it is then and marked under
  the old hash; put back, it is not checked again (`check.rs`:205). `NothingHidden` excepts
  these three.
- `grit check --fix` fixes nothing with `--json` or `--github-actions` (`check.rs`:322, 340).
- The key of a check is the content and the pattern, so a pattern that looks at `$filename`
  is not tried on a file with the text of one it did not match; that of an apply is the
  path (`problem.rs`:222), so it would be a mismatch whatever the file holds later.
- Every command writes the manifest as it starts, by a tokio file that it does not flush,
  and reads it again through an `Updater` of its own; read too early it is empty, and taken
  for a new one, which then replaces the old with its token (`updater.rs`:373-456).
- `DocumentAction::UpsertContent` is said to return the old content (`documents.rs`:22) and
  returns the new one. The version of a document is never updated.
- Diagnostics of handlers that run side by side are published in any order, those of an
  older text last among them, and are not cleared when a document is closed.
- `fix_file` makes an edit of the whole document for each result (`check.rs`:141), so two
  rewrites are two overlapping edits of one request.
- `input_matches` is set through a `RefCell` and stays set when the sequence that set it is
  undone.

## 7. Not modelled

The compiler, module fetching, the manifest and login, parsing and languages, the wasm bindings: see the notes in
`PROJECT.json`. Within modelled parts: virtual (stdin) input, fetching and compiling of
patterns, the formatting of messages, the padding and cleaning of text, notebooks; in
`check` several languages, multifile patterns and new files; in the language server searches, code actions, configuration and which diagnostics there are; in
the matcher constants, snippets, maps, accessors, regular expressions, assignments,
functions, and errors.

The program is written in Rust, and every definition here is mapped to Rust sources. The
C files of the repository, 2.8 million lines, are the parsers that tree-sitter generates
from the grammars of the languages, together with their scanners: tables without logic of
this program. Nothing here models them.

## 8. Plan

1. `Manifest`: several processes that read, change and rewrite one JSON file, with the
   device-flow login (`updater.rs`:373-456, `auth0.rs`:99-152).
2. `Matching`: assignments and accumulation, functions and their returns.

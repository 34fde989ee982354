-------------------------------- MODULE Check --------------------------------
(***************************************************************************)
(* grit check (run_check, cli/src/commands/check.rs), run again and again  *)
(* over the files of a project, which somebody may edit at any time.       *)
(*                                                                         *)
(* A check hashes each file it finds, executes each pattern on the files   *)
(* that the cache does not know to be without a match, puts those that had *)
(* none into the cache, and reports the others.  With --fix it goes on to  *)
(* rewrite the files, one after the other: as the only rewrite of a file   *)
(* says or, where there are several, by executing each pattern again.      *)
(*                                                                         *)
(* The text of a file stands for its hash and a pattern for its own, so a  *)
(* key of the cache is a text and a pattern.  The patterns are of one      *)
(* language and none is a multifile one.  How the cache writes its file is *)
(* in Cache, how a limit counts when threads race in Limit.                *)
(***************************************************************************)
EXTENDS Naturals, FiniteSets, SequencesExt, FiniteSetsExt

CONSTANTS
    Files,      \* paths, which are numbers so that they can be sorted
    Patterns,   \* enforced patterns
    Texts,      \* what a file may hold
    Suites,     \* what the patterns may be, see Suite
    MaxRuns,    \* bound: checks
    MaxEdits    \* bound: edits by somebody else

\* A file that is not there, or cannot be read.
Gone == "gone"

\* What a pattern finds in a text: a Match, a Rewrite to another name, or a
\* Rewrite to the text that is given.
Finds == {"none", "match", "move"} \union Texts

\* limit is empty, or holds the number of times the pattern may match.
Suite == [Patterns -> [finds: [Texts -> Finds], limit: SUBSET Nat]]

ASSUME FilesAssumption == Files \subseteq Nat
ASSUME PatternsAssumption == IsFiniteSet(Patterns)
ASSUME TextsAssumption ==
    Texts \intersect {Gone, "none", "match", "move", "waiting", "skipped"} = {}
ASSUME SuitesAssumption ==
    \A s \in Suites : /\ DOMAIN s = Patterns
                      /\ \A p \in Patterns :
                            /\ s[p].finds \in [Texts -> Finds]
                            /\ s[p].limit \subseteq Nat
                            /\ Cardinality(s[p].limit) <= 1
ASSUME BoundsAssumption == MaxRuns \in Nat /\ MaxEdits \in Nat

VARIABLES
    suite,     \* the patterns
    tree,      \* Files -> text: the file system
    stored,    \* the cache file: a set of <<text, pattern>>
    phase,     \* of the check: "idle", "find", "check" or "fix"
    flags,     \* [fix, cache, output]
    snapshot,  \* what has_no_matches answers
    found,     \* found_files: the text a file had when it was hashed
    results,   \* per pattern and file: what executing it gave
    spent,     \* per pattern: invocation_count of its limit
    collected, \* the patterns that are done
    puts,      \* keys put into the cache
    unfixed,   \* files still to fix
    again,     \* the patterns executed again on the first of them
    edited,    \* files somebody has edited since they were hashed
    stale,     \* <<pattern, file>> that executed on another text than was hashed
    loose,     \* the keys ever put for these
    runs, edits

vars == <<suite, tree, stored, phase, flags, snapshot, found, results, spent, collected,
          puts, unfixed, again, edited, stale, loose, runs, edits>>

Unfound == [f \in Files |-> "unfound"]
Nothing == [p \in Patterns |-> [f \in Files |-> "waiting"]]

NoFlags == [fix |-> FALSE, cache |-> "none", output |-> "text"]
Unspent == [p \in Patterns |-> 0]

Init ==
    /\ suite \in Suites
    /\ tree \in [Files -> Texts]
    /\ stored = {}
    /\ phase = "idle"
    /\ flags = NoFlags
    /\ snapshot = {}
    /\ found = Unfound
    /\ results = Nothing
    /\ spent = Unspent
    /\ collected = {} /\ puts = {} /\ unfixed = {} /\ again = {}
    /\ edited = {} /\ stale = {} /\ loose = {}
    /\ runs = 0 /\ edits = 0

\* cache_for_cwd opens the cache, and the patterns are compiled, each with a
\* limit that has not been used.  --no-cache and --refresh-cache exclude each
\* other.
Begin ==
    /\ phase = "idle"
    /\ runs < MaxRuns
    /\ runs' = runs + 1
    /\ phase' = "find"
    /\ flags' \in [fix: BOOLEAN, cache: {"use", "none", "refresh"},
                   output: {"text", "other"}]
    /\ stored' = IF flags'.cache = "refresh" THEN {} ELSE stored
    /\ snapshot' = IF flags'.cache = "none" THEN {} ELSE stored'
    /\ UNCHANGED <<suite, tree, found, results, spent, collected, puts, unfixed, again,
                   edited, stale, loose, edits>>

\* get_input_files reads and hashes a file.
Find(f) ==
    /\ phase = "find"
    /\ found[f] = "unfound"
    /\ found' = [found EXCEPT ![f] = tree[f]]
    /\ UNCHANGED <<suite, tree, stored, phase, flags, snapshot, results, spent, collected,
                   puts, unfixed, again, edited, stale, loose, runs, edits>>

\* Mutation: the pattern is not looked at.
SkipsText(p, f) == \E q \in Patterns : <<found[f], q>> \in snapshot

\* The cache knows the file to have no match.
Skips(p, f) == <<found[f], p>> \in snapshot

\* All files are found.  Those that could not be read are left out, and so are,
\* for each pattern, those that the cache has.
Select ==
    /\ phase = "find"
    /\ \A f \in Files : found[f] # "unfound"
    /\ phase' = "check"
    /\ results' = [p \in Patterns |-> [f \in Files |->
                     IF found[f] = Gone \/ Skips(p, f) THEN "skipped" ELSE "waiting"]]
    /\ UNCHANGED <<suite, tree, stored, flags, snapshot, found, spent, collected,
                   puts, unfixed, again, edited, stale, loose, runs, edits>>

\* Mutation: the limit is one match too high.
RefusesLate(p) == \E n \in suite[p].limit : spent[p] > n

Refuses(p) == \E n \in suite[p].limit : spent[p] >= n

\* Executing a pattern on a text: nothing if the limit is reached, or if there is
\* no file to read.
Outcome(p, text) ==
    IF text = Gone \/ Refuses(p) THEN "none" ELSE suite[p].finds[text]

Counts(p, outcome) ==
    spent' = [spent EXCEPT ![p] = IF outcome = "none" THEN @ ELSE @ + 1]

\* execute_paths of the pattern comes to the file, which it reads again.
Execute(p, f) ==
    /\ phase = "check"
    /\ results[p][f] = "waiting"
    /\ results' = [results EXCEPT ![p][f] = Outcome(p, tree[f])]
    /\ Counts(p, Outcome(p, tree[f]))
    /\ stale' = IF tree[f] = found[f] THEN stale ELSE stale \union {<<p, f>>}
    /\ UNCHANGED <<suite, tree, stored, phase, flags, snapshot, found, collected,
                   puts, unfixed, again, edited, loose, runs, edits>>

\* to_cache of execute_paths: the files that were executed without those that a
\* result names.  A Rewrite has the new name.
ToCache(p) == {f \in Files : results[p][f] \in {"none", "move"}}

\* All files of the pattern are executed, and it puts those without a match.
Collect(p) ==
    /\ phase = "check"
    /\ p \notin collected
    /\ \A f \in Files : results[p][f] # "waiting"
    /\ collected' = collected \union {p}
    /\ LET keys(fs) == {<<found[f], p>> : f \in fs}
       IN  IF flags.cache = "none" THEN UNCHANGED <<puts, loose>>
           ELSE /\ puts' = puts \union keys(ToCache(p))
                /\ loose' = loose \union keys({f \in ToCache(p) : <<p, f>> \in stale})
    /\ UNCHANGED <<suite, tree, stored, phase, flags, snapshot, found, results, spent,
                   unfixed, again, edited, stale, runs, edits>>

-----------------------------------------------------------------------------
Checked == phase = "check" /\ collected = Patterns

\* A match of any kind, which is what is reported.
Reported(p, f) == results[p][f] \in {"match", "move"} \union Texts
AnyReported == \E p \in Patterns, f \in Files : Reported(p, f)
Rewriters(f) == {p \in Patterns : results[p][f] \in {"move"} \union Texts}

\* The process ends, with these keys in the cache file.
Ends(written) ==
    /\ stored' = stored \union written
    /\ phase' = "idle" /\ flags' = NoFlags
    /\ snapshot' = {} /\ found' = Unfound
    /\ results' = Nothing /\ spent' = Unspent
    /\ collected' = {} /\ puts' = {} /\ unfixed' = {} /\ again' = {}
    /\ edited' = {} /\ stale' = {}
    /\ UNCHANGED <<suite, tree, loose, runs, edits>>

\* run_check returns without waiting for the thread that writes the cache: some
\* of the keys may never be written.
EndsEarly == \E written \in SUBSET puts : Ends(written)

\* --json, --github-actions and the check of a workflow report and return, also
\* with --fix.
ReportOther == Checked /\ flags.output = "other" /\ EndsEarly

\* "No results found."
ReportNothing == Checked /\ flags.output = "text" /\ ~AnyReported /\ EndsEarly

Report ==
    /\ Checked
    /\ flags.output = "text"
    /\ AnyReported
    /\ phase' = "fix"
    /\ unfixed' = IF flags.fix THEN {f \in Files : Rewriters(f) # {}} ELSE {}
    /\ UNCHANGED <<suite, tree, stored, flags, snapshot, found, results, spent, collected,
                   puts, again, edited, stale, loose, runs, edits>>

-----------------------------------------------------------------------------
(* The files are fixed in the order of their paths.                        *)

Current == Min(unfixed)

\* apply_rewrite; the new name of a file is not one of Files.
Written(f, result) ==
    tree' = [tree EXCEPT ![f] =
                CASE result = "move" -> Gone
                  [] result \in Texts -> result
                  [] OTHER -> @]

\* There is one rewrite of the file, which holds the text to write.
FixStored ==
    /\ phase = "fix"
    /\ unfixed # {}
    /\ Cardinality(Rewriters(Current)) = 1
    /\ \E p \in Rewriters(Current) : Written(Current, results[p][Current])
    /\ unfixed' = unfixed \ {Current}
    /\ UNCHANGED <<suite, stored, phase, flags, snapshot, found, results, spent, collected,
                   puts, again, edited, stale, loose, runs, edits>>

\* One of several patterns is done with the current file.
Turn(p) ==
    /\ phase = "fix"
    /\ unfixed # {}
    /\ Cardinality(Rewriters(Current)) > 1
    /\ p \in Rewriters(Current) \ again
    /\ IF again \union {p} = Rewriters(Current)
       THEN again' = {} /\ unfixed' = unfixed \ {Current}
       ELSE again' = again \union {p} /\ UNCHANGED unfixed

\* Mutation: what is written is the rewrite that was reported.
FixAgainStored(p) ==
    /\ Turn(p)
    /\ tree[Current] # Gone
    /\ Written(Current, results[p][Current])
    /\ UNCHANGED <<suite, stored, phase, flags, snapshot, found, results, spent, collected,
                   puts, edited, stale, loose, runs, edits>>

\* There are several: the file is read, each pattern is executed on it once more,
\* with the limit it has left, and its rewrite is written; in the order of a HashSet.
FixAgain(p) ==
    /\ Turn(p)
    /\ tree[Current] # Gone
    /\ Written(Current, Outcome(p, tree[Current]))
    /\ Counts(p, Outcome(p, tree[Current]))
    /\ UNCHANGED <<suite, stored, phase, flags, snapshot, found, results, collected,
                   puts, edited, stale, loose, runs, edits>>

\* The walk fails, a file cannot be read again or written, which is an Err or a
\* panic, or the user interrupts the check.
Stops == phase # "idle" /\ EndsEarly

\* All is done; the cache is dropped and its thread joined.
Close == phase = "fix" /\ unfixed = {} /\ Ends(puts)

-----------------------------------------------------------------------------
\* Somebody edits, makes or removes a file.
Edit(f) ==
    /\ edits < MaxEdits
    /\ edits' = edits + 1
    /\ \E text \in (Texts \union {Gone}) \ {tree[f]} : tree' = [tree EXCEPT ![f] = text]
    /\ edited' = IF found[f] = "unfound" THEN edited ELSE edited \union {f}
    /\ UNCHANGED <<suite, stored, phase, flags, snapshot, found, results, spent, collected,
                   puts, unfixed, again, stale, loose, runs>>

Stay == phase = "idle" /\ runs = MaxRuns /\ UNCHANGED vars

Next ==
    \/ Begin
    \/ \E f \in Files : Find(f) \/ Edit(f)
    \/ Select
    \/ \E p \in Patterns, f \in Files : Execute(p, f)
    \/ \E p \in Patterns : Collect(p) \/ FixAgain(p)
    \/ ReportOther \/ ReportNothing \/ Report \/ FixStored \/ Stops \/ Close
    \/ Stay

Spec == Init /\ [][Next]_vars

-----------------------------------------------------------------------------
Keys == Texts \X Patterns

\* Types, and a limit is not exceeded, by the check and the fix together.
TypeOK ==
    /\ suite \in Suites
    /\ tree \in [Files -> Texts \union {Gone}]
    /\ phase \in {"idle", "find", "check", "fix"}
    /\ flags \in [fix: BOOLEAN, cache: {"use", "none", "refresh"}, output: {"text", "other"}]
    /\ found \in [Files -> Texts \union {Gone, "unfound"}]
    /\ results \in [Patterns -> [Files -> Finds \union {"waiting", "skipped"}]]
    /\ spent \in [Patterns -> Nat]
    /\ \A p \in Patterns : \A n \in suite[p].limit : spent[p] <= n
    /\ stored \subseteq Keys /\ snapshot \subseteq Keys
    /\ puts \subseteq Keys /\ loose \subseteq Keys
    /\ collected \subseteq Patterns /\ again \subseteq Patterns
    /\ unfixed \subseteq Files /\ edited \subseteq Files
    /\ stale \subseteq Patterns \X Files
    /\ runs \in 0 .. MaxRuns /\ edits \in 0 .. MaxEdits

\* The cache hides nothing: whatever earlier checks put into it, however they
\* ended, and whatever was edited or fixed since, a check reports each match there
\* is in the text it found.  Not so for a pattern with a limit, which run_check
\* unlike apply takes from the cache; for one that moves files, whose results
\* name another file; for a file edited between hashing and executing; and for
\* the keys such edits have left.
NothingHidden ==
    Checked =>
        \A p \in Patterns, f \in Files :
            /\ suite[p].limit = {}
            /\ found[f] # Gone
            /\ <<p, f>> \notin stale
            /\ flags.cache = "use" => <<found[f], p>> \notin loose
            => \/ suite[p].finds[found[f]] \in {"none", "move"}
               \/ results[p][f] = suite[p].finds[found[f]]

\* A text after one of the patterns.
After(text, p) ==
    IF text = Gone THEN Gone
    ELSE CASE suite[p].finds[text] = "move" -> Gone
           [] suite[p].finds[text] \in Texts -> suite[p].finds[text]
           [] OTHER -> text

\* What the patterns make of a text, one after the other in any order.
InTurn(text, ps) ==
    {made \in Texts \union {Gone} :
        \E order \in SetToSeqs(ps) :
            \E texts \in [0 .. Len(order) -> Texts \union {Gone}] :
                /\ texts[0] = text
                /\ \A i \in 1 .. Len(order) : texts[i] = After(texts[i - 1], order[i])
                /\ texts[Len(order)] = made}

\* No fix undoes another: where several patterns rewrite a file that nobody edits,
\* it ends as they make it one after the other, each on the text the one before
\* left.  Until its turn a file is as it was found, also if fixing another fails.
\* A pattern with a limit may have none left, and then leaves the file alone.
FixedInTurn ==
    phase = "fix" /\ flags.fix =>
        \A f \in Files \ edited :
            IF f \in unfixed
            THEN f # Current \/ again = {} => tree[f] = found[f]
            ELSE (\A p \in Rewriters(f) : suite[p].limit = {}) =>
                     tree[f] \in InTurn(found[f], Rewriters(f))
=============================================================================

-------------------------------- MODULE Steps --------------------------------
(***************************************************************************)
(* One Problem::execute (core/src/problem.rs): a Sequential of steps, each *)
(* an exec_step (core/src/marzano_context.rs), over the FileRegistry       *)
(* (grit-pattern-matcher/src/pattern/state.rs).                            *)
(*                                                                         *)
(* A step takes the latest revision of its files, executes its pattern,    *)
(* applies the effects the pattern left to each of the files, which gives  *)
(* revisions, and makes the new files it asked for.  The pattern of a step *)
(* may itself hold a Sequential, so that steps nest: the stack has one     *)
(* frame per Sequential that is running.                                   *)
(*                                                                         *)
(* What a pattern does is open: which bindings it rewrites and into what,  *)
(* whether it loads the file, where it clones the state and goes back to   *)
(* the clone, and whether it matches.  A binding is known by the FileOwner *)
(* whose source or name it points into.  A text is one that was found or   *)
(* one that was made, for the first time in some FileOwner; a name         *)
(* likewise.  Next to them a FileOwner has, in edits, the kinds of its     *)
(* edits and the steps that made them, which the code does not keep.       *)
(***************************************************************************)
EXTENDS Naturals, Sequences, FiniteSets, SequencesExt, Subsequences

CONSTANTS
    Found,      \* the lists of lazy files that may be found
    MaxDepth,   \* bound: Sequentials within each other
    MaxEffects, \* bound: effects and wanted files at a time, in each step executed
    MaxNew,     \* bound: new files asked for in all
    MaxOwners   \* bound: FileOwners there are once a pattern has loaded a file

\* What a lazy file holds, what try_into_cow and is_file_too_big will say of it, and
\* whether its nodes, also those of its revisions, may be beneath a comment that
\* suppresses.
Lazy == [text: Nat, load: {"ok", "too_big", "unreadable"}, suppresses: BOOLEAN]
ASSUME FoundAssumption == Found \subseteq Seq(Lazy) \ {<<>>}
ASSUME BoundsAssumption ==
    /\ MaxDepth \in Nat \ {0} /\ MaxEffects \in Seq(Nat) \ {<<>>}
    /\ MaxNew \in Nat /\ MaxOwners \in Nat

\* Bound: steps executed.
MaxSteps == Len(MaxEffects)

VARIABLES
    lazy_files, \* the files that were found
    files,      \* FileOwners: every FileOwner ever made, never taken back
    matches,    \* per FileOwner: its input_matches, a RefCell
    state,      \* State: owners of the registry, effects, and new files wanted
    stack,      \* the Sequentials that are running, outermost first
    step,       \* steps executed so far
    outcome,    \* "running", or how execute ended
    results,    \* what execute returned
    odd         \* what has happened that may give a file a revision it has no edit in

vars == <<lazy_files, files, matches, state, stack, step, outcome, results, odd>>

-----------------------------------------------------------------------------
(* The registry.  owners[f] holds the versions of file f, as indices into  *)
(* files; version_count[f] is its length, and FilePtr.version 0 is the     *)
(* first.                                                                  *)

Owners == state.owners
is_loaded(f) == Owners[f] # <<>>
Available(ptr) == ptr.version < Len(Owners[ptr.file])
get_file_owner(ptr) == Owners[ptr.file][ptr.version + 1]

\* Mutation: the first revision is taken for the latest.
latest_unmoved(f) == [file |-> f, version |-> 0]

\* Mutation: the number of versions is taken for the last of them.
latest_past(f) == [file |-> f, version |-> Len(Owners[f])]

latest_revision(f) ==
    [file |-> f, version |-> IF is_loaded(f) THEN Len(Owners[f]) - 1 ELSE 0]

FoundText(f) == <<"found", lazy_files[f].text>>
FoundName(f) == <<"found", f>>

\* load_file of files that are not loaded: a file that is too big, or cannot be
\* read, is not.
Loads(toload) ==
    LET new == Subsequence(toload, {i \in DOMAIN toload :
                   ~is_loaded(toload[i]) /\ lazy_files[toload[i]].load = "ok"})
    IN  /\ files' = files \o [i \in DOMAIN new |->
                        [name |-> FoundName(new[i]), text |-> FoundText(new[i]),
                         edits |-> {}, new |-> FALSE]]
        /\ matches' = matches \o [i \in DOMAIN new |-> "none"]
        /\ state' = [state EXCEPT !.owners =
                        [f \in DOMAIN Owners |->
                            IF \E i \in DOMAIN new : new[i] = f
                            THEN <<Len(files) + CHOOSE i \in DOMAIN new : new[i] = f>>
                            ELSE Owners[f]]]

-----------------------------------------------------------------------------
Top == stack[Len(stack)]
Goto(place) == stack' = [stack EXCEPT ![Len(stack)].place = place]
At(place) == outcome = "running" /\ Top.place = place

\* Sequential::execute for the files of a binding, between two steps; clone is
\* the state that the pattern of its step may go back to.
Frame(binding, place, clone) ==
    [binding |-> binding, place |-> place, number |-> 0, pointers |-> <<>>,
     next |-> 1, ranges |-> "none", clone |-> clone]

NoState == [owners |-> <<>>, effects |-> {}, new_files |-> 0, asked |-> 0]

\* execute returns without results, and what it owns is dropped.
Ends(how) ==
    /\ outcome' = how
    /\ state' = NoState
    /\ files' = <<>> /\ matches' = <<>> /\ stack' = <<>>
    /\ UNCHANGED <<lazy_files, step, results, odd>>

Init ==
    /\ lazy_files \in Found
    /\ files = <<>>
    /\ matches = <<>>
    /\ state = [NoState EXCEPT !.owners = [f \in DOMAIN lazy_files |-> <<>>]]
    /\ stack = <<Frame([f \in DOMAIN lazy_files |-> f], "enter", state)>>
    /\ step = 0
    /\ outcome = "running"
    /\ results = <<>>
    /\ odd = IF \E f, g \in DOMAIN lazy_files :
                    f # g /\ lazy_files[f].text = lazy_files[g].text
             THEN {"touched"} ELSE {}

\* The first half of exec_step: the latest revisions and, unless there is one
\* file, which the pattern will load, loading them.
Enter ==
    /\ At("enter")
    /\ step < MaxSteps
    /\ step' = step + 1
    /\ LET binding == Top.binding
           single == Len(binding) = 1
           held == IF single THEN binding
                   ELSE Subsequence(binding, {i \in DOMAIN binding :
                            is_loaded(binding[i]) \/ lazy_files[binding[i]].load = "ok"})
       IN  /\ stack' = [stack EXCEPT ![Len(stack)] =
                           [@ EXCEPT !.place = "match",
                                     !.number = step',
                                     !.clone = state,
                                     !.pointers = [i \in DOMAIN held |->
                                                      latest_revision(held[i])]]]
           /\ IF single THEN UNCHANGED <<files, matches, state>> ELSE Loads(binding)
    /\ UNCHANGED <<lazy_files, outcome, results, odd>>

\* FilePattern or Contains load the one file of the step, within the pattern.
Load ==
    /\ At("match")
    /\ Len(Top.pointers) = 1
    /\ Len(files) < MaxOwners
    /\ LET f == Top.pointers[1].file
       IN  /\ ~is_loaded(f)
           /\ lazy_files[f].load = "ok"
           /\ Loads(<<f>>)
    /\ UNCHANGED <<lazy_files, stack, step, outcome, results, odd>>

\* The pattern of the step comes to a `maybe`, `or`, `any`, `some` or `not`, which
\* clones the state ..
Clone ==
    /\ At("match")
    /\ stack' = [stack EXCEPT ![Len(stack)].clone = state]
    /\ UNCHANGED <<lazy_files, files, matches, state, step, outcome, results, odd>>

\* .. or to a Sequential, for one of the files or for all of them.
Nest ==
    /\ At("match")
    /\ Len(stack) < MaxDepth
    /\ step < MaxSteps
    /\ Top.pointers # <<>>
    /\ LET held == [i \in DOMAIN Top.pointers |-> Top.pointers[i].file]
       IN  \E binding \in {held} \union {<<f>> : f \in Range(held)} :
              stack' = Append(stack, Frame(binding, "enter", state))
    /\ UNCHANGED <<lazy_files, files, matches, state, step, outcome, results, odd>>

\* What is within that `maybe` does not match, though a Sequential in it may have,
\* or does match within the `not`: the pattern goes on from the clone.
GoBack ==
    /\ At("match")
    /\ state' = Top.clone
    /\ UNCHANGED <<lazy_files, files, matches, stack, step, outcome, results, odd>>

\* A pattern may rewrite any binding it has seen, in this step or, by a variable, in
\* one before.
Bindings ==
    {b \in [owner: DOMAIN files, kind: {"node", "suppressed", "filename"}] :
        \E f \in DOMAIN lazy_files :
            /\ b.owner \in Range(Owners[f])
            /\ b.kind = "suppressed" => lazy_files[f].suppresses}

\* What is odd of an effect: that it may touch a file and not edit it, as it is
\* suppressed or for another version, or that it is for a version that is not the
\* latest any more.
Oddities(effect) ==
    (IF \/ effect.kind = "suppressed"
        \/ \A i \in DOMAIN Top.pointers :
              Available(Top.pointers[i]) => effect.owner # get_file_owner(Top.pointers[i])
     THEN {"touched"} ELSE {})
    \union (IF \A i \in DOMAIN Top.pointers :
                   Top.pointers[i] = latest_revision(Top.pointers[i].file)
            THEN {} ELSE {"nested"})

\* Bound: what a step leaves for its end.
RoomForMore == Cardinality(state.effects) + state.new_files < MaxEffects[step]

\* The pattern comes to a rewrite, which adds an effect ..
Rewrite ==
    /\ At("match")
    /\ RoomForMore
    /\ \E effect \in Bindings \ state.effects :
          /\ state' = [state EXCEPT !.effects = @ \union {effect}]
          /\ odd' = odd \union Oddities(effect)
    /\ UNCHANGED <<lazy_files, files, matches, stack, step, outcome, results>>

\* .. or to a new file, which is added to the list of $new_files.
AskFile ==
    /\ At("match")
    /\ Top.pointers # <<>>
    /\ RoomForMore
    /\ state.asked < MaxNew
    /\ state' = [state EXCEPT !.new_files = @ + 1, !.asked = @ + 1]
    /\ UNCHANGED <<lazy_files, files, matches, stack, step, outcome, results, odd>>

\* The pattern matches.  Unless it needs the file, as `maybe` or `not` may not,
\* the file is loaded by now.  Without a file there is no match.
Matches ==
    /\ At("match")
    /\ Top.pointers # <<>>
    /\ \E r \in {"some", "suppressed"} :
          /\ r = "suppressed" => \E f \in DOMAIN lazy_files : lazy_files[f].suppresses
          /\ stack' = [stack EXCEPT ![Len(stack)] =
                          [@ EXCEPT !.place = "apply", !.next = 1, !.ranges = r,
                                    !.clone = state]]
    /\ UNCHANGED <<lazy_files, files, matches, state, step, outcome, results, odd>>

\* The pattern, or reading the file in it, is an Err: so is all of execute.
Raise ==
    /\ At("match")
    /\ Ends("error")

\* The pattern does not match: the outermost Sequential has no results.
Fails ==
    /\ At("match")
    /\ Len(stack) = 1
    /\ Ends("nothing")

\* An inner Sequential does not match, and the pattern around it goes back to its
\* clone; or it does, within a `not`.
Undo ==
    /\ At("match") \/ At("stepped")
    /\ Len(stack) > 1
    /\ stack' = Front(stack)
    /\ state' = stack[Len(stack) - 1].clone
    /\ UNCHANGED <<lazy_files, files, matches, step, outcome, results, odd>>

-----------------------------------------------------------------------------
(* The second half of exec_step, for one of its pointers after the other.  *)

Pointer == Top.pointers[Top.next]
Applying == At("apply") /\ Top.next <= Len(Top.pointers)

\* get_file_owner indexes the versions of a file that has none.
Panics ==
    /\ Applying
    /\ ~Available(Pointer)
    /\ Ends("panicked")

\* Mutation: any effect is one for the file.
TouchesAny(o) == state.effects # {}

\* Some effect is for a file like this: its source is compared as a string.
Touches(o) ==
    \E e \in state.effects :
        \/ e.kind # "filename" /\ files[e.owner].text = files[o].text
        \/ e.kind = "filename" /\ files[e.owner].name = files[o].name

\* apply_effects does without the suppressed ones, and edits what the effect
\* points into.
Live == {e \in state.effects : e.kind # "suppressed"}
Edits(o, kind) == \E e \in Live : e.kind = kind /\ e.owner = o

\* The texts and the names that a file has had; one that is made for the next
\* FileOwner is none of them.
Texts(f) == {FoundText(f)} \union {files[o].text : o \in Range(Owners[f])}
Names(f) == {FoundName(f)} \union {files[o].name : o \in Range(Owners[f])}
NewValue == <<"made", Len(files) + 1>>

\* What is edited may get any text or name, also the one that it has or that
\* another version or file has: exec_step does not compare them.
Edited(o, kind, value, values) == IF Edits(o, kind) THEN {NewValue} \union values ELSE {value}

Revisions(o) ==
    [name: Edited(o, "filename", files[o].name, UNION {Names(f) : f \in DOMAIN lazy_files}),
     text: Edited(o, "node", files[o].text, UNION {Texts(f) : f \in DOMAIN lazy_files}),
     edits: {files[o].edits \union {[kind |-> k, step |-> Top.number] :
                 k \in {kind \in {"node", "filename"} : Edits(o, kind)}}},
     new: {TRUE}]

\* A revision of a file has the text or the name of another file.
LikeAnother(f, revision) ==
    \E g \in DOMAIN lazy_files \ {f} :
        revision.text \in Texts(g) \/ revision.name \in Names(g)

\* input_matches is set once; a revision is pushed if any effect is live.
Apply ==
    /\ Applying
    /\ Available(Pointer)
    /\ LET o == get_file_owner(Pointer)
           seen == [matches EXCEPT ![o] = IF @ = "none" THEN Top.ranges ELSE @]
       IN  IF Touches(o) /\ Live # {}
           THEN \E revision \in Revisions(o) :
                   /\ files' = Append(files, revision)
                   /\ matches' = Append(seen, "none")
                   /\ state' = [state EXCEPT !.owners[Pointer.file] =
                                   Append(@, Len(files) + 1)]
                   /\ odd' = odd \union
                          IF LikeAnother(Pointer.file, revision) THEN {"touched"} ELSE {}
           ELSE matches' = seen /\ UNCHANGED <<files, state, odd>>
    /\ stack' = [stack EXCEPT ![Len(stack)].next = @ + 1]
    /\ UNCHANGED <<lazy_files, step, outcome, results>>

\* The effects overlap, or their text cannot be made.
ApplyFails ==
    /\ Applying
    /\ Available(Pointer)
    /\ Edits(get_file_owner(Pointer), "node")
    /\ Ends("error")

\* The i-th of the new files that are made at a time.
NewFile(i) ==
    LET new == <<"made", Len(files) + i>>
    IN  [name |-> new, text |-> new, edits |-> {}, new |-> TRUE]

\* Mutation: the new files stay in the list of those wanted.
PushNewFilesKept ==
    /\ At("apply")
    /\ Top.next > Len(Top.pointers)
    /\ LET made == [i \in 1 .. state.new_files |-> NewFile(i)]
       IN  /\ files' = files \o made
           /\ matches' = matches \o [i \in DOMAIN made |-> "none"]
           /\ state' = [state EXCEPT
                           !.owners = @ \o [i \in DOMAIN made |-> <<Len(files) + i>>],
                           !.effects = {}]
    /\ stack' = [stack EXCEPT ![Len(stack)] = Frame(@.binding, "stepped", state')]
    /\ UNCHANGED <<lazy_files, step, outcome, results, odd>>

\* Mutation: the effects are left for the next step.
PushNewFilesOnly ==
    /\ At("apply")
    /\ Top.next > Len(Top.pointers)
    /\ LET made == [i \in 1 .. state.new_files |-> NewFile(i)]
       IN  /\ files' = files \o made
           /\ matches' = matches \o [i \in DOMAIN made |-> "none"]
           /\ state' = [state EXCEPT
                           !.owners = @ \o [i \in DOMAIN made |-> <<Len(files) + i>>],
                           !.new_files = 0]
    /\ stack' = [stack EXCEPT ![Len(stack)] = Frame(@.binding, "stepped", state')]
    /\ UNCHANGED <<lazy_files, step, outcome, results, odd>>

\* Each new file that was asked for becomes a file of the registry, and what
\* the step left behind is cleared.
PushNewFiles ==
    /\ At("apply")
    /\ Top.next > Len(Top.pointers)
    /\ LET made == [i \in 1 .. state.new_files |-> NewFile(i)]
       IN  /\ files' = files \o made
           /\ matches' = matches \o [i \in DOMAIN made |-> "none"]
           /\ state' = [state EXCEPT
                           !.owners = @ \o [i \in DOMAIN made |-> <<Len(files) + i>>],
                           !.effects = {}, !.new_files = 0]
    /\ stack' = [stack EXCEPT ![Len(stack)] = Frame(@.binding, "stepped", state')]
    /\ UNCHANGED <<lazy_files, step, outcome, results, odd>>

\* The Sequential has a further step ..
NextStep ==
    /\ At("stepped")
    /\ step < MaxSteps
    /\ Goto("enter")
    /\ UNCHANGED <<lazy_files, files, matches, state, step, outcome, results, odd>>

\* .. or matches, and the pattern around it goes on.
Return ==
    /\ At("stepped")
    /\ Len(stack) > 1
    /\ stack' = Front(stack)
    /\ UNCHANGED <<lazy_files, files, matches, state, step, outcome, results, odd>>

-----------------------------------------------------------------------------
(* file_to_match_result, for the versions of one file.                     *)

Kind(owners) ==
    IF Len(owners) > 1 THEN "rewrite"
    ELSE IF files[owners[1]].new THEN "create"
    ELSE IF matches[owners[1]] = "some" THEN "match"
    ELSE "none"
Result(owners) ==
    [kind |-> Kind(owners), from |-> owners[1], to |-> owners[Len(owners)]]

\* The outermost Sequential matches: a result of each file, or an Err if there is
\* one without a version.
Collect ==
    /\ At("stepped")
    /\ Len(stack) = 1
    /\ IF \E f \in DOMAIN Owners : Owners[f] = <<>>
       THEN Ends("no_versions")
       ELSE /\ outcome' = "ok"
            /\ results' = Subsequence([f \in DOMAIN Owners |-> Result(Owners[f])],
                                   {f \in DOMAIN Owners : Kind(Owners[f]) # "none"})
            /\ UNCHANGED <<lazy_files, files, matches, state, stack, step, odd>>

Stay == outcome # "running" /\ UNCHANGED vars

Next ==
    \/ Enter \/ Load \/ Clone \/ Nest \/ GoBack \/ Rewrite \/ AskFile
    \/ Matches \/ Raise \/ Fails \/ Undo \/ Panics \/ Apply \/ ApplyFails \/ PushNewFiles
    \/ NextStep \/ Return \/ Collect \/ Stay

Spec == Init /\ [][Next]_vars

-----------------------------------------------------------------------------
Pointers == [file: Nat \ {0}, version: Nat]

\* Types, and a pointer into a file that is loaded is to one of its versions.
TypeOK ==
    /\ lazy_files \in Found
    /\ Len(matches) = Len(files)
    /\ \A i \in DOMAIN files : files[i].new \in BOOLEAN
    /\ \A i \in DOMAIN matches : matches[i] \in {"none", "some", "suppressed"}
    /\ \A f \in DOMAIN Owners : Owners[f] \in Seq(DOMAIN files)
    /\ state.effects \subseteq [owner: DOMAIN files,
                                kind: {"node", "suppressed", "filename"}]
    /\ state.new_files \in Nat /\ state.asked \in Nat
    /\ Len(stack) \in 0 .. MaxDepth
    /\ \A d \in DOMAIN stack :
          /\ stack[d].place \in {"enter", "match", "apply", "stepped"}
          /\ stack[d].pointers \in Seq(Pointers)
          /\ \A i \in DOMAIN stack[d].pointers :
                is_loaded(stack[d].pointers[i].file) => Available(stack[d].pointers[i])
          /\ stack[d].next \in 1 .. Len(stack[d].pointers) + 1
    /\ step \in 0 .. MaxSteps
    /\ outcome \in {"running", "ok", "nothing", "error", "panicked", "no_versions"}
    /\ odd \subseteq {"touched", "nested"}

\* exec_step leaves nothing to the step behind it: when one of the outermost
\* steps begins, no effect and no wanted file of an earlier one is left, also
\* not after inner sequences that matched or were undone.
StepStartsClean ==
    At("enter") /\ Len(stack) = 1 => state.effects = {} /\ state.new_files = 0

Rewrites == {i \in DOMAIN results : results[i].kind = "rewrite"}

\* Each step works on what the one before made of the file: what is reported for
\* a file has the edits of all its revisions, unless a step goes on to rewrite
\* the file after a Sequential within it did, whose edits are then lost.
EditsSurvive ==
    "nested" \notin odd =>
        \A i \in Rewrites : \A f \in DOMAIN Owners :
            results[i].from \in Range(Owners[f]) =>
                \A o \in Range(Owners[f]) :
                    files[o].edits \subseteq files[results[i].to].edits

\* Each new file that a step asked for is reported once, however many steps
\* follow, and none that an undone Sequential asked for.
CreatedOnce ==
    outcome = "ok" =>
        Cardinality({i \in DOMAIN results : results[i].kind = "create"}) = state.asked

\* A file is reported as rewritten only if a step edited it, whether or not that
\* gave it another text or name, as long as no two files ever have the same text or
\* name, nothing is suppressed, no variable points into an earlier revision and no
\* step rewrites a file after a Sequential within it did.
OnlyEditedRewritten ==
    odd = {} => \A i \in Rewrites :
        files[results[i].from].edits # files[results[i].to].edits

\* As get_file_owner (state.rs) asserts in a debug build: its pointer is one of a
\* version that is available.
PointersAvailable == Applying => Available(Pointer)
=============================================================================

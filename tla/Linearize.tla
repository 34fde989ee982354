------------------------------ MODULE Linearize ------------------------------
(***************************************************************************)
(* How the effects of a match become edits of the text: one call of        *)
(* linearize_binding (core/src/marzano_binding.rs), with                   *)
(* get_top_level_effects (grit-pattern-matcher/src/pattern/state.rs),      *)
(* intervals.rs and inline_snippets.rs.                                    *)
(*                                                                         *)
(* The effects that apply to a stretch of the source are sorted, checked   *)
(* for overlaps and reduced to the outermost; what is left is checked      *)
(* again, freed of nested and repeated edits, and written into the text    *)
(* from its end to its beginning.                                          *)
(*                                                                         *)
(* The text is a sequence of tokens with no newline, comma or padding, so  *)
(* the steps that tidy those (pad_snippet, delete_hanging_comma, deletion  *)
(* of whole lines) do nothing.  The text of an effect is given: it is what *)
(* linearized_text returned for it.                                        *)
(***************************************************************************)
EXTENDS Naturals, Integers, Sequences, FiniteSets, Subsequences

CONSTANTS
    source,     \* the text of the file
    left, right,\* the range to linearize
    Inputs      \* lists of effects, in the order the pattern made them

Effect == [start: Nat, end: Nat, kind: {"Rewrite", "Insert"}, text: Seq(STRING)]

ASSUME SourceAssumption == source \in Seq(STRING)
ASSUME RangeAssumption ==
    left \in Nat /\ right \in Nat /\ left <= right /\ right <= Len(source)
\* A range may be empty: that of a group of a regex that captures nothing.
ASSUME InputsAssumption ==
    \A input \in Inputs :
        /\ input \in Seq(Effect)
        /\ \A i \in DOMAIN input : input[i].start <= input[i].end

VARIABLES
    input,          \* the effects as they were made
    effects,        \* the effects, once sorted
    phase,          \* where linearize_binding is
    rest,           \* the effects still to look at are the first rest ones
    top_level,      \* the effects chosen, last one first: the replacements
    top_level_open, \* start of the last rewrite chosen
    inserts,        \* per position: texts of replacements that end there
    next,           \* index of a loop over the replacements
    output_ranges,  \* where the edits are in the result, first one first
    code            \* the text, as far as it is edited

vars == <<input, effects, phase, rest, top_level, top_level_open, inserts, next,
          output_ranges, code>>

-----------------------------------------------------------------------------
\* compare: by end, and for one end the later start first.
Less(e, f) == e.end < f.end \/ (e.end = f.end /\ e.start > f.start)

\* sort_by is stable.
SortedBy(s, p, less(_, _)) ==
    \A i, j \in DOMAIN s : i < j =>
        \/ less(s[p[i]], s[p[j]])
        \/ ~less(s[p[j]], s[p[i]]) /\ p[i] < p[j]
Orders(s) ==
    {p \in [DOMAIN s -> DOMAIN s] :
        \A i, j \in DOMAIN s : p[i] = p[j] => i = j}

\* effective_range: an insertion edits the end of its node.
Start(e) == IF e.kind = "Insert" THEN e.end ELSE e.start

Init ==
    /\ input \in Inputs
    /\ effects = input
    /\ phase = "sort"
    /\ rest = 0
    /\ top_level = <<>>
    /\ top_level_open = right
    /\ inserts = [p \in 0 .. Len(source) |-> {}]
    /\ next = 1
    /\ output_ranges = <<>>
    /\ code = SubSeq(source, left + 1, right)

\* earliest_deadline_sort: the sort ..
Sort ==
    /\ phase = "sort"
    /\ \E p \in Orders(input) :
          /\ SortedBy(input, p, Less)
          /\ effects' = [i \in DOMAIN input |-> input[p[i]]]
    /\ phase' = "check"
    /\ UNCHANGED <<input, rest, top_level, top_level_open, inserts, next,
                   output_ranges, code>>

\* .. and the test of each pair of neighbours.
Crosses(e, f) == f.start < e.end /\ f.start > e.start

\* Mutation: neighbours that only touch are taken to overlap.
CheckTouching ==
    /\ phase = "check"
    /\ phase' = IF \E i \in 1 .. Len(effects) - 1 :
                       /\ effects[i + 1].start <= effects[i].end
                       /\ effects[i + 1].start > effects[i].start
                THEN "rejected" ELSE "select"
    /\ rest' = Len(effects)
    /\ UNCHANGED <<input, effects, top_level, top_level_open, inserts, next,
                   output_ranges, code>>

\* Mutation: the loop starts one behind the last effect.
CheckOffByOne ==
    /\ phase = "check"
    /\ phase' = IF \E i \in 1 .. Len(effects) - 1 :
                       Crosses(effects[i], effects[i + 1])
                THEN "rejected" ELSE "select"
    /\ rest' = Len(effects) + 1
    /\ UNCHANGED <<input, effects, top_level, top_level_open, inserts, next,
                   output_ranges, code>>

CheckNeighbours ==
    /\ phase = "check"
    /\ phase' = IF \E i \in 1 .. Len(effects) - 1 :
                       Crosses(effects[i], effects[i + 1])
                THEN "rejected" ELSE "select"
    /\ rest' = Len(effects)
    /\ UNCHANGED <<input, effects, top_level, top_level_open, inserts, next,
                   output_ranges, code>>

-----------------------------------------------------------------------------
(* get_top_level_intervals_in_range: one effect after the other, the last  *)
(* one first.                                                              *)

Current == effects[rest]
Selecting == phase = "select" /\ rest > 0 /\ Current.end >= left
InsertInRange(e) == e.kind = "Insert" /\ e.start >= left /\ e.end <= right
Choose == top_level' = Append(top_level, Current) /\ rest' = rest - 1

SelectInsert ==
    /\ Selecting
    /\ InsertInRange(Current)
    /\ Choose
    /\ UNCHANGED <<input, effects, phase, top_level_open, inserts, next,
                   output_ranges, code>>

\* Mutation: top_level_open is not moved.
SelectAnyRewrite ==
    /\ Selecting
    /\ ~InsertInRange(Current)
    /\ Current.end <= top_level_open
    /\ Current.start >= left
    /\ Choose
    /\ UNCHANGED <<input, effects, phase, top_level_open, inserts, next,
                   output_ranges, code>>

\* Mutation: a rewrite that ends where the next one begins is passed over.
SelectApart ==
    /\ Selecting
    /\ ~InsertInRange(Current)
    /\ Current.end <= top_level_open
    /\ Current.start >= left
    /\ IF Current.end < top_level_open \/ top_level = <<>>
       THEN Choose /\ top_level_open' = Current.start
       ELSE rest' = rest - 1 /\ UNCHANGED <<top_level, top_level_open>>
    /\ UNCHANGED <<input, effects, phase, inserts, next, output_ranges, code>>

SelectRewrite ==
    /\ Selecting
    /\ ~InsertInRange(Current)
    /\ Current.end <= top_level_open
    /\ Current.start >= left
    /\ Choose
    /\ top_level_open' = Current.start
    /\ UNCHANGED <<input, effects, phase, inserts, next, output_ranges, code>>

\* Nested in one that was chosen, or not within the range.
SelectSkip ==
    /\ Selecting
    /\ ~InsertInRange(Current)
    /\ Current.end > top_level_open \/ Current.start < left
    /\ rest' = rest - 1
    /\ UNCHANGED <<input, effects, phase, top_level, top_level_open, inserts,
                   next, output_ranges, code>>

\* At the end, or at an effect that ends in front of the range; then
\* is_sorted_descending.
Descending(s) == \A i \in 1 .. Len(s) - 1 : s[i].end >= s[i + 1].end

SelectDone ==
    /\ phase = "select"
    /\ rest > 0 => Current.end < left
    /\ phase' = IF Descending(top_level) THEN "filter" ELSE "error"
    /\ UNCHANGED <<input, effects, rest, top_level, top_level_open, inserts,
                   next, output_ranges, code>>

-----------------------------------------------------------------------------
(* inline_sorted_snippets_with_offset.                                     *)

\* Mutation: a repeated insertion is kept.
DropsNested(a, b, seen) ==
    /\ Start(a) <= Start(b) /\ a.end >= b.end
    /\ Start(b) # b.end \/ (Start(a) < Start(b) /\ a.end > b.end)

\* filter_out_nested drops b, behind a: nested in it, or an insertion at one of
\* its ends whose text was seen.
Drops(a, b, seen) ==
    /\ Start(a) <= Start(b) /\ a.end >= b.end
    /\ \/ Start(b) # b.end
       \/ Start(a) < Start(b) /\ a.end > b.end
       \/ b.text \in seen

\* One round of the outer loop of filter_out_nested.
FilterNested ==
    /\ phase = "filter"
    /\ next <= Len(top_level)
    /\ LET a == top_level[next]
           seen == inserts[a.end] \union {a.text}
       IN  /\ top_level' =
                Subsequence(top_level,
                    {k \in DOMAIN top_level :
                        k <= next \/ ~Drops(a, top_level[k], seen)})
           /\ inserts' = [inserts EXCEPT ![a.end] = seen]
    /\ next' = next + 1
    /\ UNCHANGED <<input, effects, phase, rest, top_level_open, output_ranges,
                   code>>

\* Mutation: the order of one end is left as it is.
KeepsOrder(e, f) == e.end > f.end

\* sort_range_start: among those of one end the later start first.
Later(e, f) == e.end > f.end \/ (e.end = f.end /\ Start(e) > Start(f))

Overlaps(s) == \E i \in 1 .. Len(s) - 1 : Start(s[i]) < s[i + 1].end

\* Mutation: the offset is not moved by the length of the snippets.
RangesUnshifted(s) ==
    LET n == Len(s)
        e == [k \in 1 .. n |-> s[n + 1 - k]]
        offset[k \in 1 .. n + 1] ==
            IF k = 1 THEN 0
            ELSE offset[k - 1] + Start(e[k - 1]) - e[k - 1].end
    IN  [k \in 1 .. n |-> [start |-> Start(e[k]) + offset[k],
                           end |-> Start(e[k]) + offset[k] + Len(e[k].text)]]

\* The output ranges: first edit first, each moved by what those before it grew.
OutputRanges(s) ==
    LET n == Len(s)
        e == [k \in 1 .. n |-> s[n + 1 - k]]
        offset[k \in 1 .. n + 1] ==
            IF k = 1 THEN 0
            ELSE offset[k - 1] + Len(e[k - 1].text) + Start(e[k - 1]) - e[k - 1].end
    IN  [k \in 1 .. n |-> [start |-> Start(e[k]) + offset[k],
                           end |-> Start(e[k]) + offset[k] + Len(e[k].text)]]

\* sort_range_start, has_overlapping_ranges and the output ranges, none of which
\* may begin in front of the file.
Arrange ==
    /\ phase = "filter"
    /\ next > Len(top_level)
    /\ \E p \in Orders(top_level) :
          /\ SortedBy(top_level, p, Later)
          /\ top_level' = [i \in DOMAIN top_level |-> top_level[p[i]]]
    /\ output_ranges' = IF Overlaps(top_level') THEN <<>> ELSE OutputRanges(top_level')
    /\ phase' = IF \/ Overlaps(top_level')
                   \/ \E k \in DOMAIN output_ranges' : output_ranges'[k].start < 0
                THEN "error" ELSE "write"
    /\ next' = 1
    /\ UNCHANGED <<input, effects, rest, top_level_open, inserts, code>>

\* replace_range of one edit.
Write ==
    /\ phase = "write"
    /\ next <= Len(top_level)
    /\ LET e == top_level[next]
           from == Start(e) - left
           to == e.end - left
       IN  IF from < 0 \/ to > Len(code)
           THEN phase' = "error" /\ UNCHANGED code
           ELSE /\ code' = SubSeq(code, 1, from) \o e.text
                           \o SubSeq(code, to + 1, Len(code))
                /\ UNCHANGED phase
    /\ next' = next + 1
    /\ UNCHANGED <<input, effects, rest, top_level, top_level_open, inserts,
                   output_ranges>>

Done ==
    /\ phase = "write"
    /\ next > Len(top_level)
    /\ phase' = "done"
    /\ UNCHANGED <<input, effects, rest, top_level, top_level_open, inserts, next,
                   output_ranges, code>>

Ended == phase \in {"done", "rejected", "error"}
Stay == Ended /\ UNCHANGED vars

Next ==
    \/ Sort \/ CheckNeighbours
    \/ SelectInsert \/ SelectRewrite \/ SelectSkip \/ SelectDone
    \/ FilterNested \/ Arrange \/ Write \/ Done \/ Stay

Spec == Init /\ [][Next]_vars

-----------------------------------------------------------------------------
TypeOK ==
    /\ input \in Seq(Effect)
    /\ effects \in Seq(Effect)
    /\ phase \in {"sort", "check", "select", "filter", "write", "done",
                  "rejected", "error"}
    /\ rest \in 0 .. Len(effects)
    /\ top_level \in Seq(Effect)
    /\ top_level_open \in left .. right
    /\ inserts \in [0 .. Len(source) -> SUBSET Seq(STRING)]
    /\ next \in Nat
    /\ output_ranges \in Seq([start: Nat, end: Nat])
    /\ code \in Seq(STRING)

\* Two ranges that are neither nested nor disjoint.
Cross(e, f) == e.start < f.start /\ f.start < e.end /\ e.end < f.end
Within(e, f) == f.start <= e.start /\ e.end <= f.end
InRange(e) == left <= e.start /\ e.end <= right
Laminar(s) == \A i, j \in DOMAIN s : ~Cross(s[i], s[j])

\* A rewrite fails with "effects have overlapping ranges" only when some of its
\* effects do cross: nested, touching and equal ranges always go through.
OnlyCrossingRejected == phase = "rejected" => ~Laminar(input)

\* inline_snippets.rs calls its own checks likely redundant, and they are: for
\* no list of effects, crossing ones included, is there an error after the
\* effects were accepted, and no edit lies outside of the text.
ChecksRedundant == phase # "error"

Selected == phase = "select" \/ (phase = "filter" /\ next = 1)

\* Of the effects that are selected no two rewrites overlap and none leaves the
\* range, also when the effects do cross: no edit changes what another wrote.
EditsDisjoint ==
    Selected => \A i, j \in DOMAIN top_level :
        LET e == top_level[i]
            f == top_level[j]
        IN  e.kind = "Rewrite" =>
                /\ InRange(e)
                /\ i < j /\ f.kind = "Rewrite" => f.end <= e.start

\* When the effects are nested or disjoint no rewrite is lost: each is selected,
\* or lies within one that is.
OutermostChosen ==
    phase = "filter" /\ next = 1 /\ Laminar(input) =>
        \A i \in DOMAIN effects :
            effects[i].kind = "Rewrite" /\ InRange(effects[i]) =>
                \E k \in DOMAIN top_level :
                    /\ top_level[k].kind = "Rewrite"
                    /\ Within(effects[i], top_level[k])

\* The ranges reported for the rewritten file are where the new text is.
RangesShowEdits ==
    phase = "done" =>
        /\ Len(output_ranges) = Len(top_level)
        /\ \A k \in DOMAIN output_ranges :
              SubSeq(code, output_ranges[k].start - left + 1,
                     output_ranges[k].end - left)
              = top_level[Len(top_level) + 1 - k].text

-----------------------------------------------------------------------------
(* What the result should be, from left to right.                          *)

RewriteIndices ==
    {i \in DOMAIN input : input[i].kind = "Rewrite" /\ InRange(input[i])}
InsertIndices ==
    {i \in DOMAIN input : input[i].kind = "Insert" /\ InRange(input[i])}

SameRange(e, f) == e.start = f.start /\ e.end = f.end

\* The outermost rewrites; of those of one range, the last that was made.
Outermost ==
    {i \in RewriteIndices : \A j \in RewriteIndices \ {i} :
        ~(/\ Within(input[i], input[j])
          /\ ~SameRange(input[i], input[j]) \/ j > i)}

\* compare, and for equal effects the one made first: inner nodes come first.
Before(i, j) ==
    \/ Less(input[i], input[j])
    \/ ~Less(input[j], input[i]) /\ i < j

\* The insertions that no rewrite swallows; of two with the same text one.
Inserted ==
    {i \in InsertIndices :
        /\ \A r \in Outermost :
              ~(input[r].start < input[i].end /\ input[i].end < input[r].end)
        /\ \A j \in InsertIndices :
              input[j].end = input[i].end /\ input[j].text = input[i].text
              => ~Before(i, j)}

\* The edits that are meant, and which of two comes first in the text: what is
\* inserted at a place is in front of the node that begins there.
Intended == Outermost \union Inserted
InFront(i, j) ==
    LET e == input[i]
        f == input[j]
    IN  \/ Start(e) < Start(f)
        \/ Start(e) = Start(f) /\ e.end < f.end
        \/ Start(e) = Start(f) /\ e.end = f.end /\ Before(i, j)
IntendedOrder ==
    CHOOSE order \in [1 .. Cardinality(Intended) -> Intended] :
        \A k, l \in DOMAIN order : k < l => InFront(order[k], order[l])

\* The source with these edits: behind[k] is what is behind the k-th of them.
Reference ==
    LET n == Cardinality(Intended)
        e == [k \in 1 .. n |-> input[IntendedOrder[k]]]
        EndOf(k) == IF k = 0 THEN left ELSE e[k].end
        behind[k \in 0 .. n] ==
            IF k = n THEN SubSeq(source, EndOf(n) + 1, right)
            ELSE SubSeq(source, EndOf(k) + 1, Start(e[k + 1]))
                 \o e[k + 1].text \o behind[k + 1]
    IN  behind[0]

\* An insertion at an end of a rewritten range whose text the rewrite itself, or an
\* insertion at its other end, has as well: filter_out_nested takes the one for the
\* other.
Twins ==
    \E r \in Outermost, i \in InsertIndices :
        /\ input[i].end \in {input[r].start, input[r].end}
        /\ \/ input[i].text = input[r].text
           \/ \E j \in InsertIndices :
                 /\ input[r].start # input[r].end
                 /\ {input[i].end, input[j].end} = {input[r].start, input[r].end}
                 /\ input[i].text = input[j].text

\* A rewrite of an empty range where another rewrite begins: to the selection the
\* two only touch, though the one is within the other, and both are made.
EmptyBeside ==
    \E r, s \in RewriteIndices :
        /\ r # s
        /\ input[r].start = input[r].end /\ input[r].end = input[s].start

\* The sort, the two filters and the writing backwards amount to the plain
\* reading of a rewrite: outer rewrites take precedence over inner ones, the
\* last of two for one range wins, and each insertion follows its range.
ResultAsIntended ==
    phase = "done" /\ Laminar(input) /\ ~Twins /\ ~EmptyBeside => code = Reference
=============================================================================

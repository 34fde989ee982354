------------------------------ MODULE CheckProof ------------------------------
(***************************************************************************)
(* Theorems about Check, for any files, texts and patterns, any number of  *)
(* checks and any edits: types, that the cache hides nothing, and that no  *)
(* fix undoes another.                                                     *)
(*                                                                         *)
(* What makes the cache harmless is a property of the keys in it           *)
(* (KeysTrue), wherever they are: in the file, in the snapshot or still on *)
(* their way.  A key is put for a result of the text that was hashed,      *)
(* which Ran ties to what the pattern finds in that text.                  *)
(***************************************************************************)
EXTENDS Check, SequenceProof, FiniteSetTheorems, TLAPS

Open == phase = "check"

\* A file that a pattern does not skip was found.
HasText ==
    Open => \A p \in Patterns, f \in Files :
                results[p][f] # "skipped" => found[f] \in Texts

\* A file is skipped for a reason.
SkippedKnown ==
    Open => \A p \in Patterns, f \in Files :
                results[p][f] = "skipped" =>
                    found[f] = Gone \/ <<found[f], p>> \in snapshot

\* What was executed on the text that was hashed gave what is in that text.
Ran ==
    Open => \A p \in Patterns, f \in Files :
                /\ results[p][f] \notin {"waiting", "skipped"}
                /\ <<p, f>> \notin stale
                /\ suite[p].limit = {}
                => results[p][f] = suite[p].finds[found[f]]

\* A pattern is done when all its files are.
DoneRan ==
    /\ Open => \A p \in collected, f \in Files : results[p][f] # "waiting"
    /\ phase \in {"idle", "find"} => collected = {}

\* A key says the truth about its text.
True(key) ==
    suite[key[2]].limit = {} /\ key \notin loose =>
        suite[key[2]].finds[key[1]] \in {"none", "move"}
KeysTrue == \A key \in stored \union snapshot \union puts : True(key)

\* Only a check that uses the cache has read it.
ReadToUse == phase # "idle" /\ flags.cache # "use" => snapshot = {}

IInv ==
    TypeOK /\ HasText /\ SkippedKnown /\ Ran /\ DoneRan /\ KeysTrue /\ ReadToUse

-----------------------------------------------------------------------------
\* No text is one of the words for what became of a file.
LEMMA TextsApart ==
    \A t \in Texts : t \notin {Gone, "none", "match", "move", "waiting", "skipped"}
  BY TextsAssumption

\* Executing a pattern gives one of the results there are, and leaves its limit
\* at most used up.
LEMMA OutcomeTyped ==
    ASSUME TypeOK, NEW p \in Patterns, NEW t \in Texts \union {Gone}
    PROVE  /\ Outcome(p, t) \in Finds
           /\ Outcome(p, t) # "none" => ~Refuses(p)
           /\ suite[p].limit = {} /\ t # Gone => Outcome(p, t) = suite[p].finds[t]
  <1>1. suite[p].finds \in [Texts -> Finds]
    BY SuitesAssumption DEF TypeOK
  <1> QED
    BY <1>1 DEF Outcome, Refuses, Finds

\* The initial states satisfy the invariant.
LEMMA InitInv == Init => IInv
  <1> SUFFICES ASSUME Init PROVE IInv
    OBVIOUS
  <1>1. TypeOK
    <2>1. \A p \in Patterns : suite[p].limit \subseteq Nat
      BY SuitesAssumption DEF Init
    <2> QED
      BY <2>1, BoundsAssumption DEF Init, TypeOK, NoFlags, Unfound, Nothing, Unspent
  <1> QED
    BY <1>1 DEF Init, IInv, HasText, SkippedKnown, Ran, DoneRan, KeysTrue, ReadToUse, Open

-----------------------------------------------------------------------------
(* One lemma for each action that touches what the invariant is about.     *)

LEMMA BeginInv == IInv /\ Begin => IInv'
  <1> SUFFICES ASSUME IInv, Begin PROVE IInv'
    OBVIOUS
  <1> USE DEF IInv
  <1>1. TypeOK'
    BY BoundsAssumption DEF TypeOK, Begin, Keys
  <1>2. KeysTrue'
    BY DEF KeysTrue, True, Begin
  <1>3. ReadToUse'
    BY DEF ReadToUse, Begin, TypeOK
  <1>4. (HasText /\ SkippedKnown /\ Ran /\ DoneRan)'
    BY DEF HasText, SkippedKnown, Ran, DoneRan, Open, Begin
  <1> QED
    BY <1>1, <1>2, <1>3, <1>4

LEMMA FindInv == ASSUME NEW f \in Files, IInv, Find(f) PROVE IInv'
  <1> USE DEF IInv
  <1>1. TypeOK'
    BY DEF TypeOK, Find, Keys
  <1>2. (KeysTrue /\ ReadToUse)'
    BY DEF KeysTrue, True, ReadToUse, Find
  <1>3. (HasText /\ SkippedKnown /\ Ran /\ DoneRan)'
    BY DEF HasText, SkippedKnown, Ran, DoneRan, Open, Find
  <1> QED
    BY <1>1, <1>2, <1>3

LEMMA EditInv == ASSUME NEW f \in Files, IInv, Edit(f) PROVE IInv'
  <1> USE DEF IInv
  <1>1. TypeOK'
    BY BoundsAssumption DEF TypeOK, Edit, Keys
  <1>2. (KeysTrue /\ ReadToUse)'
    BY DEF KeysTrue, True, ReadToUse, Edit
  <1>3. (HasText /\ SkippedKnown /\ Ran /\ DoneRan)'
    BY DEF HasText, SkippedKnown, Ran, DoneRan, Open, Edit
  <1> QED
    BY <1>1, <1>2, <1>3

LEMMA SelectInv == IInv /\ Select => IInv'
  <1> SUFFICES ASSUME IInv, Select PROVE IInv'
    OBVIOUS
  <1> USE DEF IInv
  <1>1. TypeOK'
    BY DEF TypeOK, Select, Keys
  <1>2. (KeysTrue /\ ReadToUse)'
    BY DEF KeysTrue, True, ReadToUse, Select
  <1>3. (HasText /\ SkippedKnown)'
    BY DEF HasText, SkippedKnown, Open, Select, TypeOK, Skips
  <1>4. (Ran /\ DoneRan)'
    BY DEF Ran, DoneRan, Open, Select
  <1> QED
    BY <1>1, <1>2, <1>3, <1>4

LEMMA ExecuteInv ==
    ASSUME NEW p \in Patterns, NEW f \in Files, IInv, Execute(p, f)
    PROVE  IInv'
  <1> USE DEF IInv
  <1> DEFINE out == Outcome(p, tree[f])
  <1>1. /\ out \in Finds
        /\ out # "none" => ~Refuses(p)
        /\ suite[p].limit = {} /\ tree[f] # Gone => out = suite[p].finds[tree[f]]
    BY OutcomeTyped DEF TypeOK
  <1>2. out \notin {"waiting", "skipped"}
    BY <1>1, TextsApart DEF Finds
  <1>3. /\ results' = [results EXCEPT ![p][f] = out]
        /\ spent' = [spent EXCEPT ![p] = IF out = "none" THEN @ ELSE @ + 1]
        /\ results[p][f] = "waiting"
        /\ Open
        /\ stale' = IF tree[f] = found[f] THEN stale ELSE stale \union {<<p, f>>}
        /\ UNCHANGED <<suite, tree, stored, phase, flags, snapshot, found, collected,
                       puts, unfixed, again, edited, loose, runs, edits>>
    BY DEF Execute, Counts, Open
  <1>4. \A q \in Patterns, g \in Files :
            results'[q][g] = IF q = p /\ g = f THEN out ELSE results[q][g]
    BY <1>3 DEF TypeOK
  <1>5. found[f] \in Texts
    BY <1>3 DEF HasText
  <1> HIDE DEF out
  <1>6. TypeOK'
    <2>1. results' \in [Patterns -> [Files -> Finds \union {"waiting", "skipped"}]]
      BY <1>1, <1>3 DEF TypeOK
    <2>2. spent' \in [Patterns -> Nat]
      BY <1>3 DEF TypeOK
    <2>3. ASSUME NEW q \in Patterns, NEW n \in suite'[q].limit PROVE spent'[q] <= n
      <3>1. n \in Nat /\ n \in suite[q].limit /\ spent[q] \in Nat /\ spent[q] <= n
        BY <1>3, SuitesAssumption DEF TypeOK
      <3>2. CASE q = p /\ out # "none"
        BY <1>1, <1>3, <3>1, <3>2 DEF TypeOK, Refuses
      <3>3. CASE ~(q = p /\ out # "none")
        BY <1>3, <3>1, <3>3 DEF TypeOK
      <3> QED
        BY <3>2, <3>3
    <2>4. stale' \subseteq Patterns \X Files
      BY <1>3 DEF TypeOK
    <2> QED
      BY <1>3, <2>1, <2>2, <2>3, <2>4 DEF TypeOK, Keys
  <1>7. (KeysTrue /\ ReadToUse)'
    BY <1>3 DEF KeysTrue, True, ReadToUse
  <1>8. (HasText /\ SkippedKnown /\ DoneRan)'
    BY <1>2, <1>3, <1>4, <1>5 DEF HasText, SkippedKnown, DoneRan, Open
  <1>9. Ran'
    <2> SUFFICES ASSUME NEW q \in Patterns, NEW g \in Files,
                        results'[q][g] \notin {"waiting", "skipped"},
                        <<q, g>> \notin stale',
                        suite[q].limit = {}
                 PROVE  results'[q][g] = suite[q].finds[found[g]]
      BY <1>3 DEF Ran, Open
    <2>1. CASE q = p /\ g = f
      <3>1. tree[f] = found[f]
        BY <1>3, <2>1
      <3> QED
        BY <1>1, <1>4, <1>5, <2>1, <3>1, TextsApart
    <2>2. CASE ~(q = p /\ g = f)
      BY <1>3, <1>4, <2>2 DEF Ran, Open
    <2> QED
      BY <2>1, <2>2
  <1> QED
    BY <1>6, <1>7, <1>8, <1>9

\* A key that is put is true, unless its limit or an edit excuses it.
LEMMA CollectInv == ASSUME NEW p \in Patterns, IInv, Collect(p) PROVE IInv'
  <1> USE DEF IInv
  <1> DEFINE keys(fs) == {<<found[f], p>> : f \in fs}
             off == {f \in ToCache(p) : <<p, f>> \in stale}
  <1>1. /\ Open
        /\ collected' = collected \union {p}
        /\ \A f \in Files : results[p][f] # "waiting"
        /\ UNCHANGED <<suite, tree, stored, phase, flags, snapshot, found, results, spent,
                       unfixed, again, edited, stale, runs, edits>>
    BY DEF Collect, Open
  <1>2. \/ UNCHANGED <<puts, loose>>
        \/ puts' = puts \union keys(ToCache(p)) /\ loose' = loose \union keys(off)
    BY DEF Collect
  <1>3. \A f \in ToCache(p) : f \in Files /\ found[f] \in Texts
                              /\ results[p][f] \in {"none", "move"}
    BY <1>1 DEF HasText, ToCache
  <1>4. keys(ToCache(p)) \subseteq Keys /\ keys(off) \subseteq Keys
    <2>1. \A f \in ToCache(p) : <<found[f], p>> \in Keys
      BY <1>3 DEF Keys
    <2>2. off \subseteq ToCache(p)
      OBVIOUS
    <2> HIDE DEF off
    <2> QED
      BY <2>1, <2>2
  <1>5. TypeOK'
    <2>1. puts' \subseteq Keys /\ loose' \subseteq Keys
      BY <1>2, <1>4 DEF TypeOK
    <2> QED
      BY <1>1, <2>1 DEF TypeOK
  <1>6. ASSUME NEW key \in puts' \ puts PROVE True(key)'
    <2>1. PICK f \in ToCache(p) : key = <<found[f], p>>
      BY <1>2, <1>6
    <2>2. CASE <<p, f>> \in stale
      <3>1. key \in loose'
        BY <1>2, <1>6, <2>1, <2>2
      <3> QED
        BY <3>1 DEF True
    <2>3. CASE <<p, f>> \notin stale
      BY <1>1, <1>3, <2>1, <2>3 DEF Ran, True
    <2> QED
      BY <2>2, <2>3
  <1>7. KeysTrue'
    <2>1. loose \subseteq loose'
      BY <1>2
    <2>2. \A key : True(key) => True(key)'
      BY <1>1, <2>1 DEF True
    <2> QED
      BY <1>1, <1>6, <2>2 DEF KeysTrue
  <1>8. (HasText /\ SkippedKnown /\ Ran /\ ReadToUse)'
    BY <1>1 DEF HasText, SkippedKnown, Ran, ReadToUse, Open
  <1>9. DoneRan'
    BY <1>1 DEF DoneRan, Open
  <1> QED
    BY <1>5, <1>7, <1>8, <1>9

LEMMA ReportInv == IInv /\ Report => IInv'
  <1> SUFFICES ASSUME IInv, Report PROVE IInv'
    OBVIOUS
  <1> USE DEF IInv
  <1>1. TypeOK'
    BY DEF TypeOK, Report, Keys
  <1>2. (KeysTrue /\ ReadToUse)'
    BY DEF KeysTrue, True, ReadToUse, Report, Checked
  <1>3. (HasText /\ SkippedKnown /\ Ran /\ DoneRan)'
    BY DEF HasText, SkippedKnown, Ran, DoneRan, Open, Report
  <1> QED
    BY <1>1, <1>2, <1>3

\* The keys were true when they were put, and so is any part of them.
LEMMA EndsInv == ASSUME NEW written \in SUBSET puts, IInv, Ends(written) PROVE IInv'
  <1> USE DEF IInv
  <1>1. TypeOK'
    <2>1. \A p \in Patterns : suite[p].limit \subseteq Nat
      BY SuitesAssumption DEF TypeOK
    <2> QED
      BY <2>1 DEF TypeOK, Ends, Keys, NoFlags, Unfound, Nothing, Unspent
  <1>2. (KeysTrue /\ ReadToUse)'
    BY DEF KeysTrue, True, ReadToUse, Ends
  <1>3. (HasText /\ SkippedKnown /\ Ran /\ DoneRan)'
    BY DEF HasText, SkippedKnown, Ran, DoneRan, Open, Ends
  <1> QED
    BY <1>1, <1>2, <1>3

\* Fixing writes to the tree and spends limits, nothing else.
LEMMA WrittenTyped ==
    ASSUME TypeOK, NEW f, NEW result, Written(f, result)
    PROVE  tree' \in [Files -> Texts \union {Gone}]
  BY DEF Written, TypeOK

LEMMA FixInv ==
    ASSUME IInv, FixStored \/ \E p \in Patterns : FixAgain(p)
    PROVE  IInv'
  <1> USE DEF IInv
  <1>1. CASE FixStored
    <2>1. tree' \in [Files -> Texts \union {Gone}]
      BY <1>1, WrittenTyped DEF FixStored
    <2>2. TypeOK'
      BY <1>1, <2>1 DEF TypeOK, FixStored
    <2>3. (KeysTrue /\ ReadToUse)'
      BY <1>1 DEF KeysTrue, True, ReadToUse, FixStored
    <2>4. (HasText /\ SkippedKnown /\ Ran /\ DoneRan)'
      BY <1>1 DEF HasText, SkippedKnown, Ran, DoneRan, Open, FixStored
    <2> QED
      BY <2>2, <2>3, <2>4
  <1>2. ASSUME NEW p \in Patterns, FixAgain(p) PROVE IInv'
    <2>1. tree' \in [Files -> Texts \union {Gone}]
      BY <1>2, WrittenTyped DEF FixAgain
    <2>2. again' \subseteq Patterns /\ unfixed' \subseteq Files
      BY <1>2 DEF FixAgain, Turn, TypeOK
    <2> DEFINE out == Outcome(p, tree[Current])
    <2>3. spent' = [spent EXCEPT ![p] = IF out = "none" THEN @ ELSE @ + 1]
      BY <1>2 DEF FixAgain, Counts
    <2>4. out # "none" => ~Refuses(p)
      BY DEF Outcome
    <2>5. UNCHANGED <<suite, stored, phase, flags, snapshot, found, results, collected,
                      puts, edited, stale, loose, runs, edits>> /\ phase = "fix"
      BY <1>2 DEF FixAgain, Turn
    <2> HIDE DEF out
    <2>6. ASSUME NEW q \in Patterns, NEW n \in suite'[q].limit PROVE spent'[q] <= n
      <3>1. n \in Nat /\ n \in suite[q].limit /\ spent[q] \in Nat /\ spent[q] <= n
        BY <2>5, SuitesAssumption DEF TypeOK
      <3>2. CASE q = p /\ out # "none"
        BY <2>3, <2>4, <3>1, <3>2 DEF TypeOK, Refuses
      <3>3. CASE ~(q = p /\ out # "none")
        BY <2>3, <3>1, <3>3 DEF TypeOK
      <3> QED
        BY <3>2, <3>3
    <2>7. spent' \in [Patterns -> Nat]
      BY <2>3 DEF TypeOK
    <2>8. TypeOK'
      BY <2>1, <2>2, <2>5, <2>6, <2>7 DEF TypeOK
    <2>9. (KeysTrue /\ ReadToUse)'
      BY <2>5 DEF KeysTrue, True, ReadToUse
    <2>10. (HasText /\ SkippedKnown /\ Ran /\ DoneRan)'
      BY <2>5 DEF HasText, SkippedKnown, Ran, DoneRan, Open
    <2> QED
      BY <2>8, <2>9, <2>10
  <1> QED
    BY <1>1, <1>2

-----------------------------------------------------------------------------
\* Each step of a check, and of whoever edits the files, keeps the invariant.
LEMMA NextInv == IInv /\ [Next]_vars => IInv'
  <1> SUFFICES ASSUME IInv, [Next]_vars PROVE IInv'
    OBVIOUS
  <1>1. CASE \E f \in Files : Find(f) \/ Edit(f)
    BY <1>1, FindInv, EditInv
  <1>2. CASE \E p \in Patterns, f \in Files : Execute(p, f)
    BY <1>2, ExecuteInv
  <1>3. CASE \E p \in Patterns : Collect(p) \/ FixAgain(p)
    BY <1>3, CollectInv, FixInv
  <1>4. CASE ReportOther \/ ReportNothing \/ Stops \/ Close
    <2>1. \E written \in SUBSET puts : Ends(written)
      BY <1>4 DEF ReportOther, ReportNothing, Stops, Close, EndsEarly
    <2> QED
      BY <2>1, EndsInv
  <1>5. CASE Begin \/ Select \/ Report \/ FixStored
    BY <1>5, BeginInv, SelectInv, ReportInv, FixInv
  <1>6. CASE Stay \/ UNCHANGED vars
    BY <1>6 DEF Stay, vars, IInv, TypeOK, HasText, SkippedKnown, Ran, DoneRan,
                KeysTrue, True, ReadToUse, Open
  <1> QED
    BY <1>1, <1>2, <1>3, <1>4, <1>5, <1>6 DEF Next

LEMMA Invariance == Spec => []IInv
  BY InitInv, NextInv, PTL DEF Spec

\* Types: in particular no limit is exceeded by a check and its fixes together.
THEOREM CheckTyped == Spec => []TypeOK
  <1>1. IInv => TypeOK
    BY DEF IInv
  <1> QED
    BY <1>1, Invariance, PTL

\* The cache hides nothing (run_check, check.rs): a match in the text that was
\* found is reported, whatever earlier checks have put, unless a limit, a move or
\* an edit between hashing and executing is the reason.
THEOREM NothingHiddenAlways == Spec => []NothingHidden
  <1>1. IInv => NothingHidden
    <2> SUFFICES ASSUME IInv, Checked, NEW p \in Patterns, NEW f \in Files,
                        suite[p].limit = {},
                        found[f] # Gone,
                        <<p, f>> \notin stale,
                        flags.cache = "use" => <<found[f], p>> \notin loose
                 PROVE  \/ suite[p].finds[found[f]] \in {"none", "move"}
                        \/ results[p][f] = suite[p].finds[found[f]]
      BY DEF NothingHidden
    <2>1. Open /\ results[p][f] # "waiting"
      BY DEF IInv, DoneRan, Checked, Open
    <2>2. CASE results[p][f] = "skipped"
      <3>1. <<found[f], p>> \in snapshot
        BY <2>1, <2>2 DEF IInv, SkippedKnown
      <3>2. flags.cache = "use"
        BY <2>1, <3>1 DEF IInv, ReadToUse, Open
      <3>3. True(<<found[f], p>>)
        BY <3>1 DEF IInv, KeysTrue
      <3> QED
        BY <3>2, <3>3 DEF True
    <2>3. CASE results[p][f] # "skipped"
      BY <2>1, <2>3 DEF IInv, Ran
    <2> QED
      BY <2>2, <2>3
  <1> QED
    BY <1>1, Invariance, PTL

-----------------------------------------------------------------------------
(* FixedInTurn: what is known of a file before, while and after it is fixed. *)

\* Every file is found before any is executed.
AllFound == phase \in {"check", "fix"} => \A f \in Files : found[f] # "unfound"

\* Nobody but the fix and an edit writes to a file.
AsFound ==
    phase # "fix" =>
        \A f \in Files \ edited : found[f] # "unfound" => tree[f] = found[f]

\* What executed on another text than was hashed did so for an edit.
StaleEdited == \A p \in Patterns, f \in Files : <<p, f>> \in stale => f \in edited

\* Without a limit, the rewrites to make are those of the text that was found.
RanRight ==
    phase = "fix" =>
        \A p \in Patterns, f \in Files \ edited :
            p \in Rewriters(f) /\ suite[p].limit = {} =>
                found[f] \in Texts /\ results[p][f] = suite[p].finds[found[f]]

\* Only the current file is half way, and only if it has several rewrites.
TurnTaken ==
    again # {} =>
        /\ phase = "fix" /\ unfixed # {}
        /\ Cardinality(Rewriters(Current)) > 1
        /\ again \subseteq Rewriters(Current)

\* A file is as it was found, or as the patterns that had their turn make it.
NoLimit(f) == \A p \in Rewriters(f) : suite[p].limit = {}
Fixed ==
    phase = "fix" /\ flags.fix =>
        \A f \in Files \ edited :
            /\ f \in unfixed /\ (f # Current \/ again = {}) => tree[f] = found[f]
            /\ f \in unfixed /\ f = Current /\ NoLimit(f) =>
                    tree[f] \in InTurn(found[f], again)
            /\ f \notin unfixed /\ NoLimit(f) =>
                    tree[f] \in InTurn(found[f], Rewriters(f))

InTurnInv == AllFound /\ AsFound /\ StaleEdited /\ RanRight /\ TurnTaken /\ Fixed

-----------------------------------------------------------------------------
(* Going on in turn.                                                       *)

\* There is a first one of the files to fix.
LEMMA CurrentIsUnfixed ==
    ASSUME TypeOK, unfixed # {}
    PROVE  Current \in unfixed
  <1>1. unfixed \subseteq Nat
    BY FilesAssumption DEF TypeOK
  <1>2. \E x \in unfixed : \A y \in unfixed : x <= y
    BY <1>1, LeastElement
  <1> QED
    BY <1>2 DEF Current, Min

\* What a pattern makes of a text is a text, or the file is gone.
LEMMA AfterTyped ==
    ASSUME TypeOK, NEW p \in Patterns, NEW t \in Texts \union {Gone}
    PROVE  After(t, p) \in Texts \union {Gone}
  BY DEF After

\* Before the first turn the text is as it is.
LEMMA InTurnNone ==
    ASSUME NEW t \in Texts \union {Gone}
    PROVE  t \in InTurn(t, {})
  <1> DEFINE texts == [i \in 0 .. 0 |-> t]
             none == [i \in 1 .. 0 |-> 0]
  <1>1. none \in SetToSeqs({}) /\ Len(none) = 0
    <2>1. Cardinality({}) = 0
      BY FS_EmptySet
    <2>2. none \in [1 .. 0 -> {}]
      OBVIOUS
    <2>3. Len(none) = 0
      BY <2>2
    <2> QED
      BY <2>1, <2>2, <2>3 DEF SetToSeqs
  <1>2. texts \in [0 .. 0 -> Texts \union {Gone}] /\ texts[0] = t
    OBVIOUS
  <1> HIDE DEF none, texts
  <1> QED
    BY <1>1, <1>2 DEF InTurn

\* A pattern that has not had its turn may go next.
LEMMA InTurnNext ==
    ASSUME NEW ps, IsFiniteSet(ps), NEW p, p \notin ps,
           NEW t, NEW x \in InTurn(t, ps), After(x, p) \in Texts \union {Gone}
    PROVE  After(x, p) \in InTurn(t, ps \union {p})
  <1> DEFINE n == Cardinality(ps)
  <1>1. /\ n \in Nat /\ Cardinality(ps \union {p}) = n + 1
    BY FS_CardinalityType, FS_AddElement
  <1>0. PICK order \in SetToSeqs(ps) :
            \E texts \in [0 .. Len(order) -> Texts \union {Gone}] :
                /\ texts[0] = t
                /\ \A i \in 1 .. Len(order) : texts[i] = After(texts[i - 1], order[i])
                /\ texts[Len(order)] = x
    BY DEF InTurn
  <1>2. PICK texts \in [0 .. Len(order) -> Texts \union {Gone}] :
            /\ texts[0] = t
            /\ \A i \in 1 .. Len(order) : texts[i] = After(texts[i - 1], order[i])
            /\ texts[Len(order)] = x
    BY <1>0
  <1>3. order \in [1 .. n -> ps] /\ \A i, j \in 1 .. n : i # j => order[i] # order[j]
    BY <1>0 DEF SetToSeqs
  <1> HIDE DEF n
  <1>4. Len(order) = n
    BY <1>1, <1>3
  <1> DEFINE order2 == [i \in 1 .. n + 1 |-> IF i = n + 1 THEN p ELSE order[i]]
             texts2 == [i \in 0 .. n + 1 |-> IF i = n + 1 THEN After(x, p) ELSE texts[i]]
  <1>5. order2 \in SetToSeqs(ps \union {p}) /\ Len(order2) = n + 1
    <2>1. \A i \in 1 .. n + 1 : i = n + 1 \/ i \in 1 .. n
      BY <1>1
    <2>2. order2 \in [1 .. n + 1 -> ps \union {p}]
      BY <1>3, <2>1
    <2>3. \A i, j \in 1 .. n + 1 : i # j => order2[i] # order2[j]
      BY <1>3, <2>1
    <2>4. Len(order2) = n + 1
      BY <1>1, <2>2
    <2> HIDE DEF order2
    <2> QED
      BY <1>1, <2>2, <2>3, <2>4 DEF SetToSeqs
  <1>6. texts2 \in [0 .. n + 1 -> Texts \union {Gone}]
    <2>1. \A i \in 0 .. n + 1 : i = n + 1 \/ i \in 0 .. n
      BY <1>1
    <2> QED
      BY <1>2, <1>4, <2>1
  <1>7. texts2[0] = t /\ texts2[n + 1] = After(x, p)
    BY <1>1, <1>2, <1>4
  <1>8. ASSUME NEW i \in 1 .. n + 1 PROVE texts2[i] = After(texts2[i - 1], order2[i])
    <2>1. CASE i = n + 1
      <3>1. texts2[n] = x /\ order2[n + 1] = p /\ n = (n + 1) - 1
        BY <1>1, <1>2, <1>4
      <3> HIDE DEF texts2, order2
      <3> QED
        BY <1>7, <2>1, <3>1
    <2>2. CASE i \in 1 .. n
      <3>1. texts2[i] = texts[i] /\ texts2[i - 1] = texts[i - 1] /\ order2[i] = order[i]
        BY <1>1, <2>2
      <3> HIDE DEF texts2, order2
      <3> QED
        BY <1>2, <1>4, <2>2, <3>1
    <2> QED
      BY <1>1, <2>1, <2>2
  <1> HIDE DEF order2, texts2
  <1> QED
    BY <1>5, <1>6, <1>7, <1>8 DEF InTurn

\* It depends on nothing but what the patterns are.
LEMMA InTurnSame ==
    ASSUME suite' = suite, NEW t, NEW ps
    PROVE  InTurn(t, ps)' = InTurn(t, ps)
  BY DEF InTurn, After

-----------------------------------------------------------------------------
(* The steps.                                                              *)

\* The initial states.
LEMMA InitFix == Init => InTurnInv
  BY DEF Init, InTurnInv, AllFound, AsFound, StaleEdited, RanRight, TurnTaken, Fixed, Unfound

\* Before and after fixing.
LEMMA BeginFix == InTurnInv /\ (Begin \/ Select) => InTurnInv'
  <1> SUFFICES ASSUME InTurnInv, Begin \/ Select PROVE InTurnInv'
    OBVIOUS
  <1>1. /\ phase \in {"idle", "find"} /\ phase' \in {"find", "check"}
        /\ phase' = "check" => \A f \in Files : found[f] # "unfound"
        /\ UNCHANGED <<suite, tree, found, unfixed, again, edited, stale>>
    BY DEF Begin, Select
  <1>2. (AllFound /\ AsFound)'
    BY <1>1 DEF InTurnInv, AllFound, AsFound
  <1>3. again = {}
    BY <1>1 DEF InTurnInv, TurnTaken
  <1> QED
    BY <1>1, <1>2, <1>3 DEF InTurnInv, StaleEdited, RanRight, TurnTaken, Fixed

LEMMA FindFix == ASSUME NEW f \in Files, TypeOK, InTurnInv, Find(f) PROVE InTurnInv'
  <1>1. /\ phase = "find" /\ phase' = "find" /\ found' = [found EXCEPT ![f] = tree[f]]
        /\ UNCHANGED <<suite, tree, unfixed, again, edited, stale>>
    BY DEF Find
  <1>2. AsFound'
    BY <1>1 DEF InTurnInv, AsFound, TypeOK
  <1>3. again = {}
    BY <1>1 DEF InTurnInv, TurnTaken
  <1> QED
    BY <1>1, <1>2, <1>3 DEF InTurnInv, AllFound, StaleEdited, RanRight, TurnTaken, Fixed

LEMMA ExecuteFix ==
    ASSUME NEW p \in Patterns, NEW f \in Files, InTurnInv, Execute(p, f)
    PROVE  InTurnInv'
  <1>1. /\ phase = "check" /\ phase' = "check"
        /\ stale' = IF tree[f] = found[f] THEN stale ELSE stale \union {<<p, f>>}
        /\ UNCHANGED <<suite, tree, found, unfixed, again, edited>>
    BY DEF Execute
  <1>2. f \notin edited => tree[f] = found[f]
    BY <1>1 DEF InTurnInv, AllFound, AsFound
  <1>3. StaleEdited'
    BY <1>1, <1>2 DEF InTurnInv, StaleEdited
  <1>4. again = {}
    BY <1>1 DEF InTurnInv, TurnTaken
  <1> QED
    BY <1>1, <1>3, <1>4 DEF InTurnInv, AllFound, AsFound, RanRight, TurnTaken, Fixed

LEMMA CollectFix == ASSUME NEW p \in Patterns, InTurnInv, Collect(p) PROVE InTurnInv'
  <1>1. /\ phase = "check" /\ phase' = "check"
        /\ UNCHANGED <<suite, tree, found, unfixed, again, edited, stale>>
    BY DEF Collect
  <1>2. again = {}
    BY <1>1 DEF InTurnInv, TurnTaken
  <1> QED
    BY <1>1, <1>2 DEF InTurnInv, AllFound, AsFound, StaleEdited, RanRight, TurnTaken, Fixed

LEMMA EndsFix == ASSUME NEW written, Ends(written) PROVE InTurnInv'
  BY DEF Ends, InTurnInv, AllFound, AsFound, StaleEdited, RanRight, TurnTaken, Fixed, Unfound

\* Nothing is fixed yet.
LEMMA ReportFix == IInv /\ InTurnInv /\ Report => InTurnInv'
  <1> SUFFICES ASSUME IInv, InTurnInv, Report PROVE InTurnInv'
    OBVIOUS
  <1>1. /\ phase = "check" /\ phase' = "fix"
        /\ unfixed' = IF flags.fix THEN {f \in Files : Rewriters(f) # {}} ELSE {}
        /\ UNCHANGED <<suite, tree, flags, found, results, again, edited, stale>>
    BY DEF Report, Checked
  <1>2. again = {}
    BY <1>1 DEF InTurnInv, TurnTaken
  <1>3. \A f \in Files : Rewriters(f)' = Rewriters(f)
    BY <1>1 DEF Rewriters
  <1>4. RanRight'
    <2> SUFFICES ASSUME NEW p \in Patterns, NEW f \in Files \ edited,
                        p \in Rewriters(f), suite[p].limit = {}
                 PROVE  found[f] \in Texts /\ results[p][f] = suite[p].finds[found[f]]
      BY <1>1, <1>3 DEF RanRight
    <2>1. results[p][f] \notin {"waiting", "skipped"}
      BY TextsApart DEF Rewriters
    <2>2. <<p, f>> \notin stale
      BY DEF InTurnInv, StaleEdited
    <2> QED
      BY <1>1, <2>1, <2>2 DEF IInv, Ran, HasText, Open
  <1>5. Fixed'
    <2> SUFFICES ASSUME flags.fix, NEW f \in Files \ edited
                 PROVE  /\ tree[f] = found[f]
                        /\ tree[f] \in InTurn(found[f], {})'
                        /\ f \notin unfixed' => Rewriters(f)' = {}
      BY <1>1, <1>2, <1>3 DEF Fixed
    <2>1. tree[f] = found[f]
      BY <1>1 DEF InTurnInv, AllFound, AsFound
    <2>2. tree[f] \in Texts \union {Gone}
      BY DEF IInv, TypeOK
    <2>3. tree[f] \in InTurn(tree[f], {})
      BY <2>2, InTurnNone
    <2>4. InTurn(found[f], {})' = InTurn(found[f], {})
      BY <1>1 DEF InTurn, After
    <2> QED
      BY <1>1, <1>3, <2>1, <2>3, <2>4
  <1> QED
    BY <1>1, <1>2, <1>4, <1>5 DEF InTurnInv, AllFound, AsFound, StaleEdited, TurnTaken

\* What an edit changes is in edited.
LEMMA EditFix == ASSUME NEW f \in Files, TypeOK, InTurnInv, Edit(f) PROVE InTurnInv'
  <1>1. /\ \A g \in Files : g # f => tree'[g] = tree[g]
        /\ edited' = IF found[f] = "unfound" THEN edited ELSE edited \union {f}
        /\ UNCHANGED <<suite, phase, flags, found, results, unfixed, again, stale>>
    BY DEF Edit, TypeOK
  <1>2. phase = "fix" => f \in edited'
    BY <1>1 DEF InTurnInv, AllFound
  <1>3. \A g \in Files : Rewriters(g)' = Rewriters(g)
    BY <1>1 DEF Rewriters
  <1>4. Current' = Current
    BY <1>1 DEF Current
  <1>5. \A g \in Files : NoLimit(g)' = NoLimit(g)
    BY <1>1, <1>3 DEF NoLimit
  <1>6. (AllFound /\ StaleEdited)'
    BY <1>1 DEF InTurnInv, AllFound, StaleEdited
  <1>7. AsFound'
    BY <1>1 DEF InTurnInv, AsFound
  <1>8. RanRight'
    BY <1>1, <1>3 DEF InTurnInv, RanRight
  <1>9. TurnTaken'
    <2> SUFFICES ASSUME again # {} PROVE TurnTaken'
      BY <1>1 DEF TurnTaken
    <2>1. Current \in unfixed /\ unfixed \subseteq Files
      BY CurrentIsUnfixed DEF InTurnInv, TurnTaken, TypeOK
    <2> QED
      BY <1>1, <1>3, <1>4, <2>1 DEF InTurnInv, TurnTaken
  <1>10. Fixed'
    <2> SUFFICES ASSUME phase = "fix", flags.fix, NEW g \in Files \ edited'
                 PROVE  /\ g \in unfixed /\ (g # Current \/ again = {}) => tree'[g] = found[g]
                        /\ g \in unfixed /\ g = Current /\ NoLimit(g) =>
                              tree'[g] \in InTurn(found[g], again)
                        /\ g \notin unfixed /\ NoLimit(g) =>
                              tree'[g] \in InTurn(found[g], Rewriters(g))
      <3>1. \A g \in Files : /\ InTurn(found[g], again)' = InTurn(found[g], again)
                             /\ InTurn(found[g], Rewriters(g))' = InTurn(found[g], Rewriters(g))
        BY <1>1, <1>3 DEF InTurn, After
      <3> QED
        BY <1>1, <1>3, <1>4, <1>5, <3>1 DEF Fixed
    <2>1. g # f /\ g \notin edited
      BY <1>1, <1>2
    <2> QED
      BY <1>1, <2>1 DEF InTurnInv, Fixed
  <1> QED
    BY <1>6, <1>7, <1>8, <1>9, <1>10 DEF InTurnInv

\* Writing what a pattern finds in a text is writing the text after it, to that file.
LEMMA WrittenAfter ==
    ASSUME TypeOK, NEW f \in Files, NEW p \in Patterns,
           NEW result, Written(f, result)
    PROVE  /\ \A g \in Files : g # f => tree'[g] = tree[g]
           /\ tree[f] # Gone /\ result = suite[p].finds[tree[f]] =>
                 tree'[f] = After(tree[f], p)
  BY DEF Written, TypeOK, After

\* A fix of the current file: the others stay, and it goes on to the next file or
\* leaves some pattern its turn.
LEMMA FixFix ==
    ASSUME TypeOK, InTurnInv, phase = "fix", unfixed # {},
           UNCHANGED <<suite, phase, flags, found, results, edited, stale>>,
           \A g \in Files : g # Current => tree'[g] = tree[g],
           NEW ps, ps \subseteq Rewriters(Current),
           flags.fix /\ Current \notin edited /\ NoLimit(Current) =>
               tree'[Current] \in InTurn(found[Current], ps),
           \/ /\ ps = Rewriters(Current)
              /\ again' = {} /\ unfixed' = unfixed \ {Current}
           \/ /\ Cardinality(Rewriters(Current)) > 1 /\ ps # {}
              /\ again' = ps /\ unfixed' = unfixed
    PROVE  InTurnInv'
  <1>1. Current \in unfixed /\ Current \in Files
    BY CurrentIsUnfixed DEF TypeOK
  <1>2. \A g \in Files : Rewriters(g)' = Rewriters(g)
    BY DEF Rewriters
  <1>3. \A g \in Files : NoLimit(g)' = NoLimit(g)
    BY <1>2 DEF NoLimit
  <1>4. suite' = suite /\ found' = found
    OBVIOUS
  <1>5. \A g \in Files : InTurn(found[g], Rewriters(g))' = InTurn(found[g], Rewriters(g))
    BY <1>2 DEF InTurn, After
  <1>6. (AllFound /\ AsFound /\ StaleEdited)'
    BY DEF InTurnInv, AllFound, AsFound, StaleEdited
  <1>7. RanRight'
    BY <1>2 DEF InTurnInv, RanRight
  <1>8. unfixed' = unfixed => Current' = Current
    BY DEF Current
  <1>9. TurnTaken'
    BY <1>1, <1>2, <1>8 DEF InTurnInv, TurnTaken
  <1>10. ASSUME flags.fix, NEW g \in Files \ edited
         PROVE  /\ g \in unfixed' /\ (g # Current' \/ again' = {}) => tree'[g] = found[g]
                /\ g \in unfixed' /\ g = Current' /\ NoLimit(g) =>
                      tree'[g] \in InTurn(found[g], again')
                /\ g \notin unfixed' /\ NoLimit(g) =>
                      tree'[g] \in InTurn(found[g], Rewriters(g))
    <2>1. CASE g = Current
      BY <1>1, <1>8, <1>10, <2>1
    <2>2. CASE g # Current
      <3>1. tree'[g] = tree[g] /\ (g \in unfixed' <=> g \in unfixed)
        BY <2>2
      <3>2. g \in unfixed => tree[g] = found[g]
        BY <1>10, <2>2 DEF InTurnInv, Fixed
      <3>3. g \notin unfixed /\ NoLimit(g) => tree[g] \in InTurn(found[g], Rewriters(g))
        BY <1>10 DEF InTurnInv, Fixed
      <3>4. g \in unfixed' /\ g = Current' => again' = {}
        BY <1>8, <2>2
      <3>5. g \in unfixed' => tree'[g] \in InTurn(found[g], {})
        <4>1. tree[g] \in Texts \union {Gone}
          BY DEF TypeOK
        <4> QED
          BY <3>1, <3>2, <4>1, InTurnNone
      <3> QED
        BY <3>1, <3>2, <3>3, <3>4, <3>5
    <2> QED
      BY <2>1, <2>2
  <1>11. Fixed'
    <2> SUFFICES ASSUME flags.fix, NEW g \in Files \ edited
                 PROVE  /\ g \in unfixed' /\ (g # Current' \/ again' = {}) => tree'[g] = found[g]
                        /\ g \in unfixed' /\ g = Current' /\ NoLimit(g)' =>
                              tree'[g] \in InTurn(found[g], again)'
                        /\ g \notin unfixed' /\ NoLimit(g)' =>
                              tree'[g] \in InTurn(found[g], Rewriters(g))'
      BY DEF Fixed
    <2>1. InTurn(found[g], again)' = InTurn(found[g], again')
      BY <1>4 DEF InTurn, After
    <2> QED
      BY <1>3, <1>5, <1>10, <2>1
  <1> QED
    BY <1>6, <1>7, <1>9, <1>11 DEF InTurnInv

\* The only rewrite of a file is that of the text it was found with.
LEMMA FixStoredFix == IInv /\ InTurnInv /\ FixStored => InTurnInv'
  <1> SUFFICES ASSUME IInv, InTurnInv, FixStored PROVE InTurnInv'
    OBVIOUS
  <1>1. TypeOK /\ phase = "fix" /\ unfixed # {}
    BY DEF IInv, FixStored
  <1>2. Current \in unfixed /\ Current \in Files
    BY <1>1, CurrentIsUnfixed DEF TypeOK
  <1>3. PICK p \in Rewriters(Current) : Written(Current, results[p][Current])
    BY DEF FixStored
  <1>4. p \in Patterns
    BY <1>3 DEF Rewriters
  <1>5. Rewriters(Current) = {p}
    <2>1. IsFiniteSet(Rewriters(Current))
      <3>1. Rewriters(Current) \subseteq Patterns
        BY DEF Rewriters
      <3> QED
        BY <3>1, PatternsAssumption, FS_Subset
    <2>2. Cardinality(Rewriters(Current)) = 1
      BY DEF FixStored
    <2> QED
      BY <1>3, <2>1, <2>2, FS_Singleton
  <1>6. again = {}
    BY DEF InTurnInv, TurnTaken, FixStored
  <1>7. /\ \A g \in Files : g # Current => tree'[g] = tree[g]
        /\ tree[Current] # Gone
           /\ results[p][Current] = suite[p].finds[tree[Current]] =>
              tree'[Current] = After(tree[Current], p)
    BY <1>1, <1>2, <1>3, <1>4, WrittenAfter
  <1>8. ASSUME flags.fix, Current \notin edited, NoLimit(Current)
        PROVE  tree'[Current] \in InTurn(found[Current], {p})
    <2>1. tree[Current] = found[Current]
      BY <1>1, <1>2, <1>6, <1>8 DEF InTurnInv, Fixed
    <2>2. /\ found[Current] \in Texts
          /\ results[p][Current] = suite[p].finds[found[Current]]
      BY <1>1, <1>2, <1>3, <1>4, <1>8 DEF InTurnInv, RanRight, NoLimit
    <2>3. tree'[Current] = After(found[Current], p)
      BY <1>7, <2>1, <2>2, TextsApart
    <2>4. found[Current] \in InTurn(found[Current], {})
      BY <2>2, InTurnNone
    <2>5. After(found[Current], p) \in Texts \union {Gone}
      BY <1>1, <1>4, <2>2, AfterTyped
    <2>6. After(found[Current], p) \in InTurn(found[Current], {} \union {p})
      BY <2>4, <2>5, FS_EmptySet, InTurnNext
    <2> QED
      BY <2>3, <2>6
  <1>9. /\ UNCHANGED <<suite, phase, flags, found, results, edited, stale, again>>
        /\ unfixed' = unfixed \ {Current}
    BY DEF FixStored
  <1> QED
    BY <1>1, <1>5, <1>6, <1>7, <1>8, <1>9, FixFix

\* Each of several patterns makes its rewrite of what the ones before have left.
LEMMA FixAgainFix ==
    ASSUME NEW p \in Patterns, IInv, InTurnInv, FixAgain(p)
    PROVE  InTurnInv'
  <1>1. TypeOK /\ phase = "fix" /\ unfixed # {} /\ tree[Current] # Gone
    BY DEF IInv, FixAgain, Turn
  <1>2. Current \in unfixed /\ Current \in Files
    BY <1>1, CurrentIsUnfixed DEF TypeOK
  <1>3. p \in Rewriters(Current) \ again /\ Cardinality(Rewriters(Current)) > 1
    BY DEF FixAgain, Turn
  <1> DEFINE ps == again \union {p}
             out == Outcome(p, tree[Current])
  <1>4. again \subseteq Rewriters(Current) /\ ps \subseteq Rewriters(Current)
    BY <1>3 DEF InTurnInv, TurnTaken
  <1>5. Written(Current, out)
    BY DEF FixAgain
  <1>6. tree[Current] \in Texts
    BY <1>1, <1>2 DEF TypeOK
  <1>7. suite[p].limit = {} => out = suite[p].finds[tree[Current]]
    BY <1>1, <1>6, OutcomeTyped
  <1> HIDE DEF out
  <1>8. /\ \A g \in Files : g # Current => tree'[g] = tree[g]
        /\ out = suite[p].finds[tree[Current]] => tree'[Current] = After(tree[Current], p)
    BY <1>1, <1>2, <1>5, WrittenAfter
  <1>9. ASSUME flags.fix, Current \notin edited, NoLimit(Current)
        PROVE  tree'[Current] \in InTurn(found[Current], ps)
    <2>1. tree[Current] \in InTurn(found[Current], again)
      BY <1>1, <1>2, <1>9 DEF InTurnInv, Fixed
    <2>2. tree'[Current] = After(tree[Current], p)
      BY <1>3, <1>7, <1>8, <1>9 DEF NoLimit
    <2>3. IsFiniteSet(again)
      <3>1. again \subseteq Patterns
        BY <1>1 DEF TypeOK
      <3> QED
        BY <3>1, PatternsAssumption, FS_Subset
    <2>4. After(tree[Current], p) \in Texts \union {Gone}
      BY <1>1, <1>6, AfterTyped
    <2> QED
      BY <1>3, <2>1, <2>2, <2>3, <2>4, InTurnNext
  <1>10. /\ UNCHANGED <<suite, phase, flags, found, results, edited, stale>>
         /\ \/ /\ ps = Rewriters(Current)
               /\ again' = {} /\ unfixed' = unfixed \ {Current}
            \/ again' = ps /\ unfixed' = unfixed
    BY DEF FixAgain, Turn
  <1>11. ps # {}
    OBVIOUS
  <1> HIDE DEF ps
  <1> QED
    BY <1>1, <1>3, <1>4, <1>8, <1>9, <1>10, <1>11, FixFix

LEMMA NextFix == IInv /\ InTurnInv /\ [Next]_vars => InTurnInv'
  <1> SUFFICES ASSUME IInv, InTurnInv, [Next]_vars PROVE InTurnInv'
    OBVIOUS
  <1>0. TypeOK
    BY DEF IInv
  <1>1. CASE \E f \in Files : Find(f) \/ Edit(f)
    BY <1>0, <1>1, FindFix, EditFix
  <1>2. CASE \E p \in Patterns, f \in Files : Execute(p, f)
    BY <1>2, ExecuteFix
  <1>3. CASE \E p \in Patterns : Collect(p) \/ FixAgain(p)
    BY <1>3, CollectFix, FixAgainFix
  <1>4. CASE ReportOther \/ ReportNothing \/ Stops \/ Close
    <2>1. \E written \in SUBSET puts : Ends(written)
      BY <1>4 DEF ReportOther, ReportNothing, Stops, Close, EndsEarly
    <2> QED
      BY <2>1, EndsFix
  <1>5. CASE Begin \/ Select \/ Report \/ FixStored
    BY <1>5, BeginFix, ReportFix, FixStoredFix
  <1>6. CASE Stay \/ UNCHANGED vars
    <2>1. UNCHANGED vars
      BY <1>6 DEF Stay
    <2>2. \A f \in Files : Rewriters(f)' = Rewriters(f)
      BY <2>1 DEF vars, Rewriters
    <2>3. Current' = Current /\ \A f \in Files : NoLimit(f)' = NoLimit(f)
      BY <2>1, <2>2 DEF vars, Current, NoLimit
    <2>4. (AllFound /\ AsFound /\ StaleEdited /\ RanRight)'
      BY <2>1, <2>2 DEF vars, InTurnInv, AllFound, AsFound, StaleEdited, RanRight
    <2>5. TurnTaken'
      <3>1. again # {} => Current \in Files
        BY <1>0, CurrentIsUnfixed DEF InTurnInv, TurnTaken, TypeOK
      <3> QED
        BY <2>1, <2>2, <2>3, <3>1 DEF vars, InTurnInv, TurnTaken
    <2>6. Fixed'
      <3>1. \A f \in Files :
               /\ InTurn(found[f], again)' = InTurn(found[f], again)
               /\ InTurn(found[f], Rewriters(f))' = InTurn(found[f], Rewriters(f))
        BY <2>1, <2>2 DEF vars, InTurn, After
      <3> QED
        BY <2>1, <2>2, <2>3, <3>1 DEF vars, InTurnInv, Fixed
    <2> QED
      BY <2>4, <2>5, <2>6 DEF InTurnInv
  <1> QED
    BY <1>1, <1>2, <1>3, <1>4, <1>5, <1>6 DEF Next

\* No fix undoes another (check.rs:369): a file with rewrites by several patterns
\* ends as they make it one after the other, in whatever order of the HashSet, and
\* a file whose turn has not come is as it was found.
THEOREM FixedInTurnAlways == Spec => []FixedInTurn
  <1>1. InTurnInv => FixedInTurn
    BY DEF InTurnInv, Fixed, FixedInTurn, NoLimit
  <1>2. Spec => []InTurnInv
    BY InitFix, NextFix, Invariance, PTL DEF Spec
  <1> QED
    BY <1>1, <1>2, PTL
=============================================================================

--------------------------- MODULE LinearizeProof ---------------------------
(***************************************************************************)
(* Theorems about Linearize, for every source, range and list of effects:  *)
(* what is selected does not overlap, no rewrite is lost when the effects  *)
(* are nested or disjoint, nothing else is ever rejected; and once the     *)
(* effects are accepted no later check fails, the ranges reported for the  *)
(* result are where the new texts are, and the result is what the effects  *)
(* mean.                                                                   *)
(*                                                                         *)
(* The first argument is about the loop that selects: it goes through the  *)
(* sorted effects from the last to the first, and all it knows of those it *)
(* has seen is top_level_open.  That is the start of a rewrite it has      *)
(* chosen, and the chosen ones lie behind it; an effect that is skipped    *)
(* ends behind it, no later than that rewrite: the two can only be nested. *)
(***************************************************************************)
EXTENDS Linearize, SequenceProof, SequenceTheorems, TLAPS

Ordered(s) ==
    \A i, j \in DOMAIN s : i < j =>
        /\ s[i].end <= s[j].end
        /\ s[i].end = s[j].end => s[i].start >= s[j].start

\* The effects are those of the input, in the order of compare.
EndSorted ==
    /\ effects \in Seq(Effect)
    /\ Ordered(effects)
    /\ \A i \in DOMAIN effects : \E j \in DOMAIN input : effects[i] = input[j]

Fresh == top_level = <<>> /\ top_level_open = right /\ next = 1

ChosenBehind ==
    /\ top_level \in Seq(Effect)
    /\ top_level_open \in Int /\ top_level_open <= right
    /\ \A i \in DOMAIN top_level : top_level[i].kind = "Rewrite" =>
          InRange(top_level[i]) /\ top_level_open <= top_level[i].start
    /\ \A i, j \in DOMAIN top_level :
          i < j /\ top_level[i].kind = "Rewrite" /\ top_level[j].kind = "Rewrite"
          => top_level[j].end <= top_level[i].start

\* top_level_open is the start of an effect that was chosen and is behind rest.
OpenIsStart ==
    \/ top_level_open = right
    \/ \E k \in DOMAIN top_level, m \in rest + 1 .. Len(effects) :
          /\ top_level[k].kind = "Rewrite"
          /\ top_level[k] = effects[m]
          /\ top_level[k].start = top_level_open

\* e lies within a rewrite that was chosen.
Covered(e) ==
    \E k \in DOMAIN top_level : /\ top_level[k].kind = "Rewrite"
                                /\ Within(e, top_level[k])
CoveredBehind(n) ==
    \A i \in n + 1 .. Len(effects) :
        effects[i].kind = "Rewrite" /\ InRange(effects[i]) => Covered(effects[i])

IInv ==
    /\ input \in Inputs
    /\ next \in Nat \ {0}
    /\ phase = "sort" \/ EndSorted
    /\ phase \in {"sort", "check"} => Fresh
    /\ phase = "rejected" => ~Laminar(input)
    /\ Selected => ChosenBehind
    /\ phase = "select" => /\ next = 1
                           /\ rest \in 0 .. Len(effects)
                           /\ OpenIsStart
                           /\ Laminar(input) => CoveredBehind(rest)
    /\ phase = "filter" /\ next = 1 /\ Laminar(input) => CoveredBehind(0)

-----------------------------------------------------------------------------
\* The fields of an effect.
LEMMA Fields ==
    ASSUME NEW e \in Effect
    PROVE  e.start \in Nat /\ e.end \in Nat /\ e.kind \in {"Rewrite", "Insert"}
  BY DEF Effect

\* Init: nothing is selected, the whole range is open.
LEMMA InitEstablishes == Init => IInv
  BY DEF Init, IInv, Fresh, Selected

\* The two facts about an input that the proof uses.
LEMMA InputFacts ==
    ASSUME input \in Inputs
    PROVE  /\ input \in Seq(Effect)
           /\ \A i \in DOMAIN input : input[i].start <= input[i].end
  BY InputsAssumption

\* earliest_deadline_sort sorts: by end, and for one end the later start first.
LEMMA SortSorts ==
    ASSUME IInv, Sort
    PROVE  EndSorted'
  <1> input \in Seq(Effect)
    BY InputFacts DEF IInv
  <1>1. PICK p \in Orders(input) :
            /\ SortedBy(input, p, Less)
            /\ effects' = [i \in DOMAIN input |-> input[p[i]]]
    BY DEF Sort
  <1>2. p \in [DOMAIN input -> DOMAIN input]
    BY DEF Orders
  <1>3. DOMAIN effects' = DOMAIN input
        /\ \A i \in DOMAIN input : p[i] \in DOMAIN input /\ effects'[i] = input[p[i]]
    BY <1>1, <1>2
  <1>4. \A i \in DOMAIN input : input[i] \in Effect
    OBVIOUS
  <1>5. effects' \in Seq(Effect)
    <2>1. DOMAIN input = 1 .. Len(input) /\ Len(input) \in Nat
      OBVIOUS
    <2> QED
      BY <1>1, <1>3, <1>4, <2>1
  <1>6. Ordered(effects')
    <2> SUFFICES ASSUME NEW i \in DOMAIN effects', NEW j \in DOMAIN effects', i < j
                 PROVE  /\ effects'[i].end <= effects'[j].end
                        /\ effects'[i].end = effects'[j].end =>
                              effects'[i].start >= effects'[j].start
      BY DEF Ordered
    <2>1. i \in DOMAIN input /\ j \in DOMAIN input
      BY <1>3
    <2>2. \/ Less(input[p[i]], input[p[j]])
          \/ ~Less(input[p[j]], input[p[i]])
      BY <1>1, <2>1 DEF SortedBy
    <2>3. input[p[i]] \in Effect /\ input[p[j]] \in Effect
      BY <1>3, <1>4, <2>1
    <2>4. /\ input[p[i]].end <= input[p[j]].end
          /\ input[p[i]].end = input[p[j]].end => input[p[i]].start >= input[p[j]].start
      BY <2>2, <2>3, Fields DEF Less
    <2> QED
      BY <1>3, <2>1, <2>4
  <1>7. \A i \in DOMAIN effects' : \E j \in DOMAIN input' : effects'[i] = input'[j]
    BY <1>3 DEF Sort
  <1> QED
    BY <1>5, <1>6, <1>7 DEF EndSorted

\* Neighbours of the sorted list that the test of earliest_deadline_sort turns
\* down do cross.
LEMMA CrossesIsCross ==
    ASSUME IInv, EndSorted,
           NEW i \in 1 .. Len(effects) - 1,
           Crosses(effects[i], effects[i + 1])
    PROVE  ~Laminar(input)
  <1>1. i \in DOMAIN effects /\ i + 1 \in DOMAIN effects
    BY DEF EndSorted
  <1>2. effects[i] \in Effect /\ effects[i + 1] \in Effect
    BY <1>1 DEF EndSorted
  <1>3. /\ effects[i].end <= effects[i + 1].end
        /\ effects[i].end = effects[i + 1].end =>
              effects[i].start >= effects[i + 1].start
    BY <1>1 DEF EndSorted, Ordered
  <1>4. Cross(effects[i], effects[i + 1])
    BY <1>2, <1>3, Fields DEF Crosses, Cross
  <1> QED
    BY <1>1, <1>4 DEF EndSorted, Laminar

\* An effect of the range that the loop skips lies within the rewrite whose start
\* top_level_open is.
LEMMA SkippedIsCovered ==
    ASSUME IInv, phase = "select", rest > 0, Laminar(input),
           InRange(effects[rest]), effects[rest].end > top_level_open
    PROVE  Covered(effects[rest])
  <1> DEFINE e == effects[rest]
  <1>1. /\ effects \in Seq(Effect) /\ rest \in DOMAIN effects
        /\ e \in Effect /\ rest \in Nat
    BY DEF IInv, EndSorted
  <1>2. top_level_open # right
    BY <1>1, Fields, RangeAssumption DEF InRange
  <1>3. PICK k \in DOMAIN top_level, m \in rest + 1 .. Len(effects) :
          /\ top_level[k].kind = "Rewrite"
          /\ top_level[k] = effects[m]
          /\ top_level[k].start = top_level_open
    BY <1>2 DEF IInv, OpenIsStart
  <1>4. m \in DOMAIN effects /\ rest < m /\ effects[m] \in Effect
    BY <1>1, <1>3
  <1>5. /\ e.end <= effects[m].end
        /\ e.end = effects[m].end => e.start >= effects[m].start
    BY <1>1, <1>4 DEF IInv, EndSorted, Ordered
  <1>6. ~Cross(e, effects[m])
    BY <1>1, <1>4 DEF IInv, EndSorted, Laminar
  <1>7. Within(e, effects[m])
    BY <1>1, <1>3, <1>4, <1>5, <1>6, Fields DEF Cross, Within
  <1> QED
    BY <1>3, <1>7 DEF Covered

-----------------------------------------------------------------------------
\* The loop body that chooses an effect: appending an insertion, or a rewrite
\* that ends before top_level_open, keeps what is chosen apart.
LEMMA ChoosePreserves ==
    ASSUME IInv, SelectInsert \/ SelectRewrite
    PROVE  ChosenBehind' /\ OpenIsStart' /\ rest' \in 0 .. Len(effects')
           /\ (Laminar(input) => CoveredBehind(rest)')
  <1> DEFINE e == effects[rest]
  <1>1. /\ phase = "select" /\ rest > 0
        /\ top_level' = Append(top_level, e) /\ rest' = rest - 1
        /\ effects' = effects
    BY DEF SelectInsert, SelectRewrite, Selecting, Choose, Current
  <1>2. /\ effects \in Seq(Effect) /\ rest \in DOMAIN effects
        /\ e \in Effect /\ rest \in Nat /\ rest \in 1 .. Len(effects)
    BY <1>1 DEF IInv, EndSorted
  <1>3. ChosenBehind /\ OpenIsStart
        /\ (Laminar(input) => CoveredBehind(rest))
    BY <1>1 DEF IInv, Selected
  <1> DEFINE n == Len(top_level)
  <1>4. /\ top_level \in Seq(Effect) /\ n \in Nat
        /\ DOMAIN top_level = 1 .. n
        /\ DOMAIN top_level' = 1 .. n + 1
        /\ top_level' \in Seq(Effect)
        /\ top_level'[n + 1] = e
        /\ \A k \in 1 .. n : top_level'[k] = top_level[k] /\ top_level[k] \in Effect
    BY <1>1, <1>2, <1>3 DEF ChosenBehind
  <1>5. CASE SelectInsert
    <2>1. e.kind = "Insert" /\ top_level_open' = top_level_open
      BY <1>5 DEF SelectInsert, InsertInRange, Current
    <2>2. ChosenBehind'
      BY <1>3, <1>4, <2>1, RangeAssumption DEF ChosenBehind, InRange
    <2>3. OpenIsStart'
      BY <1>1, <1>2, <1>3, <1>4, <2>1 DEF OpenIsStart
    <2>4. ASSUME Laminar(input) PROVE CoveredBehind(rest)'
      <3> SUFFICES ASSUME NEW i \in rest .. Len(effects),
                          effects[i].kind = "Rewrite", InRange(effects[i])
                   PROVE  Covered(effects[i])'
        BY <1>1, <1>2 DEF CoveredBehind, InRange
      <3>1. i \in rest + 1 .. Len(effects)
        BY <1>2, <2>1
      <3>2. Covered(effects[i])
        BY <1>3, <2>4, <3>1 DEF CoveredBehind
      <3> QED
        BY <1>1, <1>4, <3>2 DEF Covered, Within
    <2> QED
      BY <1>1, <1>2, <2>2, <2>3, <2>4
  <1>6. CASE SelectRewrite
    <2>1. /\ ~InsertInRange(e) /\ e.end <= top_level_open /\ e.start >= left
          /\ top_level_open' = e.start
      BY <1>6 DEF SelectRewrite, Current
    <2>2. /\ e.start \in Nat /\ e.end \in Nat /\ e.start <= e.end
          /\ e.kind \in {"Rewrite", "Insert"}
      <3>1. \A i \in DOMAIN input : input[i].start <= input[i].end
        BY InputFacts DEF IInv
      <3> QED
        BY <1>1, <1>2, <3>1, Fields DEF IInv, EndSorted
    <2>3. top_level_open \in Int /\ top_level_open <= right
      BY <1>3 DEF ChosenBehind
    <2>4. InRange(e) /\ e.kind = "Rewrite"
      BY <2>1, <2>2, <2>3, RangeAssumption DEF InRange, InsertInRange
    <2>5. ChosenBehind'
      <3>1. top_level_open' \in Int /\ top_level_open' <= right
        BY <2>1, <2>2, <2>3, RangeAssumption
      <3>2. ASSUME NEW i \in 1 .. n + 1, top_level'[i].kind = "Rewrite"
            PROVE  InRange(top_level'[i]) /\ top_level_open' <= top_level'[i].start
        <4>1. CASE i = n + 1
          BY <1>4, <2>1, <2>2, <2>4, <4>1
        <4>2. CASE i \in 1 .. n
          <5>1. /\ InRange(top_level[i]) /\ top_level_open <= top_level[i].start
                /\ top_level[i].start \in Nat
            BY <1>3, <1>4, <3>2, <4>2, Fields DEF ChosenBehind
          <5> QED
            BY <1>4, <2>1, <2>2, <2>3, <4>2, <5>1
        <4> QED
          BY <1>4, <4>1, <4>2
      <3>3. ASSUME NEW i \in 1 .. n + 1, NEW j \in 1 .. n + 1, i < j,
                   top_level'[i].kind = "Rewrite", top_level'[j].kind = "Rewrite"
            PROVE  top_level'[j].end <= top_level'[i].start
        <4>1. i \in 1 .. n
          BY <1>4, <3>3
        <4>2. CASE j = n + 1
          <5>1. /\ top_level_open <= top_level[i].start /\ top_level[i].start \in Nat
            BY <1>3, <1>4, <3>3, <4>1, Fields DEF ChosenBehind
          <5> QED
            BY <1>4, <2>1, <2>2, <2>3, <4>1, <4>2, <5>1
        <4>3. CASE j \in 1 .. n
          BY <1>3, <1>4, <3>3, <4>1, <4>3 DEF ChosenBehind
        <4> QED
          BY <1>4, <4>2, <4>3
      <3>4. (\A i \in DOMAIN top_level : top_level[i].kind = "Rewrite" =>
                InRange(top_level[i]) /\ top_level_open <= top_level[i].start)'
        BY <1>4, <3>2 DEF InRange
      <3>5. (\A i, j \in DOMAIN top_level :
                i < j /\ top_level[i].kind = "Rewrite" /\ top_level[j].kind = "Rewrite"
                => top_level[j].end <= top_level[i].start)'
        BY <1>4, <3>3
      <3> QED
        BY <1>4, <3>1, <3>4, <3>5 DEF ChosenBehind
    <2>6. OpenIsStart'
      <3>1. n + 1 \in DOMAIN top_level' /\ rest \in rest' + 1 .. Len(effects')
        BY <1>1, <1>2, <1>4
      <3> QED
        BY <1>1, <1>4, <2>1, <2>4, <3>1 DEF OpenIsStart
    <2>7. ASSUME Laminar(input) PROVE CoveredBehind(rest)'
      <3> SUFFICES ASSUME NEW i \in rest .. Len(effects),
                          effects[i].kind = "Rewrite", InRange(effects[i])
                   PROVE  Covered(effects[i])'
        BY <1>1, <1>2 DEF CoveredBehind, InRange
      <3>1. CASE i = rest
        <4>1. Within(e, e)
          BY <2>2 DEF Within
        <4> QED
          BY <1>1, <1>4, <2>4, <3>1, <4>1 DEF Covered, Within
      <3>2. CASE i \in rest + 1 .. Len(effects)
        <4>1. Covered(effects[i])
          BY <1>3, <2>7, <3>2 DEF CoveredBehind
        <4> QED
          BY <1>1, <1>4, <4>1 DEF Covered, Within
      <3> QED
        BY <1>2, <3>1, <3>2
    <2> QED
      BY <1>1, <1>2, <2>5, <2>6, <2>7
  <1> QED
    BY <1>5, <1>6

-----------------------------------------------------------------------------
\* When the loop ends at an effect in front of the range, those before it in the
\* sorted list are in front of it as well.
LEMMA BreakLeavesNone ==
    ASSUME IInv, SelectDone, Laminar(input)
    PROVE  CoveredBehind(0)
  <1>1. /\ phase = "select" /\ (rest > 0 => effects[rest].end < left)
    BY DEF SelectDone, Current
  <1>2. effects \in Seq(Effect) /\ rest \in 0 .. Len(effects) /\ Ordered(effects)
    BY <1>1 DEF IInv, EndSorted
  <1>3. CoveredBehind(rest)
    BY <1>1 DEF IInv
  <1> SUFFICES ASSUME NEW i \in 1 .. Len(effects),
                      effects[i].kind = "Rewrite", InRange(effects[i])
               PROVE  Covered(effects[i])
    BY <1>2 DEF CoveredBehind
  <1>4. effects[i] \in Effect /\ effects[i].start \in Nat /\ effects[i].end \in Nat
    BY <1>2, Fields
  <1>5. effects[i].start <= effects[i].end
    <2>1. \A j \in DOMAIN input : input[j].start <= input[j].end
      BY InputFacts DEF IInv
    <2> QED
      BY <1>1, <1>2, <2>1 DEF IInv, EndSorted
  <1>6. left <= effects[i].end
    BY <1>4, <1>5, RangeAssumption DEF InRange
  <1>7. ~(i <= rest)
    <2> SUFFICES ASSUME i <= rest PROVE FALSE
      OBVIOUS
    <2>1. rest \in DOMAIN effects /\ rest > 0 /\ effects[rest].end \in Nat
      BY <1>2, Fields
    <2>2. effects[i].end <= effects[rest].end
      <3>1. CASE i = rest
        BY <1>4, <3>1
      <3>2. CASE i < rest
        BY <1>2, <2>1, <3>2 DEF Ordered
      <3> QED
        BY <1>2, <3>1, <3>2
    <2> QED
      BY <1>1, <1>4, <1>6, <2>1, <2>2, RangeAssumption
  <1>8. i \in rest + 1 .. Len(effects)
    BY <1>2, <1>7
  <1> QED
    BY <1>3, <1>8 DEF CoveredBehind

\* Every step keeps the invariant.
LEMMA StepPreserves == IInv /\ [Next]_vars => IInv'
  <1> SUFFICES ASSUME IInv, [Next]_vars PROVE IInv'
    OBVIOUS
  <1> USE DEF IInv, Selected
  <1>1. CASE Sort
    <2>1. EndSorted'
      BY <1>1, SortSorts
    <2>2. /\ input' = input /\ phase' = "check" /\ next' = next
          /\ Fresh'
      BY <1>1 DEF Sort, Fresh
    <2> QED
      BY <2>1, <2>2
  <1>2. CASE CheckNeighbours
    <2>1. /\ phase = "check" /\ Fresh /\ EndSorted
          /\ input' = input /\ effects' = effects /\ next' = next
          /\ top_level' = top_level /\ top_level_open' = top_level_open
          /\ rest' = Len(effects)
      BY <1>2 DEF CheckNeighbours
    <2>2. EndSorted' /\ Fresh' /\ (Laminar(input) <=> Laminar(input)')
      BY <2>1 DEF EndSorted, Ordered, Fresh, Laminar, Cross
    <2>3. Len(effects) \in Nat
      BY <2>1 DEF EndSorted
    <2>4. CASE phase' = "rejected"
      <3>1. PICK i \in 1 .. Len(effects) - 1 : Crosses(effects[i], effects[i + 1])
        BY <1>2, <2>4 DEF CheckNeighbours
      <3>2. ~Laminar(input)
        BY <2>1, <3>1, CrossesIsCross
      <3> QED
        BY <2>1, <2>2, <2>4, <3>2
    <2>5. CASE phase' = "select"
      <3>1. ChosenBehind'
        BY <2>2, RangeAssumption DEF ChosenBehind, Fresh
      <3>2. OpenIsStart'
        BY <2>2 DEF OpenIsStart, Fresh
      <3>3. CoveredBehind(rest)'
        BY <2>1, <2>3 DEF CoveredBehind
      <3>4. rest' \in 0 .. Len(effects') /\ next' = 1
        BY <2>1, <2>2, <2>3 DEF Fresh
      <3> QED
        BY <2>1, <2>2, <2>5, <3>1, <3>2, <3>3, <3>4
    <2>6. phase' \in {"rejected", "select"}
      BY <1>2 DEF CheckNeighbours
    <2> QED
      BY <2>4, <2>5, <2>6
  <1>3. CASE SelectInsert \/ SelectRewrite
    <2>1. /\ phase = "select" /\ phase' = "select" /\ input' = input
          /\ effects' = effects /\ next' = next
      BY <1>3 DEF SelectInsert, SelectRewrite, Selecting
    <2>2. EndSorted'
      BY <2>1 DEF EndSorted, Ordered
    <2>3. ChosenBehind' /\ OpenIsStart' /\ rest' \in 0 .. Len(effects')
          /\ (Laminar(input) => CoveredBehind(rest)')
      BY <1>3, ChoosePreserves
    <2>4. Laminar(input)' <=> Laminar(input)
      BY <2>1 DEF Laminar, Cross
    <2> QED
      BY <2>1, <2>2, <2>3, <2>4
  <1>4. CASE SelectSkip
    <2>1. /\ phase = "select" /\ phase' = "select" /\ rest > 0 /\ rest' = rest - 1
          /\ input' = input /\ effects' = effects /\ next' = next
          /\ top_level' = top_level /\ top_level_open' = top_level_open
          /\ effects[rest].end > top_level_open \/ effects[rest].start < left
      BY <1>4 DEF SelectSkip, Selecting, Current
    <2>2. /\ EndSorted' /\ ChosenBehind' /\ (Laminar(input)' <=> Laminar(input))
      BY <2>1 DEF EndSorted, Ordered, ChosenBehind, InRange, Laminar, Cross
    <2>3. /\ effects \in Seq(Effect) /\ rest \in 1 .. Len(effects) /\ Len(effects) \in Nat
          /\ effects[rest].start \in Nat
      BY <2>1, Fields DEF EndSorted
    <2>4. OpenIsStart'
      BY <2>1, <2>3 DEF OpenIsStart
    <2>5. ASSUME Laminar(input) PROVE CoveredBehind(rest)'
      <3> SUFFICES ASSUME NEW i \in rest .. Len(effects),
                          effects[i].kind = "Rewrite", InRange(effects[i])
                   PROVE  Covered(effects[i])
        BY <2>1, <2>3 DEF CoveredBehind, Covered, InRange, Within
      <3>1. CASE i = rest
        <4>1. effects[rest].end > top_level_open
          BY <2>1, <2>3, <3>1, RangeAssumption DEF InRange
        <4> QED
          BY <2>1, <2>5, <3>1, <4>1, SkippedIsCovered
      <3>2. CASE i \in rest + 1 .. Len(effects)
        BY <2>1, <2>5, <3>2 DEF CoveredBehind
      <3> QED
        BY <2>3, <3>1, <3>2
    <2> QED
      BY <2>1, <2>2, <2>3, <2>4, <2>5
  <1>5. CASE SelectDone
    <2>1. /\ phase = "select" /\ phase' \in {"filter", "error"} /\ input' = input
          /\ effects' = effects /\ next' = next /\ rest' = rest
          /\ top_level' = top_level /\ top_level_open' = top_level_open
      BY <1>5 DEF SelectDone
    <2>2. /\ EndSorted' /\ ChosenBehind' /\ (Laminar(input)' <=> Laminar(input))
      BY <2>1 DEF EndSorted, Ordered, ChosenBehind, InRange, Laminar, Cross
    <2>3. ASSUME Laminar(input) PROVE CoveredBehind(0)'
      <3>1. CoveredBehind(0)
        BY <1>5, <2>3, BreakLeavesNone
      <3> QED
        BY <2>1, <3>1 DEF CoveredBehind, Covered, InRange, Within
    <2> QED
      BY <2>1, <2>2, <2>3
  <1>6. CASE FilterNested \/ Arrange \/ Write \/ Done
    <2>1. /\ phase \in {"filter", "write"} /\ phase' \in {"filter", "write", "done", "error"}
          /\ input' = input /\ effects' = effects
      BY <1>6 DEF FilterNested, Arrange, Write, Done
    <2>2. \/ next' = next + 1
          \/ next' \in {1, next} /\ phase' \in {"write", "done", "error"}
      BY <1>6 DEF FilterNested, Arrange, Write, Done
    <2>3. /\ next' \in Nat \ {0}
          /\ phase' = "filter" => next' # 1
      <3>1. next \in Nat \ {0}
        OBVIOUS
      <3> QED
        BY <2>2, <3>1
    <2>4. EndSorted'
      BY <2>1 DEF EndSorted, Ordered
    <2> QED
      BY <2>1, <2>3, <2>4
  <1>7. CASE Stay \/ UNCHANGED vars
    <2>1. UNCHANGED vars
      BY <1>7 DEF Stay
    <2>2. /\ input' = input /\ effects' = effects /\ phase' = phase /\ rest' = rest
          /\ top_level' = top_level /\ top_level_open' = top_level_open /\ next' = next
      BY <2>1 DEF vars
    <2>3. /\ EndSorted => EndSorted'
          /\ Fresh => Fresh'
          /\ Laminar(input)' <=> Laminar(input)
      BY <2>2 DEF EndSorted, Ordered, Fresh, Laminar, Cross
    <2>4. /\ ChosenBehind => ChosenBehind'
          /\ OpenIsStart => OpenIsStart'
      BY <2>2 DEF ChosenBehind, InRange, OpenIsStart
    <2>5. /\ CoveredBehind(rest) => CoveredBehind(rest)'
          /\ CoveredBehind(0) => CoveredBehind(0)'
      BY <2>2 DEF CoveredBehind, Covered, InRange, Within
    <2> QED
      BY <2>2, <2>3, <2>4, <2>5
  <1> QED
    BY <1>1, <1>2, <1>3, <1>4, <1>5, <1>6, <1>7 DEF Next

-----------------------------------------------------------------------------
\* The inductive invariant holds in every state of every run.
THEOREM Invariance == Spec => []IInv
  BY InitEstablishes, StepPreserves, PTL DEF Spec

\* earliest_deadline_sort turns down only lists of which two effects cross: a
\* migration with nested or touching rewrites never fails with overlapping
\* ranges.
THEOREM OnlyCrossingRejectedAlways == Spec => []OnlyCrossingRejected
  <1>1. IInv => OnlyCrossingRejected
    BY DEF IInv, OnlyCrossingRejected
  <1> QED
    BY <1>1, Invariance, PTL

\* No two rewrites that get_top_level_intervals_in_range returns overlap, and
\* none leaves the range, whether or not the effects cross.
THEOREM EditsDisjointAlways == Spec => []EditsDisjoint
  <1>1. IInv => EditsDisjoint
    BY DEF IInv, EditsDisjoint, ChosenBehind
  <1> QED
    BY <1>1, Invariance, PTL

\* Of effects that are nested or disjoint get_top_level_intervals_in_range loses
\* no rewrite: it returns it, or one around it.
THEOREM OutermostChosenAlways == Spec => []OutermostChosen
  <1>1. ASSUME IInv PROVE OutermostChosen
    <2> SUFFICES ASSUME phase = "filter", next = 1, Laminar(input),
                        NEW i \in DOMAIN effects,
                        effects[i].kind = "Rewrite", InRange(effects[i])
                 PROVE  Covered(effects[i])
      BY DEF OutermostChosen, Covered
    <2>1. effects \in Seq(Effect) /\ CoveredBehind(0)
      BY <1>1 DEF IInv, EndSorted
    <2> QED
      BY <2>1 DEF CoveredBehind
  <1> QED
    BY <1>1, Invariance, PTL

-----------------------------------------------------------------------------
(* The second invariant: how the edits that were selected get into the     *)
(* text.  They are in the order of their ends all along; filter_out_nested *)
(* leaves no two that overlap; so once they are sorted by their starts as  *)
(* well, each ends before the one behind it begins.  The output ranges are *)
(* computed before the text is edited: while it is, an edit is where its   *)
(* range says but for the growth of those that are still to be written.    *)

Placed(e) == e.start <= e.end /\ left <= Start(e) /\ e.end <= right
Separate(e, f) == e.end <= Start(f) \/ f.end <= Start(e)
\* Last edit first, and none reaches into the one that follows it in the text.
InOrder(s) == \A i, j \in DOMAIN s : i < j => s[j].end <= Start(s[i])

AllPlaced == \A i \in DOMAIN top_level : Placed(top_level[i])
Falling ==
    \A i, j \in DOMAIN top_level : i < j => top_level[j].end <= top_level[i].end
NotBehind ==
    \A k \in DOMAIN top_level, m \in 1 .. rest : effects[m].end <= top_level[k].end
RewritesApart ==
    \A i, j \in DOMAIN top_level :
        i < j /\ top_level[i].kind = "Rewrite" /\ top_level[j].kind = "Rewrite"
        => top_level[j].end <= top_level[i].start
SeparateUpto(m) ==
    \A i, j \in DOMAIN top_level :
        i < j /\ i < m => Separate(top_level[i], top_level[j])

\* The ranges r are those of the edits s, last edit first: each as long as its
\* text, the first where it was, and each other one as far from the one in front
\* of it as in the source.
Chained(s, r) ==
    LET n == Len(s)
        e(k) == s[n + 1 - k]
    IN  /\ r \in Seq([start: Int, end: Int])
        /\ Len(r) = n
        /\ \A k \in 1 .. n : r[k].end = r[k].start + Len(e(k).text)
        /\ n > 0 => r[1].start = Start(e(1))
        /\ \A k \in 2 .. n :
              r[k].start = r[k - 1].end + Start(e(k)) - e(k - 1).end

\* They do not overlap, nor begin in front of the range.
RangesRise ==
    \A k \in 1 .. Len(top_level) :
        /\ left <= output_ranges[k].start
        /\ \A l \in 1 .. Len(top_level) :
              k < l => output_ranges[k].end <= output_ranges[l].start

\* The k-th edit of the text; how much the first m of them make it grow; and how
\* many are still to be written.
Edit(k) == top_level[Len(top_level) + 1 - k]
Growth(m) == IF m = 0 THEN 0 ELSE output_ranges[m].end - Edit(m).end
Unwritten == Len(top_level) + 1 - next

\* text is in the code behind the first at tokens.
ShownAt(text, at) ==
    /\ at >= 0 /\ at + Len(text) <= Len(code)
    /\ \A i \in 1 .. Len(text) : code[at + i] = text[i]

\* An edit that is written is where its output range says, but for the growth of
\* those in front of it that are not written yet.
WrittenShown ==
    \A k \in Unwritten + 1 .. Len(top_level) :
        ShownAt(Edit(k).text, output_ranges[k].start - Growth(Unwritten) - left)

EditInv ==
    /\ TypeOK
    /\ phase = "sort" => rest = 0
    /\ phase \in {"sort", "check", "select", "filter"} => Len(code) = right - left
    /\ phase \in {"select", "filter"} => AllPlaced /\ Falling
    /\ phase = "select" => NotBehind
    /\ phase = "filter" => RewritesApart /\ SeparateUpto(next)
    /\ phase \in {"write", "done"} =>
         /\ AllPlaced /\ InOrder(top_level) /\ Chained(top_level, output_ranges)
         /\ RangesRise
         /\ Unwritten \in 0 .. Len(top_level)
         /\ Unwritten = Len(top_level) => Len(code) = right - left
         /\ WrittenShown
    /\ phase = "done" => Unwritten = 0
    /\ phase # "error"

-----------------------------------------------------------------------------
(* The output ranges: sums of what the edits in front make the text grow.  *)

\* The partial sums of n numbers.
PartialSums(n, g, f) ==
    /\ f \in [1 .. n + 1 -> Int]
    /\ f[1] = 0
    /\ \A k \in 1 .. n : f[k + 1] = f[k] + g[k]

LEMMA SumsExist ==
    ASSUME NEW n \in Nat, NEW g \in [1 .. n -> Int]
    PROVE  \E f : PartialSums(n, g, f)
  <1> DEFINE T == {m \in Nat : m <= n /\ ~\E f : PartialSums(m, g, f)}
  <1> SUFFICES ASSUME T # {} PROVE FALSE
    <2>1. n <= n
      OBVIOUS
    <2> QED
      BY <2>1
  <1>1. PICK m \in T : \A x \in T : m <= x
    <2>1. T \subseteq Nat
      OBVIOUS
    <2> HIDE DEF T
    <2> QED
      BY <2>1, LeastElement
  <1>2. m # 0
    <2>1. PartialSums(0, g, [k \in 1 .. 1 |-> 0])
      BY DEF PartialSums
    <2> QED
      BY <1>1, <2>1
  <1>3. m \in Nat /\ m - 1 \in Nat /\ m <= n /\ m - 1 <= n /\ m \in 1 .. n
    BY <1>1, <1>2
  <1>4. m - 1 \notin T
    <2> HIDE DEF T
    <2> QED
      BY <1>1, <1>3
  <1>5. PICK f : PartialSums(m - 1, g, f)
    BY <1>3, <1>4
  <1> DEFINE h == [k \in 1 .. m + 1 |-> IF k = m + 1 THEN f[m] + g[m] ELSE f[k]]
  <1>6. f \in [1 .. m -> Int] /\ f[1] = 0 /\ \A k \in 1 .. m - 1 : f[k + 1] = f[k] + g[k]
    BY <1>3, <1>5 DEF PartialSums
  <1>7. h \in [1 .. m + 1 -> Int] /\ h[1] = 0
    BY <1>3, <1>6
  <1>8. \A k \in 1 .. m : h[k + 1] = h[k] + g[k]
    <2> SUFFICES ASSUME NEW k \in 1 .. m PROVE h[k + 1] = h[k] + g[k]
      OBVIOUS
    <2>1. CASE k = m
      BY <1>3, <1>6, <2>1
    <2>2. CASE k \in 1 .. m - 1
      BY <1>3, <1>6, <2>2
    <2> QED
      BY <1>3, <2>1, <2>2
  <1>9. PartialSums(m, g, h)
    <2> HIDE DEF h
    <2> QED
      BY <1>7, <1>8 DEF PartialSums
  <1> QED
    BY <1>1, <1>9

\* The output ranges are chained.
LEMMA OutputRangesChained ==
    ASSUME NEW s \in Seq(Effect)
    PROVE  Chained(s, OutputRanges(s))
  <1> DEFINE n == Len(s)
             e == [k \in 1 .. n |-> s[n + 1 - k]]
             Body(f) == [k \in 1 .. n + 1 |->
                           IF k = 1 THEN 0
                           ELSE f[k - 1] + Len(e[k - 1].text) + Start(e[k - 1]) - e[k - 1].end]
             offset == CHOOSE f : f = Body(f)
             g == [k \in 1 .. n |-> Len(e[k].text) + Start(e[k]) - e[k].end]
  <1>1. OutputRanges(s) =
            [k \in 1 .. n |-> [start |-> Start(e[k]) + offset[k],
                               end |-> Start(e[k]) + offset[k] + Len(e[k].text)]]
    BY DEF OutputRanges
  <1>2. n \in Nat /\ \A k \in 1 .. n : /\ e[k] = s[n + 1 - k]
                                       /\ e[k] \in Effect /\ Len(e[k].text) \in Nat
                                       /\ Start(e[k]) \in Nat /\ e[k].end \in Nat
    <2>1. n \in Nat /\ \A k \in 1 .. n : e[k] = s[n + 1 - k] /\ e[k] \in Effect
      OBVIOUS
    <2> HIDE DEF e, n
    <2> QED
      BY <2>1 DEF Effect, Start
  <1> HIDE DEF n, e
  <1>3. g \in [1 .. n -> Int]
    BY <1>2
  <1>4. PICK f : PartialSums(n, g, f)
    BY <1>2, <1>3, SumsExist
  <1>5. f = Body(f)
    <2>1. f \in [1 .. n + 1 -> Int] /\ f[1] = 0
      BY <1>4 DEF PartialSums
    <2>2. \A k \in 1 .. n : f[k + 1] = f[k] + g[k]
      BY <1>4 DEF PartialSums
    <2>3. ASSUME NEW k \in 1 .. n + 1, k # 1
          PROVE  f[k] = f[k - 1] + Len(e[k - 1].text) + Start(e[k - 1]) - e[k - 1].end
      <3>1. k - 1 \in 1 .. n /\ (k - 1) + 1 = k
        BY <1>2, <2>3
      <3>2. f[k] = f[k - 1] + g[k - 1]
        BY <2>2, <3>1
      <3>3. f[k - 1] \in Int
        BY <1>2, <2>1, <3>1
      <3> DEFINE a == Len(e[k - 1].text)
                 b == Start(e[k - 1])
                 c == e[k - 1].end
                 d == f[k - 1]
      <3>4. g[k - 1] = a + b - c
        BY <3>1
      <3>5. a \in Nat /\ b \in Nat /\ c \in Nat /\ d \in Int
        BY <1>2, <3>1, <3>3
      <3>6. f[k] = d + (a + b - c)
        BY <3>2, <3>4
      <3>7. f[k] = d + a + b - c
        <4> HIDE DEF a, b, c, d, g
        <4> QED
          BY <3>5, <3>6
      <3> QED
        BY <3>7
    <2>4. \A k \in 1 .. n + 1 : f[k] = Body(f)[k]
      BY <2>1, <2>3
    <2>5. f = [k \in 1 .. n + 1 |-> f[k]]
      BY <2>1
    <2>6. Body(f) = [k \in 1 .. n + 1 |-> Body(f)[k]]
      OBVIOUS
    <2> HIDE DEF Body
    <2> QED
      BY <2>4, <2>5, <2>6
  <1>6. offset = Body(offset)
    <2> HIDE DEF Body
    <2> QED
      BY <1>5
  <1> HIDE DEF offset
  <1>7. /\ offset[1] = 0
        /\ \A k \in 2 .. n + 1 :
             offset[k] = offset[k - 1] + Len(e[k - 1].text) + Start(e[k - 1]) - e[k - 1].end
    BY <1>2, <1>6
  <1>8. \A k \in 1 .. n + 1 : offset[k] = f[k]
    <2>1. \A k \in 1 .. n : f[k + 1] = f[k] + g[k]
      BY <1>4 DEF PartialSums
    <2> DEFINE T == {k \in 1 .. n + 1 : offset[k] # f[k]}
    <2> SUFFICES ASSUME T # {} PROVE FALSE
      OBVIOUS
    <2>2. PICK k \in T : \A x \in T : k <= x
      <3>1. T \subseteq Nat
        OBVIOUS
      <3> HIDE DEF T
      <3> QED
        BY <3>1, LeastElement
    <2>3. k # 1
      BY <1>4, <1>7, <2>2 DEF PartialSums
    <2>4. k \in 2 .. n + 1 /\ k - 1 \in 1 .. n /\ k - 1 \in 1 .. n + 1 /\ ~(k <= k - 1)
      BY <1>2, <2>2, <2>3
    <2>5. offset[k - 1] = f[k - 1]
      BY <2>2, <2>4
    <2>6. f[k - 1] \in Int
      BY <1>4, <2>4 DEF PartialSums
    <2>7. f[k] = f[k - 1] + g[k - 1]
      <3>1. (k - 1) + 1 = k
        BY <2>4
      <3> QED
        BY <2>1, <2>4, <3>1
    <2>8. g[k - 1] = Len(e[k - 1].text) + Start(e[k - 1]) - e[k - 1].end
      BY <2>4
    <2>9. offset[k] = f[k]
      <3> DEFINE a == Len(e[k - 1].text)
                 b == Start(e[k - 1])
                 c == e[k - 1].end
                 d == f[k - 1]
      <3>1. a \in Nat /\ b \in Nat /\ c \in Nat /\ d \in Int
        BY <1>2, <2>4, <2>6
      <3>2. offset[k] = d + a + b - c
        BY <1>7, <2>4, <2>5
      <3>3. f[k] = d + (a + b - c)
        BY <2>7, <2>8
      <3> HIDE DEF a, b, c, d
      <3> QED
        BY <3>1, <3>2, <3>3
    <2> QED
      BY <2>2, <2>9
  <1>9. \A k \in 1 .. n + 1 : offset[k] \in Int
    BY <1>4, <1>8 DEF PartialSums
  <1> DEFINE r == OutputRanges(s)
  <1>10. /\ r \in Seq([start: Int, end: Int]) /\ Len(r) = n
         /\ \A k \in 1 .. n : /\ r[k].start = Start(e[k]) + offset[k]
                              /\ r[k].end = Start(e[k]) + offset[k] + Len(e[k].text)
    <2>1. /\ DOMAIN r = 1 .. n
          /\ \A k \in 1 .. n : /\ r[k] \in [start: Int, end: Int]
                               /\ r[k].start = Start(e[k]) + offset[k]
                               /\ r[k].end = Start(e[k]) + offset[k] + Len(e[k].text)
      BY <1>1, <1>2, <1>9
    <2>2. r = [k \in 1 .. n |-> r[k]]
      BY <1>1
    <2> HIDE DEF r
    <2>3. r \in [1 .. n -> [start: Int, end: Int]]
      BY <2>1, <2>2
    <2>4. r \in Seq([start: Int, end: Int]) /\ Len(r) = n
      <3> DEFINE Out == [start: Int, end: Int]
      <3>1. n \in Nat /\ r \in [1 .. n -> Out]
        BY <1>2, <2>3
      <3> HIDE DEF Out
      <3>3. r \in Seq(Out)
        BY <3>1
      <3>2. DOMAIN r = 1 .. n
        BY <2>3
      <3> QED
        BY <3>1, <3>2, <3>3 DEF Out
    <2> QED
      BY <2>1, <2>4
  <1> HIDE DEF r
  <1>11. \A k \in 1 .. n : r[k].end = r[k].start + Len(e[k].text)
    BY <1>2, <1>9, <1>10
  <1>12. n > 0 => r[1].start = Start(e[1])
    BY <1>2, <1>7, <1>10
  <1>13. ASSUME NEW k \in 2 .. n
         PROVE  r[k].start = r[k - 1].end + Start(e[k]) - e[k - 1].end
    <2>1. k \in 1 .. n /\ k - 1 \in 1 .. n /\ k \in 2 .. n + 1 /\ k - 1 \in 1 .. n + 1
          /\ k \in 1 .. n + 1
      BY <1>2
    <2>2. r[k].start = Start(e[k]) + offset[k]
      BY <1>10, <2>1
    <2>3. r[k - 1].end = Start(e[k - 1]) + offset[k - 1] + Len(e[k - 1].text)
      BY <1>10, <2>1
    <2>4. offset[k] = offset[k - 1] + Len(e[k - 1].text) + Start(e[k - 1]) - e[k - 1].end
      BY <1>7, <2>1
    <2>5. offset[k] \in Int /\ offset[k - 1] \in Int
      BY <1>9, <2>1
    <2>6. /\ Start(e[k]) \in Nat /\ Start(e[k - 1]) \in Nat /\ e[k - 1].end \in Nat
          /\ Len(e[k - 1].text) \in Nat
      BY <1>2, <2>1
    <2> DEFINE a == Len(e[k - 1].text)
               b == Start(e[k - 1])
               c == e[k - 1].end
               d == offset[k - 1]
               x == Start(e[k])
    <2>7. a \in Nat /\ b \in Nat /\ c \in Nat /\ d \in Int /\ x \in Nat
      BY <2>5, <2>6
    <2>8. r[k].start = x + (d + a + b - c)
      BY <2>2, <2>4
    <2>9. r[k - 1].end = b + d + a
      BY <2>3
    <2>10. r[k].start = r[k - 1].end + x - c
      <3> HIDE DEF a, b, c, d, x
      <3> QED
        BY <2>7, <2>8, <2>9
    <2> QED
      BY <2>10
  <1>14. \A k \in 1 .. n : e[k] = s[n + 1 - k]
    BY <1>2
  <1>15. \A k \in 2 .. n : /\ e[k] = s[n + 1 - k] /\ e[k - 1] = s[n + 1 - (k - 1)]
    BY <1>2, <1>14
  <1>16. n > 0 => e[1] = s[n + 1 - 1]
    BY <1>2, <1>14
  <1>17. \A k \in 2 .. n : r[k].start = r[k - 1].end + Start(s[n + 1 - k]) - s[n + 1 - (k - 1)].end
    BY <1>13, <1>15
  <1>18. /\ \A k \in 1 .. n : r[k].end = r[k].start + Len(s[n + 1 - k].text)
         /\ n > 0 => r[1].start = Start(s[n + 1 - 1])
    BY <1>11, <1>12, <1>14, <1>16
  <1> QED
    BY <1>10, <1>17, <1>18 DEF Chained, n, r

-----------------------------------------------------------------------------
(* Facts about edits, and about texts.                                     *)

\* The fields of an effect that the edits need.
LEMMA EffectFields ==
    ASSUME NEW e \in Effect
    PROVE  /\ e.start \in Nat /\ e.end \in Nat /\ e.kind \in {"Rewrite", "Insert"}
           /\ e.text \in Seq(STRING) /\ Len(e.text) \in Nat /\ Start(e) \in Nat
           /\ Start(e) = e.start \/ Start(e) = e.end
           /\ e.kind = "Rewrite" => Start(e) = e.start
           /\ e.kind = "Insert" => Start(e) = e.end
  BY DEF Effect, Start

\* What filter_out_nested leaves behind an effect does not overlap with it.
LEMMA KeptIsSeparate ==
    ASSUME NEW a \in Effect, NEW b \in Effect, NEW seen,
           a.start <= a.end, b.start <= b.end, b.end <= a.end,
           a.kind = "Rewrite" /\ b.kind = "Rewrite" => b.end <= a.start,
           ~Drops(a, b, seen)
    PROVE  Separate(a, b)
  BY EffectFields DEF Drops, Separate, Start

\* Edits of which no two overlap, sorted by sort_range_start, are in order.
LEMMA SortedInOrder ==
    ASSUME NEW e \in Effect, NEW f \in Effect,
           e.start <= e.end, f.start <= f.end,
           Separate(e, f), Later(e, f) \/ ~Later(f, e)
    PROVE  f.end <= Start(e)
  BY EffectFields DEF Later, Separate, Start

\* The ranges of edits that are in order do not overlap, and none begins in front
\* of the first edit.
LEMMA ChainedRises ==
    ASSUME NEW s \in Seq(Effect), NEW r, Chained(s, r), InOrder(s),
           \A i \in DOMAIN s : left <= Start(s[i])
    PROVE  /\ \A k, l \in 1 .. Len(s) : k < l => r[k].end <= r[l].start
           /\ \A k \in 1 .. Len(s) : left <= r[k].start /\ r[k].start <= r[k].end
  <1> DEFINE n == Len(s)
  <1>1. n \in Nat /\ DOMAIN s = 1 .. n
    OBVIOUS
  <1>2. /\ \A k \in 1 .. n : r[k] \in [start: Int, end: Int]
        /\ \A k \in 1 .. n : r[k].end = r[k].start + Len(s[n + 1 - k].text)
        /\ n > 0 => r[1].start = Start(s[n + 1 - 1])
        /\ \A k \in 2 .. n :
             r[k].start = r[k - 1].end + Start(s[n + 1 - k]) - s[n + 1 - (k - 1)].end
    <2>1. r \in Seq([start: Int, end: Int]) /\ Len(r) = n
      BY DEF Chained
    <2> HIDE DEF n
    <2>2. \A k \in 1 .. n : r[k] \in [start: Int, end: Int]
      BY <2>1, ElementOfSeq
    <2> QED
      BY <2>2 DEF Chained, n
  <1>3. \A k \in 1 .. n : n + 1 - k \in 1 .. n /\ s[n + 1 - k] \in Effect
    BY <1>1
  <1> HIDE DEF n
  <1>4. \A k \in 1 .. n : r[k].start \in Int /\ r[k].end \in Int
    BY <1>2
  <1>5. \A k \in 1 .. n : r[k].start <= r[k].end
    <2> SUFFICES ASSUME NEW k \in 1 .. n PROVE r[k].start <= r[k].end
      OBVIOUS
    <2> DEFINE a == Len(s[n + 1 - k].text)
    <2>1. a \in Nat
      BY <1>3, EffectFields
    <2>2. r[k].end = r[k].start + a
      BY <1>2
    <2> HIDE DEF a
    <2> QED
      BY <1>4, <2>1, <2>2
  <1>6. ASSUME NEW k \in 2 .. n
        PROVE  k - 1 \in 1 .. n /\ k \in 1 .. n /\ r[k - 1].end <= r[k].start
    <2>1. k - 1 \in 1 .. n /\ k \in 1 .. n /\ n + 1 - k < n + 1 - (k - 1)
      BY <1>1
    <2> DEFINE a == Start(s[n + 1 - k])
               b == s[n + 1 - (k - 1)].end
               i == n + 1 - k
               j == n + 1 - (k - 1)
    <2>2. i \in DOMAIN s /\ j \in DOMAIN s /\ i < j
      BY <1>1, <1>3, <2>1
    <2>3. b <= a
      <3>1. s[j].end <= Start(s[i])
        <4> HIDE DEF i, j
        <4> QED
          BY <2>2 DEF InOrder
      <3> QED
        BY <3>1
    <2>4. a \in Nat /\ b \in Nat
      BY <1>3, <2>1, EffectFields
    <2>5. r[k].start = r[k - 1].end + a - b
      BY <1>2
    <2> HIDE DEF a, b
    <2>6. r[k - 1].end \in Int /\ r[k].start \in Int
      BY <1>4, <2>1
    <2> QED
      BY <2>1, <2>3, <2>4, <2>5, <2>6
  <1>7. \A k, l \in 1 .. n : k < l => r[k].end <= r[l].start
    <2> SUFFICES ASSUME NEW k \in 1 .. n
                 PROVE  \A l \in 1 .. n : k < l => r[k].end <= r[l].start
      OBVIOUS
    <2> DEFINE T == {l \in 1 .. n : k < l /\ ~(r[k].end <= r[l].start)}
    <2> SUFFICES ASSUME T # {} PROVE FALSE
      OBVIOUS
    <2>1. PICK l \in T : \A x \in T : l <= x
      <3>1. T \subseteq Nat
        OBVIOUS
      <3> HIDE DEF T
      <3> QED
        BY <3>1, LeastElement
    <2>2. l \in 2 .. n /\ k < l /\ ~(r[k].end <= r[l].start)
      BY <1>1, <2>1
    <2>3. l - 1 \in 1 .. n /\ l \in 1 .. n /\ r[l - 1].end <= r[l].start
      BY <1>6, <2>2
    <2>4. k # l - 1
      BY <2>2, <2>3
    <2>5. k < l - 1
      BY <1>1, <2>2, <2>4
    <2>6. l - 1 \notin T
      <3>1. ~(l <= l - 1)
        BY <2>2
      <3> HIDE DEF T
      <3> QED
        BY <2>1, <3>1
    <2>7. r[k].end <= r[l - 1].start
      BY <2>3, <2>5, <2>6
    <2>8. r[l - 1].start <= r[l - 1].end
      BY <1>5, <2>3
    <2>9. /\ r[k].end \in Int /\ r[l - 1].start \in Int /\ r[l - 1].end \in Int
          /\ r[l].start \in Int
      BY <1>4, <2>3
    <2> HIDE DEF T
    <2> QED
      BY <2>2, <2>3, <2>7, <2>8, <2>9
  <1>8. ASSUME NEW k \in 1 .. n PROVE left <= r[k].start
    <2>1. 1 \in 1 .. n /\ n > 0
      BY <1>1
    <2>2. left <= r[1].start
      BY <1>1, <1>2, <1>3, <2>1
    <2>3. CASE k = 1
      BY <2>2, <2>3
    <2>4. CASE k > 1
      <3>1. r[1].end <= r[k].start /\ r[1].start <= r[1].end
        BY <1>5, <1>7, <2>1, <2>4
      <3>2. r[1].end \in Int /\ r[k].start \in Int /\ r[1].start \in Int
        BY <1>4, <2>1
      <3> QED
        BY <2>2, <3>1, <3>2, RangeAssumption
    <2> QED
      BY <2>3, <2>4
  <1> QED
    BY <1>5, <1>7, <1>8 DEF n

\* replace_range: what is in front of the edit and behind it stays.
LEMMA Spliced ==
    ASSUME NEW c \in Seq(STRING), NEW t \in Seq(STRING),
           NEW from \in Nat, NEW to \in Nat, from <= to, to <= Len(c)
    PROVE  LET d == SubSeq(c, 1, from) \o t \o SubSeq(c, to + 1, Len(c))
           IN  /\ d \in Seq(STRING)
               /\ Len(d) = from + Len(t) + (Len(c) - to)
               /\ \A i \in 1 .. Len(t) : d[from + i] = t[i]
               /\ \A i \in 1 .. Len(c) - to : d[from + Len(t) + i] = c[to + i]
  <1> DEFINE x == SubSeq(c, 1, from)
             y == SubSeq(c, to + 1, Len(c))
             w == x \o t
             d == SubSeq(c, 1, from) \o t \o SubSeq(c, to + 1, Len(c))
  <1>1. Len(c) \in Nat /\ Len(t) \in Nat
    OBVIOUS
  <1>2. /\ x \in Seq(STRING) /\ Len(x) = from
        /\ \A i \in 1 .. from : x[i] = c[i]
    BY <1>1
  <1>3. /\ y \in Seq(STRING) /\ Len(y) = Len(c) - to
        /\ \A i \in 1 .. Len(c) - to : y[i] = c[to + i]
    <2>1. y \in Seq(STRING) /\ Len(y) = Len(c) - to
      BY <1>1
    <2>2. ASSUME NEW i \in 1 .. Len(c) - to PROVE y[i] = c[to + i]
      BY <1>1
    <2> QED
      BY <2>1, <2>2
  <1> HIDE DEF x, y
  <1>4. /\ w \in Seq(STRING) /\ Len(w) = from + Len(t)
        /\ \A i \in 1 .. Len(t) : w[from + i] = t[i]
    <2>1. /\ w \in Seq(STRING) /\ Len(w) = Len(x) + Len(t)
          /\ \A i \in 1 .. Len(x) + Len(t) :
               w[i] = IF i <= Len(x) THEN x[i] ELSE t[i - Len(x)]
      BY <1>2, ConcatProperties
    <2> HIDE DEF w
    <2>2. ASSUME NEW i \in 1 .. Len(t) PROVE w[from + i] = t[i]
      <3>1. from + i \in 1 .. from + Len(t) /\ ~(from + i <= from) /\ (from + i) - from = i
        BY <1>1
      <3> QED
        BY <1>2, <2>1, <3>1
    <2> QED
      BY <1>2, <2>1, <2>2
  <1>5. d = w \o y
    BY DEF x, y
  <1> HIDE DEF w, d
  <1>6. /\ d \in Seq(STRING) /\ Len(d) = Len(w) + Len(y)
        /\ \A i \in 1 .. Len(w) + Len(y) :
             d[i] = IF i <= Len(w) THEN w[i] ELSE y[i - Len(w)]
    <2> DEFINE v == w \o y
    <2>1. /\ v \in Seq(STRING) /\ Len(v) = Len(w) + Len(y)
          /\ \A i \in 1 .. Len(w) + Len(y) :
               v[i] = IF i <= Len(w) THEN w[i] ELSE y[i - Len(w)]
      <3>1. w \in Seq(STRING) /\ y \in Seq(STRING)
        BY <1>3, <1>4
      <3> QED
        BY <3>1, ConcatProperties
    <2>2. d = v
      BY <1>5
    <2> HIDE DEF v
    <2> QED
      BY <2>1, <2>2
  <1>7. ASSUME NEW i \in 1 .. Len(t) PROVE d[from + i] = t[i]
    <2>1. from + i \in 1 .. Len(w) + Len(y) /\ from + i <= Len(w)
      <3>1. Len(w) = from + Len(t) /\ Len(y) = Len(c) - to
        BY <1>3, <1>4
      <3> QED
        BY <1>1, <3>1
    <2> QED
      BY <1>4, <1>6, <2>1
  <1>8. ASSUME NEW i \in 1 .. Len(c) - to PROVE d[from + Len(t) + i] = c[to + i]
    <2> DEFINE k == from + Len(t) + i
    <2>1. /\ k \in 1 .. Len(w) + Len(y) /\ ~(k <= Len(w)) /\ k - Len(w) = i
      <3>1. Len(w) = from + Len(t) /\ Len(y) = Len(c) - to
        BY <1>3, <1>4
      <3> QED
        BY <1>1, <3>1
    <2> HIDE DEF k
    <2>2. d[k] = y[i]
      BY <1>6, <2>1
    <2> QED
      BY <1>3, <2>2 DEF k
  <1> QED
    BY <1>3, <1>4, <1>6, <1>7, <1>8 DEF d

\* The tokens of a stretch of a text.
LEMMA CutOut ==
    ASSUME NEW c \in Seq(STRING), NEW at \in Nat, NEW len \in Nat, at + len <= Len(c)
    PROVE  /\ SubSeq(c, at + 1, at + len) \in Seq(STRING)
           /\ Len(SubSeq(c, at + 1, at + len)) = len
           /\ \A i \in 1 .. len : SubSeq(c, at + 1, at + len)[i] = c[at + i]
  <1>1. Len(c) \in Nat
    OBVIOUS
  <1> DEFINE x == at + 1
             y == at + len
  <1>2. x \in Int /\ y \in Int /\ \A i \in x .. y : c[i] \in STRING
    BY <1>1
  <1>3. y - x + 1 = len /\ (x <= y => y - x + 1 = len) /\ (~(x <= y) => len = 0)
        /\ \A i \in 1 .. len : x + i - 1 = at + i
    BY <1>1
  <1> HIDE DEF x, y
  <1>4. /\ SubSeq(c, x, y) \in Seq(STRING)
        /\ Len(SubSeq(c, x, y)) = IF x <= y THEN y - x + 1 ELSE 0
        /\ \A i \in 1 .. y - x + 1 : SubSeq(c, x, y)[i] = c[x + i - 1]
    BY <1>2, SubSeqProperties
  <1> QED
    BY <1>3, <1>4 DEF x, y

-----------------------------------------------------------------------------
(* One lemma for each action.                                              *)

\* The code, once the range is cut out of the source, is as long as the range.
LEMMA RangeCut ==
    /\ SubSeq(source, left + 1, right) \in Seq(STRING)
    /\ Len(SubSeq(source, left + 1, right)) = right - left
  <1>1. /\ left \in Nat /\ right \in Nat /\ left <= right /\ right <= Len(source)
        /\ source \in Seq(STRING) /\ Len(source) \in Nat
    BY RangeAssumption, SourceAssumption
  <1> QED
    BY <1>1

\* Init: nothing is selected and the text is as it was.
LEMMA InitWrites ==
    ASSUME Init
    PROVE  EditInv
  <1>1. /\ input \in Seq(Effect) /\ effects = input /\ phase = "sort" /\ rest = 0
        /\ top_level = <<>> /\ top_level_open = right /\ next = 1
        /\ output_ranges = <<>> /\ code = SubSeq(source, left + 1, right)
    BY InputFacts DEF Init
  <1>2. inserts \in [0 .. Len(source) -> SUBSET Seq(STRING)]
    BY DEF Init
  <1>3. code \in Seq(STRING) /\ Len(code) = right - left
    BY <1>1, RangeCut
  <1>4. rest \in 0 .. Len(effects)
    BY <1>1
  <1>5. TypeOK
    BY <1>1, <1>2, <1>3, <1>4, RangeAssumption DEF TypeOK
  <1> QED
    BY <1>1, <1>3, <1>5 DEF EditInv

\* earliest_deadline_sort, the sort: as many effects as before.
LEMMA SortWrites ==
    ASSUME IInv, EditInv, Sort
    PROVE  EditInv'
  <1>1. /\ phase = "sort" /\ phase' = "check" /\ input' = input /\ rest' = rest
        /\ top_level' = top_level /\ top_level_open' = top_level_open
        /\ inserts' = inserts /\ next' = next /\ output_ranges' = output_ranges
        /\ code' = code
    BY DEF Sort
  <1>2. effects' \in Seq(Effect)
    BY SortSorts DEF EndSorted
  <1>3. rest = 0 /\ Len(code) = right - left /\ TypeOK
    BY <1>1 DEF EditInv
  <1>4. rest' \in 0 .. Len(effects')
    BY <1>1, <1>2, <1>3
  <1>5. TypeOK'
    BY <1>1, <1>2, <1>3, <1>4 DEF TypeOK
  <1> QED
    BY <1>1, <1>3, <1>5 DEF EditInv

\* .. and its test: nothing is selected before it.
LEMMA CheckWrites ==
    ASSUME IInv, EditInv, CheckNeighbours
    PROVE  EditInv'
  <1>1. /\ phase = "check" /\ phase' \in {"rejected", "select"} /\ input' = input
        /\ effects' = effects /\ rest' = Len(effects)
        /\ top_level' = top_level /\ top_level_open' = top_level_open
        /\ inserts' = inserts /\ next' = next /\ output_ranges' = output_ranges
        /\ code' = code
    BY DEF CheckNeighbours
  <1>2. Len(code) = right - left /\ TypeOK
    BY <1>1 DEF EditInv
  <1>3. rest' \in 0 .. Len(effects')
    BY <1>1, <1>2 DEF TypeOK
  <1>4. TypeOK'
    BY <1>1, <1>2, <1>3 DEF TypeOK
  <1>5. top_level' = <<>>
    BY <1>1 DEF IInv, Fresh
  <1>6. AllPlaced' /\ Falling' /\ NotBehind'
    BY <1>5 DEF AllPlaced, Falling, NotBehind
  <1> QED
    BY <1>1, <1>2, <1>4, <1>6 DEF EditInv

\* An effect that is chosen lies within the range, and ends no later than those
\* chosen before it: those still to be looked at end before it.
LEMMA ChooseWrites ==
    ASSUME IInv, EditInv, SelectInsert \/ SelectRewrite
    PROVE  EditInv'
  <1> DEFINE e == effects[rest]
             n == Len(top_level)
  <1>1. /\ phase = "select" /\ phase' = "select" /\ rest > 0 /\ rest' = rest - 1
        /\ top_level' = Append(top_level, e)
        /\ input' = input /\ effects' = effects /\ inserts' = inserts /\ next' = next
        /\ output_ranges' = output_ranges /\ code' = code
    BY DEF SelectInsert, SelectRewrite, Selecting, Choose, Current
  <1>2. /\ TypeOK /\ AllPlaced /\ Falling /\ NotBehind /\ Len(code) = right - left
        /\ EndSorted
    BY <1>1 DEF EditInv, IInv
  <1>3. /\ effects \in Seq(Effect) /\ rest \in DOMAIN effects /\ rest \in Nat
        /\ e \in Effect /\ top_level \in Seq(Effect)
        /\ rest \in 1 .. Len(effects) /\ Len(effects) \in Nat
    BY <1>1, <1>2 DEF TypeOK
  <1>4. /\ n \in Nat /\ DOMAIN top_level = 1 .. n /\ DOMAIN top_level' = 1 .. n + 1
        /\ top_level' \in Seq(Effect) /\ top_level'[n + 1] = e
        /\ \A k \in 1 .. n : top_level'[k] = top_level[k] /\ top_level[k] \in Effect
    BY <1>1, <1>3
  <1>5. e.start <= e.end
    <2>1. \A j \in DOMAIN input : input[j].start <= input[j].end
      BY InputFacts DEF IInv
    <2> QED
      BY <1>2, <1>3, <2>1 DEF EndSorted
  <1> HIDE DEF e, n
  <1>6. /\ e.start \in Nat /\ e.end \in Nat /\ e.kind \in {"Rewrite", "Insert"}
        /\ left \in Nat /\ right \in Nat /\ top_level_open \in left .. right
    BY <1>2, <1>3, EffectFields, RangeAssumption DEF TypeOK
  <1>7. Placed(e) /\ top_level_open' \in left .. right
    <2>1. CASE SelectInsert
      <3>1. /\ e.kind = "Insert" /\ e.start >= left /\ e.end <= right
            /\ top_level_open' = top_level_open
        BY <2>1 DEF SelectInsert, InsertInRange, Current, e
      <3> QED
        BY <1>5, <1>6, <3>1 DEF Placed, Start
    <2>2. CASE SelectRewrite
      <3>1. /\ ~InsertInRange(e) /\ e.start >= left /\ e.end <= top_level_open
            /\ top_level_open' = e.start
        BY <2>2 DEF SelectRewrite, Current, e
      <3>2. e.kind = "Rewrite"
        BY <1>6, <3>1 DEF InsertInRange
      <3>3. Start(e) = e.start
        BY <3>2 DEF Start
      <3> QED
        BY <1>5, <1>6, <3>1, <3>3 DEF Placed
    <2> QED
      BY <2>1, <2>2
  <1>8. AllPlaced'
    <2> SUFFICES ASSUME NEW i \in 1 .. n + 1 PROVE Placed(top_level'[i])
      BY <1>4 DEF AllPlaced, Placed
    <2>1. CASE i = n + 1
      BY <1>4, <1>7, <2>1
    <2>2. CASE i \in 1 .. n
      BY <1>2, <1>4, <2>2 DEF AllPlaced
    <2> QED
      BY <1>4, <2>1, <2>2
  <1>9. \A k \in 1 .. n : e.end <= top_level[k].end
    <2>1. \A k \in DOMAIN top_level, m \in 1 .. rest : effects[m].end <= top_level[k].end
      BY <1>2 DEF NotBehind
    <2>2. rest \in 1 .. rest
      BY <1>1, <1>3
    <2> QED
      BY <1>4, <2>1, <2>2 DEF e
  <1>10. Falling'
    <2> SUFFICES ASSUME NEW i \in 1 .. n + 1, NEW j \in 1 .. n + 1, i < j
                 PROVE  top_level'[j].end <= top_level'[i].end
      BY <1>4 DEF Falling
    <2>1. i \in 1 .. n
      BY <1>4
    <2>2. CASE j = n + 1
      BY <1>4, <1>9, <2>1, <2>2
    <2>3. CASE j \in 1 .. n
      BY <1>2, <1>4, <2>1, <2>3 DEF Falling
    <2> QED
      BY <1>4, <2>2, <2>3
  <1>11. NotBehind'
    <2> SUFFICES ASSUME NEW k \in 1 .. n + 1, NEW m \in 1 .. rest - 1
                 PROVE  effects[m].end <= top_level'[k].end
      BY <1>1, <1>4 DEF NotBehind
    <2>1. m \in 1 .. rest /\ m \in DOMAIN effects /\ m < rest
      BY <1>3
    <2>2. CASE k = n + 1
      <3>1. effects[m].end <= e.end
        BY <1>2, <1>3, <2>1 DEF EndSorted, Ordered, e
      <3> QED
        BY <1>4, <2>2, <3>1
    <2>3. CASE k \in 1 .. n
      BY <1>2, <1>4, <2>1, <2>3 DEF NotBehind
    <2> QED
      BY <1>4, <2>2, <2>3
  <1>12. rest' \in 0 .. Len(effects')
    BY <1>1, <1>3
  <1>13. TypeOK'
    BY <1>1, <1>2, <1>4, <1>7, <1>12 DEF TypeOK
  <1> QED
    BY <1>1, <1>2, <1>8, <1>10, <1>11, <1>13 DEF EditInv

\* An effect that is not chosen changes nothing.
LEMMA SkipWrites ==
    ASSUME IInv, EditInv, SelectSkip
    PROVE  EditInv'
  <1>1. /\ phase = "select" /\ phase' = "select" /\ rest > 0 /\ rest' = rest - 1
        /\ top_level' = top_level /\ top_level_open' = top_level_open
        /\ input' = input /\ effects' = effects /\ inserts' = inserts /\ next' = next
        /\ output_ranges' = output_ranges /\ code' = code
    BY DEF SelectSkip, Selecting
  <1>2. TypeOK /\ AllPlaced /\ Falling /\ NotBehind /\ Len(code) = right - left
    BY <1>1 DEF EditInv
  <1>3. rest \in 0 .. Len(effects) /\ Len(effects) \in Nat
    BY <1>2 DEF TypeOK
  <1>4. rest' \in 0 .. Len(effects')
    BY <1>1, <1>3
  <1>5. TypeOK'
    BY <1>1, <1>2, <1>4 DEF TypeOK
  <1>6. AllPlaced' /\ Falling'
    BY <1>1, <1>2 DEF AllPlaced, Falling, Placed
  <1>7. NotBehind'
    BY <1>1, <1>2, <1>3 DEF NotBehind
  <1> QED
    BY <1>1, <1>2, <1>5, <1>6, <1>7 DEF EditInv

\* is_sorted_descending holds of what was selected.
LEMMA SelectDoneWrites ==
    ASSUME IInv, EditInv, SelectDone
    PROVE  EditInv'
  <1>1. /\ phase = "select" /\ rest' = rest
        /\ phase' = IF Descending(top_level) THEN "filter" ELSE "error"
        /\ top_level' = top_level /\ top_level_open' = top_level_open
        /\ input' = input /\ effects' = effects /\ inserts' = inserts /\ next' = next
        /\ output_ranges' = output_ranges /\ code' = code
    BY DEF SelectDone
  <1>2. /\ TypeOK /\ AllPlaced /\ Falling /\ Len(code) = right - left
        /\ ChosenBehind /\ next = 1
    BY <1>1 DEF EditInv, IInv, Selected
  <1>3. top_level \in Seq(Effect)
    BY <1>2 DEF TypeOK
  <1>4. Descending(top_level)
    <2> SUFFICES ASSUME NEW i \in 1 .. Len(top_level) - 1
                 PROVE  top_level[i].end >= top_level[i + 1].end
      BY DEF Descending
    <2>1. i \in DOMAIN top_level /\ i + 1 \in DOMAIN top_level /\ i < i + 1
      BY <1>3
    <2>2. top_level[i] \in Effect /\ top_level[i + 1] \in Effect
      BY <1>3, <2>1
    <2>3. top_level[i + 1].end <= top_level[i].end
      BY <1>2, <2>1 DEF Falling
    <2> QED
      BY <2>2, <2>3, EffectFields
  <1>5. phase' = "filter"
    BY <1>1, <1>4
  <1>6. TypeOK'
    BY <1>1, <1>2, <1>5 DEF TypeOK
  <1>7. AllPlaced' /\ Falling'
    BY <1>1, <1>2 DEF AllPlaced, Falling, Placed
  <1>8. RewritesApart'
    BY <1>1, <1>2 DEF ChosenBehind, RewritesApart
  <1>9. SeparateUpto(next)'
    <2>1. \A i \in DOMAIN top_level : ~(i < 1)
      BY <1>3
    <2> QED
      BY <1>1, <1>2, <2>1 DEF SeparateUpto
  <1> QED
    BY <1>1, <1>2, <1>5, <1>6, <1>7, <1>8, <1>9 DEF EditInv

\* What a round of filter_out_nested keeps.
Kept ==
    LET a == top_level[next]
    IN  {k \in DOMAIN top_level :
            k <= next \/ ~Drops(a, top_level[k], inserts[a.end] \union {a.text})}
\* f says where it was: in the same order, and up to next at the same places.
KeptFrom(f) ==
    /\ f \in [DOMAIN top_level' -> Kept]
    /\ \A i \in DOMAIN top_level' : top_level'[i] = top_level[f[i]]
    /\ \A i, j \in DOMAIN top_level' : i < j => f[i] < f[j]
    /\ \A k \in Kept : \E i \in DOMAIN top_level' : f[i] = k
    /\ \A i \in 1 .. next : i \in DOMAIN top_level' /\ f[i] = i

\* There is such an f.
LEMMA FilterKeeps ==
    ASSUME IInv, EditInv, FilterNested
    PROVE  /\ top_level' \in Seq(Effect)
           /\ next \in DOMAIN top_level
           /\ \E f : KeptFrom(f)
  <1> DEFINE t == top_level
             n == Len(top_level)
             K == Kept
             u == Subsequence(top_level, K)
             c == Cardinality(K)
  <1>1. phase = "filter" /\ next <= n /\ top_level' = u
    BY DEF FilterNested, Kept
  <1>2. TypeOK /\ next \in Nat \ {0}
    BY DEF EditInv, IInv
  <1>3. /\ t \in Seq(Effect) /\ n \in Nat /\ DOMAIN t = 1 .. n /\ next \in 1 .. n
        /\ \A k \in 1 .. n : t[k] \in Effect
        /\ next \in Nat
    BY <1>1, <1>2 DEF TypeOK
  <1>5. /\ K \in SUBSET (1 .. n) /\ \A k \in 1 .. next : k \in K
    <2>1. DOMAIN t = 1 .. n /\ \A k \in 1 .. next : k \in DOMAIN t /\ k <= next
      BY <1>3
    <2> QED
      BY <2>1 DEF Kept
  <1> HIDE DEF K, n
  <1>6. c \in Nat /\ \E f : PicksInOrder(t, K, f)
    BY <1>3, <1>5, SubsequenceOrder
  <1>7. PICK f : PicksInOrder(t, K, f)
    BY <1>6
  <1> HIDE DEF c, u, t
  <1>8. /\ f \in [1 .. c -> K] /\ u = [i \in 1 .. c |-> t[f[i]]]
        /\ \A i, j \in 1 .. c : i < j => f[i] < f[j]
        /\ \A x \in K : \E i \in 1 .. c : f[i] = x
    BY <1>7 DEF PicksInOrder, c, u, t
  <1>9. \A i \in 1 .. c : /\ f[i] \in K /\ f[i] \in 1 .. n
                          /\ u[i] = t[f[i]] /\ u[i] \in Effect
    BY <1>3, <1>5, <1>8
  <1>10. u \in Seq(Effect) /\ DOMAIN u = 1 .. c
    BY <1>6, <1>8, <1>9
  \* The places up to next are all taken, so they are the first next ones.
  <1>11. \A i \in 1 .. c : i <= next => f[i] = i
    <2> DEFINE T == {i \in 1 .. c : i <= next /\ f[i] # i}
    <2> SUFFICES ASSUME T # {} PROVE FALSE
      OBVIOUS
    <2>1. PICK i \in T : \A x \in T : i <= x
      <3>1. T \subseteq Nat
        OBVIOUS
      <3> HIDE DEF T
      <3> QED
        BY <3>1, LeastElement
    <2>2. i \in 1 .. c /\ i <= next /\ f[i] # i /\ i \in Nat
      BY <1>6, <2>1
    <2>3. \A j \in 1 .. c : j < i => f[j] = j
      <3> SUFFICES ASSUME NEW j \in 1 .. c, j < i PROVE f[j] = j
        OBVIOUS
      <3>1. j \notin T
        <4>1. ~(i <= j)
          BY <1>6, <2>2
        <4> HIDE DEF T
        <4> QED
          BY <2>1, <4>1
      <3>2. j <= next
        BY <1>3, <1>6, <2>2
      <3> QED
        BY <3>1, <3>2
    <2> HIDE DEF T
    <2>4. PICK j \in 1 .. c : f[j] = i
      <3>1. i \in K
        BY <1>3, <1>5, <2>2
      <3> QED
        BY <1>8, <3>1
    <2>5. f[i] \in Nat /\ j \in Nat
      BY <1>6, <1>9, <2>2, <2>4
    <2>6. ~(j < i)
      BY <2>2, <2>3, <2>4, <2>5
    <2>7. j # i
      BY <2>2, <2>4
    <2>8. i < j
      BY <2>2, <2>5, <2>6, <2>7
    <2>9. f[i] < i
      BY <1>8, <2>2, <2>4, <2>8
    <2>10. \E k \in 1 .. c : f[k] = f[i] /\ k = f[i] /\ k < i
      <3>1. f[i] \in 1 .. c /\ f[i] < i
        BY <1>6, <1>9, <2>2, <2>9
      <3>2. f[f[i]] = f[i]
        BY <2>3, <3>1
      <3> QED
        BY <3>1, <3>2
    <2>11. PICK k \in 1 .. c : f[k] = f[i] /\ k < i
      BY <2>10
    <2>12. f[k] < f[i]
      BY <1>8, <2>2, <2>11
    <2> QED
      BY <2>5, <2>11, <2>12
  <1>12. \A i \in 1 .. next : i \in 1 .. c
    <2> SUFFICES ASSUME NEW i \in 1 .. next PROVE i \in 1 .. c
      OBVIOUS
    <2>1. PICK j \in 1 .. c : f[j] = i
      BY <1>5, <1>8
    <2>2. CASE j <= next
      BY <1>11, <2>1, <2>2
    <2>3. CASE ~(j <= next)
      BY <1>3, <1>6, <2>3
    <2> QED
      BY <2>2, <2>3
  <1>13. KeptFrom(f)
    <2>1. DOMAIN top_level' = 1 .. c /\ top_level' = u
      BY <1>1, <1>10
    <2>2. \A i \in 1 .. next : i <= next
      BY <1>3
    <2> QED
      BY <1>8, <1>9, <1>11, <1>12, <2>1, <2>2 DEF KeptFrom, K, t
  <1> QED
    BY <1>1, <1>3, <1>10, <1>13 DEF t, n

\* One round of filter_out_nested: those in front of the one of this round stay
\* where they are, and those that stay behind it do not overlap with it.
LEMMA FilterWrites ==
    ASSUME IInv, EditInv, FilterNested
    PROVE  EditInv'
  <1> DEFINE t == top_level
             n == Len(top_level)
             a == top_level[next]
             seen == inserts[a.end] \union {a.text}
             u == top_level'
             D == DOMAIN top_level'
  <1>1. /\ phase = "filter" /\ phase' = "filter" /\ next <= n /\ next' = next + 1
        /\ rest' = rest /\ top_level_open' = top_level_open
        /\ input' = input /\ effects' = effects
        /\ output_ranges' = output_ranges /\ code' = code
        /\ inserts' = [inserts EXCEPT ![a.end] = seen]
    BY DEF FilterNested
  <1>2. /\ TypeOK /\ AllPlaced /\ Falling /\ RewritesApart /\ SeparateUpto(next)
        /\ Len(code) = right - left /\ next \in Nat \ {0}
    BY <1>1 DEF EditInv, IInv
  <1>3. /\ t \in Seq(Effect) /\ n \in Nat /\ DOMAIN t = 1 .. n /\ next \in 1 .. n
        /\ \A k \in 1 .. n : t[k] \in Effect
        /\ a = t[next] /\ a \in Effect /\ next \in Nat
    BY <1>1, <1>2 DEF TypeOK
  <1>4. \A k \in 1 .. n : Placed(t[k])
    BY <1>2, <1>3 DEF AllPlaced
  <1>5. \A k \in Kept : k \in 1 .. n /\ (k > next => ~Drops(a, t[k], seen))
    <2>1. \A k \in 1 .. n : k > next => ~(k <= next)
      BY <1>3
    <2> QED
      BY <1>3, <2>1 DEF Kept
  <1>6. u \in Seq(Effect) /\ D = 1 .. Len(u) /\ Len(u) \in Nat
    BY FilterKeeps
  <1>7. PICK f : KeptFrom(f)
    BY FilterKeeps
  <1> HIDE DEF seen, a, n, t, D, u
  <1>8. \A i \in D : /\ f[i] \in Kept /\ f[i] \in 1 .. n
                     /\ u[i] = t[f[i]] /\ u[i] \in Effect
    BY <1>3, <1>5, <1>7 DEF KeptFrom, D, t, u
  <1>11. \A i \in D : i <= next => f[i] = i
    BY <1>3, <1>6, <1>7 DEF KeptFrom, D
  <1>12. \A i, j \in D : i < j => f[i] < f[j] /\ f[i] \in 1 .. n /\ f[j] \in 1 .. n
    BY <1>7, <1>8 DEF KeptFrom, D
  <1>13. AllPlaced'
    BY <1>1, <1>4, <1>8, <1>6 DEF AllPlaced, Placed, D, u
  <1>14. Falling'
    BY <1>1, <1>2, <1>3, <1>8, <1>6, <1>12 DEF Falling, t, D, u
  <1>15. RewritesApart'
    BY <1>1, <1>2, <1>3, <1>8, <1>6, <1>12 DEF RewritesApart, t, D, u
  <1>16. SeparateUpto(next)'
    <2> SUFFICES ASSUME NEW i \in D, NEW j \in D, i < j, i < next + 1
                 PROVE  Separate(u[i], u[j])
      BY <1>1, <1>6 DEF SeparateUpto, D, u
    <2>1. /\ f[i] = i /\ f[i] < f[j] /\ f[i] \in 1 .. n /\ f[j] \in 1 .. n /\ f[j] \in Kept
          /\ u[i] = t[i] /\ u[j] = t[f[j]]
      <3>1. i <= next
        BY <1>3, <1>6
      <3> QED
        BY <1>8, <1>11, <1>12, <3>1
    <2>2. CASE i < next
      BY <1>2, <1>3, <2>1, <2>2 DEF SeparateUpto, t
    <2>3. CASE i = next
      <3> DEFINE b == t[f[j]]
      <3>1. a \in Effect /\ b \in Effect /\ Placed(a) /\ Placed(b)
        BY <1>3, <1>4, <2>1
      <3>2. ~Drops(a, b, seen)
        BY <1>3, <1>5, <2>1, <2>3
      <3>3. b.end <= a.end
        BY <1>2, <1>3, <2>1, <2>3 DEF Falling, t
      <3>4. a.kind = "Rewrite" /\ b.kind = "Rewrite" => b.end <= a.start
        BY <1>2, <1>3, <2>1, <2>3 DEF RewritesApart, t
      <3> HIDE DEF b
      <3>5. Separate(a, b)
        BY <3>1, <3>2, <3>3, <3>4, KeptIsSeparate DEF Placed
      <3> QED
        BY <1>3, <2>1, <2>3, <3>5 DEF b
    <2> QED
      BY <1>3, <1>6, <2>2, <2>3
  <1>17. inserts' \in [0 .. Len(source) -> SUBSET Seq(STRING)]
    <2>1. a.end \in Nat /\ a.text \in Seq(STRING) /\ a.end <= right
      BY <1>3, <1>4, EffectFields DEF Placed
    <2>2. a.end \in 0 .. Len(source)
      BY <2>1, RangeAssumption, SourceAssumption
    <2>3. inserts \in [0 .. Len(source) -> SUBSET Seq(STRING)]
      BY <1>2 DEF TypeOK
    <2>4. seen \in SUBSET Seq(STRING)
      BY <2>1, <2>2, <2>3 DEF seen
    <2> QED
      BY <1>1, <2>2, <2>3, <2>4
  <1>18. TypeOK'
    BY <1>1, <1>2, <1>3, <1>6, <1>17 DEF TypeOK, u
  <1> QED
    BY <1>1, <1>2, <1>13, <1>14, <1>15, <1>16, <1>18 DEF EditInv

\* After the sort no two edits overlap, and the output ranges follow from their
\* places and the length of their texts: neither of the two checks fails.
LEMMA ArrangeWrites ==
    ASSUME IInv, EditInv, Arrange
    PROVE  EditInv'
  <1> DEFINE n == Len(top_level)
             t == top_level
             u == top_level'
             r == output_ranges'
  <1>1. /\ phase = "filter" /\ next > n /\ next' = 1
        /\ rest' = rest /\ top_level_open' = top_level_open
        /\ input' = input /\ effects' = effects /\ inserts' = inserts /\ code' = code
        /\ r = IF Overlaps(u) THEN <<>> ELSE OutputRanges(u)
        /\ phase' = IF Overlaps(u) \/ \E k \in DOMAIN r : r[k].start < 0
                    THEN "error" ELSE "write"
    BY DEF Arrange
  <1>2. /\ TypeOK /\ AllPlaced /\ Falling /\ RewritesApart /\ SeparateUpto(next)
        /\ Len(code) = right - left /\ next \in Nat \ {0}
    BY <1>1 DEF EditInv, IInv
  <1>3. PICK p \in Orders(t) : /\ SortedBy(t, p, Later)
                               /\ u = [i \in DOMAIN t |-> t[p[i]]]
    BY DEF Arrange
  <1>4. /\ t \in Seq(Effect) /\ n \in Nat /\ DOMAIN t = 1 .. n
        /\ \A k \in 1 .. n : t[k] \in Effect /\ Placed(t[k])
    BY <1>2 DEF TypeOK, AllPlaced
  <1>5. /\ p \in [1 .. n -> 1 .. n]
        /\ \A i, j \in 1 .. n : p[i] = p[j] => i = j
    BY <1>3, <1>4 DEF Orders
  <1> HIDE DEF n, t, u, r
  <1>6. /\ DOMAIN u = 1 .. n
        /\ \A i \in 1 .. n : /\ p[i] \in 1 .. n /\ u[i] = t[p[i]]
                             /\ u[i] \in Effect /\ Placed(u[i])
    BY <1>3, <1>4, <1>5
  <1>7. u \in Seq(Effect) /\ Len(u) = n
    <2>1. u \in [1 .. n -> Effect]
      BY <1>3, <1>4, <1>5
    <2> QED
      BY <1>4, <2>1
  <1>8. \A i, j \in 1 .. n : i # j => Separate(t[i], t[j])
    <2> SUFFICES ASSUME NEW i \in 1 .. n, NEW j \in 1 .. n, i # j
                 PROVE  Separate(t[i], t[j])
      OBVIOUS
    <2>1. CASE i < j
      <3>1. i < next
        BY <1>1, <1>2, <1>4
      <3> QED
        BY <1>2, <1>4, <2>1, <3>1 DEF SeparateUpto, t
    <2>2. CASE j < i
      <3>1. j < next
        BY <1>1, <1>2, <1>4
      <3>2. Separate(t[j], t[i])
        BY <1>2, <1>4, <2>2, <3>1 DEF SeparateUpto, t
      <3> QED
        BY <3>2 DEF Separate
    <2> QED
      BY <1>4, <2>1, <2>2
  <1>9. InOrder(u)
    <2> SUFFICES ASSUME NEW i \in 1 .. n, NEW j \in 1 .. n, i < j
                 PROVE  u[j].end <= Start(u[i])
      BY <1>6 DEF InOrder
    <2>1. /\ u[i] = t[p[i]] /\ u[j] = t[p[j]] /\ p[i] # p[j]
          /\ p[i] \in 1 .. n /\ p[j] \in 1 .. n
      BY <1>4, <1>5, <1>6
    <2>2. Separate(u[i], u[j])
      BY <1>8, <2>1
    <2>3. Later(u[i], u[j]) \/ ~Later(u[j], u[i])
      BY <1>3, <1>4, <2>1 DEF SortedBy
    <2>4. /\ u[i] \in Effect /\ u[j] \in Effect
          /\ u[i].start <= u[i].end /\ u[j].start <= u[j].end
      BY <1>6 DEF Placed
    <2> QED
      BY <2>2, <2>3, <2>4, SortedInOrder
  <1>10. ~Overlaps(u)
    <2> SUFFICES ASSUME NEW i \in 1 .. n - 1 PROVE ~(Start(u[i]) < u[i + 1].end)
      BY <1>7 DEF Overlaps
    <2>1. i \in 1 .. n /\ i + 1 \in 1 .. n /\ i < i + 1
      BY <1>4
    <2>2. u[i + 1].end <= Start(u[i])
      BY <1>6, <1>9, <2>1 DEF InOrder
    <2>3. u[i + 1].end \in Nat /\ Start(u[i]) \in Nat
      BY <1>6, <2>1, EffectFields
    <2> QED
      BY <2>2, <2>3
  <1>11. Chained(u, r)
    BY <1>1, <1>7, <1>10, OutputRangesChained
  <1>12. /\ \A k, l \in 1 .. n : k < l => r[k].end <= r[l].start
         /\ \A k \in 1 .. n : left <= r[k].start /\ r[k].start <= r[k].end
    <2>1. \A i \in DOMAIN u : left <= Start(u[i])
      BY <1>6 DEF Placed
    <2> QED
      BY <1>7, <1>9, <1>11, <2>1, ChainedRises
  <1>13. r \in Seq([start: Int, end: Int]) /\ Len(r) = n
    BY <1>7, <1>11 DEF Chained
  <1>14. \A k \in 1 .. n : r[k] \in [start: Nat, end: Nat]
    <2> SUFFICES ASSUME NEW k \in 1 .. n PROVE r[k] \in [start: Nat, end: Nat]
      OBVIOUS
    <2>1. r[k] \in [start: Int, end: Int]
      BY <1>13, ElementOfSeq
    <2>2. r[k].start \in Nat /\ r[k].end \in Nat
      BY <1>12, <2>1, RangeAssumption
    <2> QED
      BY <2>1, <2>2
  <1>15. r \in Seq([start: Nat, end: Nat])
    <2> DEFINE Out == [start: Nat, end: Nat]
    <2>1. DOMAIN r = 1 .. n /\ r = [k \in 1 .. n |-> r[k]]
      BY <1>13
    <2>2. \A k \in 1 .. n : r[k] \in Out
      BY <1>14
    <2> HIDE DEF Out
    <2>3. r \in [1 .. n -> Out]
      BY <2>1, <2>2
    <2>4. r \in Seq(Out)
      BY <1>4, <2>3
    <2> QED
      BY <2>4 DEF Out
  <1>16. phase' = "write"
    <2>1. \A k \in DOMAIN r : ~(r[k].start < 0)
      <3>1. DOMAIN r = 1 .. n
        BY <1>13
      <3> QED
        BY <1>14, <3>1
    <2> QED
      BY <1>1, <1>10, <2>1
  <1>17. TypeOK'
    BY <1>1, <1>2, <1>7, <1>15, <1>16 DEF TypeOK, u, r
  <1>18. AllPlaced'
    BY <1>6 DEF AllPlaced, Placed, u
  <1>19. InOrder(top_level)' /\ Chained(top_level, output_ranges)'
    BY <1>9, <1>11 DEF u, r, InOrder, Chained
  <1>20. RangesRise'
    BY <1>7, <1>12 DEF RangesRise, u, r
  <1>21. Unwritten' = n /\ Len(top_level)' = n
    BY <1>1, <1>4, <1>7 DEF Unwritten, u
  <1>22. WrittenShown'
    <2>1. \A k \in n + 1 .. n : FALSE
      BY <1>4
    <2> QED
      BY <1>21, <2>1 DEF WrittenShown
  <1>23. (Unwritten \in 0 .. Len(top_level))' /\ (Len(code) = right - left)'
    BY <1>1, <1>2, <1>4, <1>21
  <1> QED
    BY <1>16, <1>17, <1>18, <1>19, <1>20, <1>22, <1>23 DEF EditInv

\* replace_range writes within the text, and what was written behind the edit
\* moves by what the edit makes the text grow.
LEMMA WriteWrites ==
    ASSUME IInv, EditInv, Write
    PROVE  EditInv'
  <1> DEFINE n == Len(top_level)
             m == Unwritten
             e == top_level[next]
             from == Start(e) - left
             to == e.end - left
             size == Len(code)
             grown == Len(e.text)
  <1>1. /\ phase = "write" /\ next <= n /\ next' = next + 1
        /\ rest' = rest /\ top_level_open' = top_level_open
        /\ input' = input /\ effects' = effects /\ inserts' = inserts
        /\ top_level' = top_level /\ output_ranges' = output_ranges
    BY DEF Write
  <1>2. /\ TypeOK /\ AllPlaced /\ InOrder(top_level) /\ Chained(top_level, output_ranges)
        /\ RangesRise /\ m \in 0 .. n /\ (m = n => size = right - left)
        /\ WrittenShown /\ next \in Nat \ {0}
    BY <1>1 DEF EditInv, IInv
  <1>3. /\ top_level \in Seq(Effect) /\ n \in Nat /\ DOMAIN top_level = 1 .. n
        /\ next \in 1 .. n /\ m \in 1 .. n /\ m = n + 1 - next /\ n + 1 - m = next
        /\ e \in Effect /\ Placed(e) /\ size \in Nat /\ code \in Seq(STRING)
    <2>1. /\ top_level \in Seq(Effect) /\ n \in Nat /\ DOMAIN top_level = 1 .. n
          /\ code \in Seq(STRING)
      BY <1>2 DEF TypeOK
    <2>2. next \in 1 .. n /\ m = n + 1 - next
      BY <1>1, <1>2, <2>1 DEF Unwritten
    <2> QED
      BY <1>2, <2>1, <2>2 DEF AllPlaced
  <1>4. Edit(m) = e
    BY <1>3 DEF Edit
  <1>5. \A k \in 1 .. n : Edit(k) \in Effect
    BY <1>3 DEF Edit
  <1>6. \A k \in 1 .. n : /\ output_ranges[k].start \in Nat
                          /\ output_ranges[k].end \in Nat
    <2>1. output_ranges \in Seq([start: Nat, end: Nat]) /\ Len(output_ranges) = n
      BY <1>2 DEF TypeOK, Chained
    <2> HIDE DEF n
    <2>2. \A k \in 1 .. n : output_ranges[k] \in [start: Nat, end: Nat]
      BY <2>1, ElementOfSeq
    <2> QED
      BY <2>2
  <1>7. /\ e.end \in Nat /\ Start(e) \in Nat /\ Start(e) <= e.end
        /\ e.text \in Seq(STRING) /\ grown \in Nat /\ left \in Nat /\ right \in Nat
        /\ from \in Nat /\ to \in Nat /\ from <= to /\ e.end <= right
    <2>1. /\ e.end \in Nat /\ Start(e) \in Nat /\ Start(e) <= e.end
          /\ e.text \in Seq(STRING) /\ grown \in Nat /\ left \in Nat /\ right \in Nat
          /\ left <= Start(e) /\ e.end <= right
      <3>1. e \in Effect /\ Placed(e)
        BY <1>3
      <3> HIDE DEF e
      <3> QED
        BY <3>1, EffectFields, RangeAssumption DEF Placed
    <2> QED
      BY <2>1
  <1> HIDE DEF n, m, e, size, grown
  \* The next edit behind is already in the code, and begins no earlier.
  <1>8. ASSUME NEW k \in m + 1 .. n
        PROVE  /\ ShownAt(Edit(k).text, output_ranges[k].start - Growth(m) - left)
               /\ to <= output_ranges[k].start - Growth(m) - left
    <2>1. ShownAt(Edit(k).text, output_ranges[k].start - Growth(m) - left)
      BY <1>2 DEF WrittenShown, m, n
    <2>2. output_ranges[m].end <= output_ranges[k].start
      <3>1. k \in 1 .. n /\ m < k
        BY <1>3
      <3> QED
        BY <1>2, <1>3, <3>1 DEF RangesRise, n
    <2>3. Growth(m) = output_ranges[m].end - e.end
      BY <1>3, <1>4 DEF Growth
    <2>4. output_ranges[m].end \in Nat /\ output_ranges[k].start \in Nat
      BY <1>3, <1>6
    <2>5. to <= output_ranges[k].start - Growth(m) - left
      <3> DEFINE x == output_ranges[m].end
                 y == output_ranges[k].start
                 g == Growth(m)
                 en == e.end
      <3>1. x \in Nat /\ y \in Nat /\ en \in Nat /\ left \in Nat
        BY <1>7, <2>4
      <3>2. x <= y /\ g = x - en /\ to = en - left
        BY <2>2, <2>3
      <3> HIDE DEF x, y, g, en, to
      <3>3. to <= y - g - left
        BY <3>1, <3>2
      <3> QED
        BY <3>3 DEF y, g
    <2> QED
      BY <2>1, <2>5
  <1>9. to <= size
    <2>1. CASE m = n
      BY <1>2, <1>7, <2>1, RangeAssumption
    <2>2. CASE m # n
      <3> DEFINE at == output_ranges[n].start - Growth(m) - left
                 len == Len(Edit(n).text)
      <3>1. n \in m + 1 .. n /\ n \in 1 .. n
        BY <1>3, <2>2
      <3>2. to <= at /\ at + len <= size
        BY <1>8, <3>1 DEF ShownAt, size
      <3>3. len \in Nat
        BY <1>5, <3>1, EffectFields
      <3>4. at \in Int
        <4>1. Growth(m) \in Int
          BY <1>3, <1>4, <1>6, <1>7 DEF Growth
        <4> QED
          BY <1>6, <1>7, <3>1, <4>1
      <3> HIDE DEF at, len
      <3> QED
        BY <1>3, <1>7, <3>2, <3>3, <3>4
    <2> QED
      BY <2>1, <2>2
  <1> DEFINE d == code'
  <1>10. /\ phase' = "write"
         /\ d = SubSeq(code, 1, from) \o e.text \o SubSeq(code, to + 1, Len(code))
    <2>1. ~(from < 0 \/ to > size)
      BY <1>3, <1>7, <1>9
    <2> QED
      BY <1>1, <2>1 DEF Write, e, size
  <1> HIDE DEF from, to
  <1>11. /\ d \in Seq(STRING) /\ Len(d) = from + grown + (size - to)
         /\ \A i \in 1 .. grown : d[from + i] = e.text[i]
         /\ \A i \in 1 .. size - to : d[from + grown + i] = code[to + i]
    <2> DEFINE t == e.text
    <2>1. /\ code \in Seq(STRING) /\ t \in Seq(STRING) /\ from \in Nat /\ to \in Nat
          /\ from <= to /\ to <= Len(code)
          /\ d = SubSeq(code, 1, from) \o t \o SubSeq(code, to + 1, Len(code))
      BY <1>3, <1>7, <1>9, <1>10 DEF size
    <2> HIDE DEF t, d
    <2> DEFINE v == SubSeq(code, 1, from) \o t \o SubSeq(code, to + 1, Len(code))
    <2>2. /\ v \in Seq(STRING) /\ Len(v) = from + Len(t) + (Len(code) - to)
          /\ \A i \in 1 .. Len(t) : v[from + i] = t[i]
          /\ \A i \in 1 .. Len(code) - to : v[from + Len(t) + i] = code[to + i]
      <3>1. /\ code \in Seq(STRING) /\ t \in Seq(STRING) /\ from \in Nat /\ to \in Nat
            /\ from <= to /\ to <= Len(code)
        BY <2>1
      <3> QED
        BY <3>1, Spliced
    <2>3. d = v
      BY <2>1
    <2> HIDE DEF v
    <2> QED
      BY <2>2, <2>3 DEF t, size, grown
  <1> HIDE DEF d
  <1>12. /\ Unwritten' = m - 1 /\ m - 1 \in 0 .. n /\ m - 1 # n
         /\ Len(top_level)' = n
    <2>1. Unwritten' = n + 1 - (next + 1)
      BY <1>1 DEF Unwritten, n
    <2> QED
      BY <1>1, <1>3, <2>1 DEF n
  \* The first range is where its edit is; each other one follows on.
  <1>13. /\ Growth(m - 1) \in Int
         /\ output_ranges[m].start = Start(e) + Growth(m - 1)
         /\ output_ranges[m].end = output_ranges[m].start + grown
    <2>1. output_ranges[m].end = output_ranges[m].start + grown
      BY <1>2, <1>3, <1>4 DEF Chained, Edit, n, grown
    <2>2. CASE m = 1
      <3>1. output_ranges[1].start = Start(Edit(1))
        <4>1. Len(top_level) > 0
          BY <1>3 DEF n
        <4> QED
          BY <1>2, <4>1 DEF Chained, Edit
      <3>2. Growth(m - 1) = 0
        BY <2>2 DEF Growth
      <3> QED
        BY <1>4, <1>7, <2>1, <2>2, <3>1, <3>2
    <2>3. CASE m # 1
      <3>1. m \in 2 .. n /\ m - 1 \in 1 .. n /\ m - 1 # 0
        BY <1>3, <2>3
      <3>2. output_ranges[m].start
            = output_ranges[m - 1].end + Start(Edit(m)) - Edit(m - 1).end
        BY <1>2, <3>1 DEF Chained, Edit, n
      <3>3. Growth(m - 1) = output_ranges[m - 1].end - Edit(m - 1).end
        BY <3>1 DEF Growth
      <3> DEFINE a == output_ranges[m - 1].end
                 b == Edit(m - 1).end
      <3>4. a \in Nat /\ b \in Nat
        BY <1>5, <1>6, <3>1, EffectFields
      <3>5. output_ranges[m].start = a + Start(e) - b /\ Growth(m - 1) = a - b
        BY <1>4, <3>2, <3>3
      <3> HIDE DEF a, b
      <3> QED
        BY <1>7, <2>1, <3>4, <3>5
    <2> QED
      BY <2>2, <2>3
  <1>14. Growth(m) = output_ranges[m].end - e.end
    BY <1>3, <1>4 DEF Growth
  <1>15. ASSUME NEW k \in m .. n
         PROVE  LET at == output_ranges[k].start - Growth(m - 1) - left
                    text == Edit(k).text
                IN  /\ at >= 0 /\ at + Len(text) <= Len(d)
                    /\ \A i \in 1 .. Len(text) : d[at + i] = text[i]
    <2> DEFINE at == output_ranges[k].start - Growth(m - 1) - left
               text == Edit(k).text
               g == Growth(m - 1)
    <2>1. CASE k = m
      <3>1. at = from /\ text = e.text
        <4>1. output_ranges[m].start = Start(e) + g
          BY <1>13
        <4>2. g \in Int
          BY <1>13
        <4> HIDE DEF g
        <4>3. output_ranges[m].start - g - left = Start(e) - left
          BY <1>7, <4>1, <4>2
        <4> QED
          BY <1>4, <2>1, <4>3 DEF from, g
      <3> HIDE DEF at, text
      <3>2. /\ at >= 0 /\ at + grown <= Len(d)
            /\ \A i \in 1 .. grown : d[at + i] = text[i]
        BY <1>3, <1>7, <1>9, <1>11, <3>1
      <3>3. Len(text) = grown
        BY <3>1 DEF grown
      <3>4. /\ at >= 0 /\ at + Len(text) <= Len(d)
            /\ \A i \in 1 .. Len(text) : d[at + i] = text[i]
        BY <3>2, <3>3
      <3> QED
        BY <3>4 DEF at, text
    <2>2. CASE k \in m + 1 .. n
      <3> DEFINE was == output_ranges[k].start - Growth(m) - left
                 len == Len(text)
      <3>1. /\ was >= 0 /\ was + len <= size /\ to <= was
            /\ \A i \in 1 .. len : code[was + i] = text[i]
        BY <1>8, <2>2 DEF ShownAt, size
      <3>2. /\ output_ranges[k].start \in Nat /\ output_ranges[m].end \in Nat
            /\ output_ranges[m].start \in Nat /\ g \in Int /\ len \in Nat
            /\ Growth(m) \in Int
        <4>1. k \in 1 .. n
          BY <1>3, <2>2
        <4>2. output_ranges[m].end \in Nat /\ output_ranges[m].start \in Nat
          BY <1>3, <1>6
        <4>3. Growth(m) \in Int
          BY <1>7, <1>14, <4>2
        <4> QED
          BY <1>5, <1>6, <1>13, <4>1, <4>2, <4>3, EffectFields
      <3>3. was \in Int /\ at \in Int /\ at = from + grown + (was - to)
        <4>1. /\ output_ranges[m].start = Start(e) + g
              /\ output_ranges[m].end = output_ranges[m].start + grown
              /\ Growth(m) = output_ranges[m].end - e.end
          BY <1>13, <1>14
        <4> DEFINE x == output_ranges[k].start
                   y == Growth(m)
                   st == Start(e)
                   en == e.end
        <4>2. y = st + g + grown - en
          BY <1>7, <3>2, <4>1
        <4>3. /\ x \in Nat /\ y \in Int /\ st \in Nat /\ en \in Nat /\ g \in Int
              /\ grown \in Nat /\ left \in Nat
          BY <1>7, <3>2
        <4>4. at = x - g - left /\ was = x - y - left /\ from = st - left /\ to = en - left
          BY DEF from, to
        <4> HIDE DEF x, y, st, en, g, at, was
        <4> QED
          BY <4>2, <4>3, <4>4
      <3> HIDE DEF was, len, at, text, g
      <3>4. at >= 0 /\ at + len <= Len(d)
        BY <1>3, <1>7, <1>11, <3>1, <3>2, <3>3
      <3>5. ASSUME NEW i \in 1 .. len PROVE d[at + i] = text[i]
        <4>1. (was - to) + i \in 1 .. size - to
          BY <1>3, <1>7, <3>1, <3>2, <3>3
        <4>2. d[from + grown + ((was - to) + i)] = code[to + ((was - to) + i)]
          BY <1>11, <4>1
        <4>3. /\ from + grown + ((was - to) + i) = at + i
              /\ to + ((was - to) + i) = was + i
          BY <1>7, <3>2, <3>3
        <4> QED
          BY <3>1, <4>2, <4>3
      <3>6. /\ at >= 0 /\ at + Len(text) <= Len(d)
            /\ \A i \in 1 .. Len(text) : d[at + i] = text[i]
        BY <3>4, <3>5 DEF len
      <3> QED
        BY <3>6 DEF at, text
    <2>3. k = m \/ k \in m + 1 .. n
      BY <1>3
    <2> QED
      BY <2>1, <2>2, <2>3
  <1>16. WrittenShown'
    <2> SUFFICES ASSUME NEW k \in m .. n
                 PROVE  ShownAt(Edit(k).text,
                                output_ranges[k].start - Growth(Unwritten) - left)'
      <3>1. (m - 1) + 1 = m
        BY <1>3
      <3> QED
        BY <1>12, <3>1 DEF WrittenShown
    <2>1. /\ Edit(k)' = Edit(k) /\ Growth(Unwritten)' = Growth(m - 1)
          /\ output_ranges[k]' = output_ranges[k]
      <3>1. Unwritten' = m - 1
        BY <1>12
      <3> QED
        BY <1>1, <3>1 DEF Edit, Growth
    <2> QED
      BY <1>15, <2>1 DEF ShownAt, d
  <1>17. TypeOK'
    <2>1. phase' = "write" /\ code' \in Seq(STRING)
      BY <1>10, <1>11 DEF d
    <2>2. next' \in Nat
      BY <1>1, <1>2
    <2>3. /\ input' \in Seq(Effect) /\ effects' \in Seq(Effect)
          /\ rest' \in 0 .. Len(effects')
          /\ top_level' \in Seq(Effect) /\ top_level_open' \in left .. right
          /\ inserts' \in [0 .. Len(source) -> SUBSET Seq(STRING)]
          /\ output_ranges' \in Seq([start: Nat, end: Nat])
      BY <1>1, <1>2 DEF TypeOK
    <2> QED
      BY <2>1, <2>2, <2>3 DEF TypeOK
  <1>18. AllPlaced' /\ InOrder(top_level)' /\ Chained(top_level, output_ranges)'
    BY <1>1, <1>2 DEF AllPlaced, Placed, InOrder, Chained
  <1>19. RangesRise'
    BY <1>1, <1>2 DEF RangesRise
  <1>20. /\ (Unwritten \in 0 .. Len(top_level))'
         /\ Unwritten' # Len(top_level)'
    BY <1>12
  <1> QED
    BY <1>10, <1>16, <1>17, <1>18, <1>19, <1>20 DEF EditInv

\* The last edit is written when none is left.
LEMMA DoneWrites ==
    ASSUME IInv, EditInv, Done
    PROVE  EditInv'
  <1>1. /\ phase = "write" /\ phase' = "done" /\ next > Len(top_level) /\ next' = next
        /\ rest' = rest /\ top_level_open' = top_level_open
        /\ input' = input /\ effects' = effects /\ inserts' = inserts
        /\ top_level' = top_level /\ output_ranges' = output_ranges /\ code' = code
    BY DEF Done
  <1>2. EditInv
    OBVIOUS
  <1>3. /\ TypeOK /\ AllPlaced /\ InOrder(top_level) /\ Chained(top_level, output_ranges)
        /\ RangesRise /\ Unwritten \in 0 .. Len(top_level)
        /\ (Unwritten = Len(top_level) => Len(code) = right - left)
        /\ WrittenShown /\ next \in Nat
    BY <1>1 DEF EditInv, IInv
  <1>4. Unwritten' = Unwritten /\ Unwritten = 0
    <2>1. Len(top_level) \in Nat
      BY <1>3 DEF TypeOK
    <2> QED
      BY <1>1, <1>3, <2>1 DEF Unwritten
  <1>5. TypeOK'
    BY <1>1, <1>3 DEF TypeOK
  <1>6. AllPlaced' /\ InOrder(top_level)' /\ Chained(top_level, output_ranges)'
        /\ RangesRise'
    BY <1>1, <1>3 DEF AllPlaced, Placed, InOrder, Chained, RangesRise
  <1>7. WrittenShown'
    BY <1>1, <1>3, <1>4 DEF WrittenShown, ShownAt, Edit, Growth
  <1> QED
    BY <1>1, <1>3, <1>4, <1>5, <1>6, <1>7 DEF EditInv

\* Every step keeps the second invariant.
LEMMA StepWrites == IInv /\ EditInv /\ [Next]_vars => EditInv'
  <1> SUFFICES ASSUME IInv, EditInv, [Next]_vars PROVE EditInv'
    OBVIOUS
  <1>1. CASE Stay \/ UNCHANGED vars
    <2>1. UNCHANGED vars
      BY <1>1 DEF Stay
    <2>2. /\ input' = input /\ effects' = effects /\ phase' = phase /\ rest' = rest
          /\ top_level' = top_level /\ top_level_open' = top_level_open
          /\ inserts' = inserts /\ next' = next /\ output_ranges' = output_ranges
          /\ code' = code
      BY <2>1 DEF vars
    <2>3. TypeOK => TypeOK'
      BY <2>2 DEF TypeOK
    <2>4. /\ AllPlaced => AllPlaced'
          /\ Falling => Falling'
          /\ NotBehind => NotBehind'
          /\ RewritesApart => RewritesApart'
      BY <2>2 DEF AllPlaced, Placed, Falling, NotBehind, RewritesApart
    <2>5. SeparateUpto(next) => SeparateUpto(next)'
      BY <2>2 DEF SeparateUpto, Separate
    <2>6. /\ InOrder(top_level) => InOrder(top_level)'
          /\ Chained(top_level, output_ranges) => Chained(top_level, output_ranges)'
          /\ RangesRise => RangesRise'
          /\ Unwritten' = Unwritten
      BY <2>2 DEF InOrder, Chained, RangesRise, Unwritten
    <2>7. WrittenShown => WrittenShown'
      <3>1. \A k : Edit(k)' = Edit(k)
        BY <2>2 DEF Edit
      <3>2. Growth(Unwritten)' = Growth(Unwritten)
        BY <2>2, <2>6, <3>1 DEF Growth
      <3> QED
        BY <2>2, <2>6, <3>1, <3>2 DEF WrittenShown, ShownAt
    <2> QED
      BY <2>2, <2>3, <2>4, <2>5, <2>6, <2>7 DEF EditInv
  <1> QED
    BY <1>1, SortWrites, CheckWrites, ChooseWrites, SkipWrites, SelectDoneWrites,
       FilterWrites, ArrangeWrites, WriteWrites, DoneWrites DEF Next

-----------------------------------------------------------------------------
\* Both invariants hold in every state of every run.
THEOREM WritingInvariance == Spec => [](IInv /\ EditInv)
  <1>1. Init => IInv /\ EditInv
    BY InitEstablishes, InitWrites
  <1>2. (IInv /\ EditInv) /\ [Next]_vars => (IInv /\ EditInv)'
    BY StepPreserves, StepWrites
  <1> QED
    BY <1>1, <1>2, PTL DEF Spec

\* Every variable keeps its type: no edit is put in front of the text, and no offset
\* becomes negative when it is cast to an unsigned one.
THEOREM LinearizeTyped == Spec => []TypeOK
  <1>1. EditInv => TypeOK
    BY DEF EditInv
  <1> QED
    BY <1>1, WritingInvariance, PTL

\* inline_snippets.rs calls its own checks likely redundant.  They are: once the
\* effects are accepted, is_sorted_descending, has_overlapping_ranges, the cast of
\* an offset and replace_range never fail, for crossing effects either.
THEOREM ChecksRedundantAlways == Spec => []ChecksRedundant
  <1>1. EditInv => ChecksRedundant
    BY DEF EditInv, ChecksRedundant
  <1> QED
    BY <1>1, WritingInvariance, PTL

\* The ranges reported for a rewritten file are where the new texts are.
THEOREM RangesShowEditsAlways == Spec => []RangesShowEdits
  <1>1. ASSUME EditInv PROVE RangesShowEdits
    <2> SUFFICES ASSUME phase = "done" PROVE RangesShowEdits
      BY DEF RangesShowEdits
    <2> DEFINE n == Len(top_level)
    <2>1. /\ TypeOK /\ Chained(top_level, output_ranges) /\ WrittenShown
          /\ Unwritten = 0
      BY <1>1 DEF EditInv
    <2>2. /\ n \in Nat /\ top_level \in Seq(Effect) /\ code \in Seq(STRING)
          /\ output_ranges \in Seq([start: Nat, end: Nat])
          /\ Len(output_ranges) = n
      BY <2>1 DEF TypeOK, Chained
    <2>5. \A k \in 1 .. n : output_ranges[k].start \in Nat
      <3> HIDE DEF n
      <3>1. \A k \in 1 .. n : output_ranges[k] \in [start: Nat, end: Nat]
        BY <2>2, ElementOfSeq
      <3> QED
        BY <3>1
    <2>3. ASSUME NEW k \in 1 .. n
          PROVE  SubSeq(code, output_ranges[k].start - left + 1,
                        output_ranges[k].end - left)
                 = top_level[n + 1 - k].text
      <3> DEFINE text == top_level[n + 1 - k].text
                 at == output_ranges[k].start - left
                 len == Len(text)
      <3>1. /\ text \in Seq(STRING) /\ len \in Nat
        <4>1. top_level[n + 1 - k] \in Effect
          BY <2>2
        <4> QED
          BY <4>1, EffectFields
      <3>2. ShownAt(text, at)
        <4>1. Edit(k).text = text
          BY DEF Edit
        <4>2. Growth(Unwritten) = 0
          BY <2>1 DEF Growth
        <4>3. output_ranges[k].start \in Nat
          BY <2>2, <2>5
        <4>4. output_ranges[k].start - 0 - left = at
          BY <4>3, RangeAssumption
        <4>5. k \in Unwritten + 1 .. n
          BY <2>1
        <4> QED
          BY <2>1, <4>1, <4>2, <4>4, <4>5 DEF WrittenShown
      <3>3. output_ranges[k].end - left = at + len /\ at \in Int
        <4>1. output_ranges[k].end = output_ranges[k].start + len
          BY <2>1 DEF Chained
        <4>2. output_ranges[k].start \in Nat
          BY <2>2, <2>5
        <4> HIDE DEF len
        <4> QED
          BY <3>1, <4>1, <4>2, RangeAssumption
      <3> HIDE DEF text, at, n
      <3>4. /\ at \in Nat /\ at + len <= Len(code) /\ Len(code) \in Nat
            /\ \A i \in 1 .. len : code[at + i] = text[i]
        BY <2>2, <3>2, <3>3 DEF ShownAt
      <3> DEFINE w == SubSeq(code, at + 1, at + len)
      <3>5. /\ w \in Seq(STRING) /\ Len(w) = len
            /\ \A i \in 1 .. len : w[i] = code[at + i]
        <4>1. code \in Seq(STRING) /\ len \in Nat
          BY <2>2, <3>1
        <4> HIDE DEF len
        <4> QED
          BY <4>1, <3>4, CutOut
      <3>6. \A i \in 1 .. len : w[i] = text[i]
        BY <3>4, <3>5
      <3> HIDE DEF w
      <3>7. w = text
        BY <3>1, <3>5, <3>6
      <3> QED
        BY <3>3, <3>7 DEF w, at, text, n
    <2>4. DOMAIN output_ranges = 1 .. n
      BY <2>2
    <2> QED
      BY <2>2, <2>3, <2>4 DEF RangesShowEdits
  <1> QED
    BY <1>1, WritingInvariance, PTL

-----------------------------------------------------------------------------
(* The third invariant: what the text becomes.  The loop selects the       *)
(* insertions and the outermost rewrites; filter_out_nested drops only an  *)
(* insertion that is within a rewrite, or that repeats one which stays; so *)
(* what is sorted by its starts is what is meant, in the order of the text;*)
(* and each edit that is written leaves the source as it is in front of it,*)
(* and what was written before behind it.  q says where in the input each  *)
(* selected effect comes from, and b what is behind each edit.             *)

\* effects is the input in the order p.
SortedFrom(p) ==
    /\ p \in Orders(input) /\ SortedBy(input, p, Less)
    /\ effects = [i \in DOMAIN input |-> input[p[i]]]

\* q says which effect of the input each chosen one is; the chosen ones are in
\* the order of compare, last one first.
Origin(q) ==
    /\ q \in [DOMAIN top_level -> DOMAIN input]
    /\ \A k \in DOMAIN top_level : top_level[k] = input[q[k]]
Backwards(q) == \A k, l \in DOMAIN top_level : k < l => Before(q[l], q[k])
ImageOf(q) == {q[k] : k \in DOMAIN top_level}

\* All insertions are chosen, and the outermost rewrites.
Meant == InsertIndices \union Outermost
Passed(p, m) == {p[i] : i \in m + 1 .. Len(effects)}
SelectedSoFar(p, q) ==
    /\ Origin(q) /\ Backwards(q)
    /\ ImageOf(q) = Passed(p, rest) \intersect Meant

\* An insertion that filter_out_nested drops is within a rewrite, or another one at
\* that place with its text is behind it and stays.
Swallowed(i) ==
    \E r \in Outermost :
        input[r].start < input[i].end /\ input[i].end < input[r].end
Repeated(i, j) ==
    /\ j \in InsertIndices
    /\ input[j].end = input[i].end /\ input[j].text = input[i].text
    /\ Before(i, j)
Lost(i, q) ==
    \/ Swallowed(i)
    \/ \E k \in DOMAIN top_level : k < next /\ Repeated(i, q[k])
SeenFrom ==
    \A pos \in DOMAIN inserts : \A x \in inserts[pos] :
        \E k \in DOMAIN top_level :
            k < next /\ top_level[k].end = pos /\ top_level[k].text = x
NoRepeat(m) ==
    \A k, l \in DOMAIN top_level :
        /\ k < l /\ k < m
        /\ top_level[k].kind = "Insert" /\ top_level[l].kind = "Insert"
        /\ top_level[k].end = top_level[l].end
        => top_level[k].text # top_level[l].text
Filtered(q) ==
    /\ Origin(q) /\ Backwards(q)
    /\ Outermost \subseteq ImageOf(q) /\ ImageOf(q) \subseteq Meant
    /\ \A i \in InsertIndices \ ImageOf(q) : Lost(i, q)

\* The edits that are written are those that are meant, in their order.
Arranged(q) ==
    /\ Origin(q)
    /\ \A k, l \in DOMAIN top_level : k < l => InFront(q[l], q[k])
    /\ ImageOf(q) = Intended

\* Where the k-th of the edits s ends, the last of which is first; and what is
\* behind it, once those behind it are written.
EndOf(s, k) == IF k = 0 THEN left ELSE s[Len(s) + 1 - k].end
Behind(s, b) ==
    LET n == Len(s)
        e(k) == s[n + 1 - k]
    IN  /\ b \in [0 .. n -> Seq(STRING)]
        /\ b[n] = SubSeq(source, EndOf(s, n) + 1, right)
        /\ \A k \in 0 .. n - 1 :
             b[k] = SubSeq(source, EndOf(s, k) + 1, Start(e(k + 1)))
                    \o e(k + 1).text \o b[k + 1]

\* The effects are nested or disjoint, and no rewrite of an empty range is where
\* another begins.
Plain == Laminar(input) /\ ~EmptyBeside

\* What is known of the text in each phase.
ResultInv ==
    /\ phase \in {"sort", "check", "select", "filter"} =>
          code = SubSeq(source, left + 1, right)
    /\ phase \in {"sort", "check", "select"} =>
          \A pos \in DOMAIN inserts : inserts[pos] = {}
    /\ phase = "check" => \E p : SortedFrom(p)
    /\ phase = "select" /\ Plain =>
          \E p, q : SortedFrom(p) /\ SelectedSoFar(p, q)
    /\ phase = "filter" /\ Plain /\ ~Twins =>
          (\E q : Filtered(q)) /\ SeenFrom /\ NoRepeat(next)
    /\ phase \in {"write", "done"} /\ Plain /\ ~Twins => \E q : Arranged(q)
    /\ phase \in {"write", "done"} =>
          \E b : /\ Behind(top_level, b)
                 /\ code = SubSeq(source, left + 1, EndOf(top_level, Unwritten))
                           \o b[Unwritten]

-----------------------------------------------------------------------------
\* What only depends on the input.
LEMMA InputOnly ==
    ASSUME input' = input
    PROVE  /\ Plain' <=> Plain
           /\ Twins' <=> Twins
           /\ InsertIndices' = InsertIndices /\ Outermost' = Outermost
           /\ Meant' = Meant /\ Intended' = Intended
  <1>1. Laminar(input)' <=> Laminar(input)
    BY DEF Laminar, Cross
  <1>2. InsertIndices' = InsertIndices /\ RewriteIndices' = RewriteIndices
    BY DEF InsertIndices, RewriteIndices, InRange
  <1>6. Plain' <=> Plain
    BY <1>1, <1>2 DEF Plain, EmptyBeside
  <1>3. Outermost' = Outermost
    BY <1>2 DEF Outermost, Within, SameRange
  <1>4. Twins' <=> Twins
    BY <1>2, <1>3 DEF Twins
  <1>5. Inserted' = Inserted
    BY <1>2, <1>3 DEF Inserted, Before, Less
  <1> QED
    BY <1>2, <1>3, <1>4, <1>5, <1>6 DEF Meant, Intended

\* compare is a total order of the effects that were made.
LEMMA BeforeOrders ==
    ASSUME IInv, NEW i \in DOMAIN input, NEW j \in DOMAIN input
    PROVE  /\ ~(Before(i, j) /\ Before(j, i))
           /\ i # j => Before(i, j) \/ Before(j, i)
           /\ \A k \in DOMAIN input : Before(i, j) /\ Before(j, k) => Before(i, k)
  <1>1. /\ input \in Seq(Effect)
        /\ \A k \in DOMAIN input : k \in Nat /\ input[k] \in Effect
                                   /\ input[k].start \in Nat /\ input[k].end \in Nat
    <2>1. input \in Seq(Effect)
      BY InputFacts DEF IInv
    <2>2. \A k \in DOMAIN input : k \in Nat /\ input[k] \in Effect
      BY <2>1
    <2> QED
      BY <2>1, <2>2, Fields
  <1>2. ~(Before(i, j) /\ Before(j, i))
    BY <1>1 DEF Before, Less
  <1>3. i # j => Before(i, j) \/ Before(j, i)
    BY <1>1 DEF Before, Less
  <1>4. ASSUME NEW k \in DOMAIN input, Before(i, j), Before(j, k)
        PROVE  Before(i, k)
    BY <1>1, <1>4 DEF Before, Less
  <1> QED
    BY <1>2, <1>3, <1>4

\* The order that sort_by finds has every effect.
LEMMA OrderOnto ==
    ASSUME NEW s \in Seq(Effect), NEW p \in Orders(s)
    PROVE  \A j \in DOMAIN s : \E i \in DOMAIN s : p[i] = j
  <1> DEFINE D == DOMAIN s
  <1>1. IsFiniteSet(D)
    <2>1. D = 1 .. Len(s) /\ Len(s) \in Nat
      OBVIOUS
    <2> QED
      BY <2>1, FS_Interval
  <1>2. p \in [D -> D] /\ \A i, j \in D : p[i] = p[j] => i = j
    BY DEF Orders
  <1> HIDE DEF D
  <1>3. p \in Injection(D, D)
    BY <1>2, Fun_IsInj
  <1>4. p \in Surjection(D, D)
    BY <1>1, <1>3, FS_Injection
  <1>5. \A j \in D : \E i \in D : p[i] = j
    BY <1>4, Fun_SurjectionProperties
  <1> QED
    BY <1>5 DEF D

\* The effects in the order that sort_by finds.
LEMMA OrderBefore ==
    ASSUME IInv, NEW p, SortedFrom(p)
    PROVE  /\ DOMAIN effects = DOMAIN input
           /\ \A i \in DOMAIN input : p[i] \in DOMAIN input /\ effects[i] = input[p[i]]
           /\ \A i, j \in DOMAIN input : i < j => Before(p[i], p[j])
           /\ \A j \in DOMAIN input : \E i \in DOMAIN input : p[i] = j
  <1>1. p \in [DOMAIN input -> DOMAIN input]
    BY DEF SortedFrom, Orders
  <1>2. /\ DOMAIN effects = DOMAIN input
        /\ \A i \in DOMAIN input : p[i] \in DOMAIN input /\ effects[i] = input[p[i]]
    BY <1>1 DEF SortedFrom
  <1>3. \A i, j \in DOMAIN input : i < j => Before(p[i], p[j])
    BY DEF SortedFrom, SortedBy, Before
  <1>4. \A j \in DOMAIN input : \E i \in DOMAIN input : p[i] = j
    <2>1. input \in Seq(Effect)
      BY InputFacts DEF IInv
    <2> QED
      BY <2>1, OrderOnto DEF SortedFrom
  <1> QED
    BY <1>2, <1>3, <1>4

\* Init: the text is the range, and nothing was seen.
LEMMA InitResult == Init => ResultInv
  BY DEF Init, ResultInv

\* sort_by sorts.
LEMMA SortResult ==
    ASSUME IInv, ResultInv, Sort
    PROVE  ResultInv'
  <1>1. /\ phase = "sort" /\ phase' = "check" /\ input' = input /\ code' = code
        /\ inserts' = inserts
    BY DEF Sort
  <1>2. PICK p \in Orders(input) :
            /\ SortedBy(input, p, Less)
            /\ effects' = [i \in DOMAIN input |-> input[p[i]]]
    BY DEF Sort
  <1>3. SortedFrom(p)'
    <2>1. Orders(input)' = Orders(input)
      BY <1>1 DEF Orders
    <2>2. SortedBy(input, p, Less)'
      BY <1>1, <1>2 DEF SortedBy, Less
    <2> QED
      BY <1>1, <1>2, <2>1, <2>2 DEF SortedFrom
  <1> QED
    BY <1>1, <1>3 DEF ResultInv

\* What only depends on the input and on the sorted list.
LEMMA SortedSame ==
    ASSUME input' = input, effects' = effects, NEW p
    PROVE  /\ SortedFrom(p)' <=> SortedFrom(p)
           /\ Passed(p, rest)' = {p[i] : i \in rest' + 1 .. Len(effects)}
  <1>1. Orders(input)' = Orders(input)
    BY DEF Orders
  <1>2. SortedBy(input, p, Less)' <=> SortedBy(input, p, Less)
    BY DEF SortedBy, Less
  <1> QED
    BY <1>1, <1>2 DEF SortedFrom, Passed

\* Before the loop nothing is selected.
LEMMA CheckResult ==
    ASSUME IInv, ResultInv, CheckNeighbours
    PROVE  ResultInv'
  <1>1. /\ phase = "check" /\ phase' \in {"rejected", "select"} /\ input' = input
        /\ effects' = effects /\ rest' = Len(effects) /\ code' = code
        /\ inserts' = inserts /\ top_level' = top_level
    BY DEF CheckNeighbours
  <1>2. PICK p : SortedFrom(p)
    BY <1>1 DEF ResultInv
  <1>3. SortedFrom(p)'
    BY <1>1, <1>2, SortedSame
  <1>4. effects \in Seq(Effect) /\ Len(effects) \in Nat /\ top_level = <<>>
    BY <1>1 DEF IInv, EndSorted, Fresh
  <1>5. SelectedSoFar(p, <<>>)'
    <2>1. DOMAIN top_level' = {} /\ DOMAIN top_level = {}
      BY <1>1, <1>4
    <2>2. Origin(<<>>)' /\ Backwards(<<>>)'
      BY <2>1 DEF Origin, Backwards
    <2>3. ImageOf(<<>>)' = {}
      BY <2>1 DEF ImageOf
    <2>4. Passed(p, rest)' = {}
      <3>1. rest' + 1 .. Len(effects') = {}
        BY <1>1, <1>4
      <3> QED
        BY <3>1 DEF Passed
    <2> QED
      BY <2>2, <2>3, <2>4 DEF SelectedSoFar
  <1> QED
    BY <1>1, <1>3, <1>5 DEF ResultInv

-----------------------------------------------------------------------------
(* The loop selects the insertions and the outermost rewrites.             *)

\* The effects that the loop has passed follow the one it is at.
LEMMA PassesOne ==
    ASSUME IInv, phase = "select", rest > 0, NEW p, SortedFrom(p)
    PROVE  /\ rest \in DOMAIN input /\ rest \in DOMAIN effects
           /\ p[rest] \in DOMAIN input
           /\ effects[rest] = input[p[rest]]
           /\ Passed(p, rest - 1) = Passed(p, rest) \union {p[rest]}
           /\ \A j \in Passed(p, rest) : j \in DOMAIN input /\ Before(p[rest], j)
  <1>1. /\ effects \in Seq(Effect) /\ rest \in 1 .. Len(effects) /\ Len(effects) \in Nat
        /\ DOMAIN effects = 1 .. Len(effects)
    BY DEF IInv, EndSorted
  <1>2. /\ DOMAIN effects = DOMAIN input
        /\ \A i \in DOMAIN input : p[i] \in DOMAIN input /\ effects[i] = input[p[i]]
        /\ \A i, j \in DOMAIN input : i < j => Before(p[i], p[j])
    BY OrderBefore
  <1>3. rest \in DOMAIN input /\ rest \in Nat
    BY <1>1, <1>2
  <1>4. Passed(p, rest - 1) = Passed(p, rest) \union {p[rest]}
    <2>1. (rest - 1) + 1 .. Len(effects) = (rest + 1 .. Len(effects)) \union {rest}
      BY <1>1
    <2> QED
      BY <2>1 DEF Passed
  <1>5. ASSUME NEW j \in Passed(p, rest)
        PROVE  j \in DOMAIN input /\ Before(p[rest], j)
    <2>1. PICK m \in rest + 1 .. Len(effects) : j = p[m]
      BY DEF Passed
    <2>2. m \in DOMAIN input /\ rest < m
      BY <1>1, <1>2, <2>1
    <2> QED
      BY <1>2, <1>3, <2>1, <2>2
  <1> QED
    BY <1>1, <1>2, <1>3, <1>4, <1>5

\* The fields of an effect of the input.
LEMMA InputFields ==
    ASSUME IInv, NEW i \in DOMAIN input
    PROVE  /\ input[i] \in Effect /\ i \in Nat
           /\ input[i].start \in Nat /\ input[i].end \in Nat
           /\ input[i].start <= input[i].end
           /\ input[i].kind \in {"Rewrite", "Insert"}
           /\ Start(input[i]) = IF input[i].kind = "Insert" THEN input[i].end
                                ELSE input[i].start
  <1>1. input \in Seq(Effect) /\ input[i].start <= input[i].end
    BY InputFacts DEF IInv
  <1>2. input[i] \in Effect /\ i \in Nat
    BY <1>1
  <1> QED
    BY <1>1, <1>2, Fields DEF Start

\* A rewrite that another takes precedence of is before it.
LEMMA InnerIsBefore ==
    ASSUME IInv, NEW i \in DOMAIN input, NEW j \in DOMAIN input,
           Within(input[i], input[j])
    PROVE  ~SameRange(input[i], input[j]) \/ j > i <=>
               i # j /\ Before(i, j)
  <1>1. /\ input[i].start \in Nat /\ input[i].end \in Nat /\ i \in Nat
        /\ input[j].start \in Nat /\ input[j].end \in Nat /\ j \in Nat
    BY InputFields
  <1>2. input[j].start <= input[i].start /\ input[i].end <= input[j].end
    BY DEF Within
  <1> QED
    BY <1>1, <1>2 DEF SameRange, Before, Less

\* A rewrite that is selected is an outermost one.
LEMMA SelectedIsMeant ==
    ASSUME IInv, Plain, NEW p, SortedFrom(p), SelectInsert \/ SelectRewrite
    PROVE  p[rest] \in Meant
  <1> DEFINE e == effects[rest]
             i == p[rest]
  <1>1. phase = "select" /\ rest > 0
    BY DEF SelectInsert, SelectRewrite, Selecting
  <1>2. /\ rest \in DOMAIN input /\ rest \in DOMAIN effects
        /\ i \in DOMAIN input /\ e = input[i]
        /\ \A j \in Passed(p, rest) : Before(i, j)
    BY <1>1, PassesOne
  <1>3. /\ e.start \in Nat /\ e.end \in Nat /\ e.start <= e.end
        /\ e.kind \in {"Rewrite", "Insert"}
    BY <1>2, InputFields
  <1>4. CASE InsertInRange(e)
    BY <1>2, <1>4 DEF Meant, InsertIndices, InRange, InsertInRange
  <1>5. CASE ~InsertInRange(e)
    <2>1. e.end <= top_level_open /\ left <= e.start
      BY <1>5, RangeAssumption DEF SelectInsert, SelectRewrite, Current
    <2>2. ChosenBehind /\ CoveredBehind(rest)
      BY <1>1 DEF IInv, Selected, Plain
    <2>3. top_level_open \in Int /\ top_level_open <= right
      BY <2>2 DEF ChosenBehind
    <2>4. InRange(e) /\ e.kind = "Rewrite"
      BY <1>3, <1>5, <2>1, <2>3, RangeAssumption DEF InRange, InsertInRange
    <2>5. i \in RewriteIndices
      BY <1>2, <2>4 DEF RewriteIndices
    <2>6. ASSUME NEW j \in RewriteIndices \ {i}, Within(input[i], input[j]),
                 ~SameRange(input[i], input[j]) \/ j > i
          PROVE  FALSE
      <3>1. /\ j \in DOMAIN input /\ input[j].kind = "Rewrite" /\ InRange(input[j])
        BY <2>6 DEF RewriteIndices
      <3>2. Before(i, j)
        BY <1>2, <2>6, <3>1, InnerIsBefore
      <3>3. /\ DOMAIN effects = DOMAIN input
            /\ \A k \in DOMAIN input : p[k] \in DOMAIN input /\ effects[k] = input[p[k]]
            /\ \A k, l \in DOMAIN input : k < l => Before(p[k], p[l])
            /\ \A l \in DOMAIN input : \E k \in DOMAIN input : p[k] = l
        BY OrderBefore
      <3>4. PICK m \in DOMAIN input : p[m] = j
        BY <3>1, <3>3
      <3>5. m # rest
        BY <2>6, <3>4
      <3>6. ~(m < rest)
        BY <1>2, <3>1, <3>2, <3>3, <3>4, BeforeOrders
      <3>7. m \in rest + 1 .. Len(effects) /\ effects[m] = input[j]
        <4>1. effects \in Seq(Effect) /\ DOMAIN effects = 1 .. Len(effects)
              /\ Len(effects) \in Nat
          BY <1>1 DEF IInv, EndSorted
        <4>2. m \in 1 .. Len(effects) /\ rest \in 1 .. Len(effects) /\ effects[m] = input[j]
          BY <1>2, <3>3, <3>4, <4>1
        <4> QED
          BY <3>5, <3>6, <4>1, <4>2
      <3>8. Covered(input[j])
        BY <2>2, <3>1, <3>7 DEF CoveredBehind
      <3>9. PICK k \in DOMAIN top_level : /\ top_level[k].kind = "Rewrite"
                                          /\ Within(input[j], top_level[k])
        BY <3>8 DEF Covered
      <3>10. top_level_open <= top_level[k].start /\ top_level[k] \in Effect
        BY <2>2, <3>9 DEF ChosenBehind
      <3>11. /\ top_level[k].start \in Nat
             /\ input[j].start \in Nat
        BY <3>1, <3>10, Fields, InputFields
      <3>12. top_level[k].start <= input[j].start
        BY <3>9 DEF Within
      <3>13. input[j].start <= e.start
        BY <1>2, <2>6 DEF Within
      <3>14. e.start = e.end /\ e.end = input[j].start
        BY <1>3, <2>1, <2>3, <3>10, <3>11, <3>12, <3>13
      <3>15. EmptyBeside
        BY <1>2, <2>5, <2>6, <3>14 DEF EmptyBeside
      <3> QED
        BY <3>15 DEF Plain
    <2> QED
      BY <2>5, <2>6 DEF Meant, Outermost
  <1> QED
    BY <1>4, <1>5

\* What is skipped is not: it lies within a rewrite that is selected, or leaves
\* the range.
LEMMA SkippedIsNot ==
    ASSUME IInv, Plain, NEW p, NEW q, SortedFrom(p), SelectedSoFar(p, q),
           SelectSkip
    PROVE  p[rest] \notin Meant
  <1> DEFINE e == effects[rest]
             i == p[rest]
  <1>1. /\ phase = "select" /\ rest > 0 /\ ~InsertInRange(e)
        /\ e.end > top_level_open \/ e.start < left
    BY DEF SelectSkip, Selecting, Current
  <1>2. /\ rest \in DOMAIN input /\ rest \in DOMAIN effects
        /\ i \in DOMAIN input /\ e = input[i]
        /\ \A j \in Passed(p, rest) : j \in DOMAIN input /\ Before(i, j)
    BY <1>1, PassesOne
  <1>3. /\ e.start \in Nat /\ e.end \in Nat /\ e.start <= e.end
        /\ e.kind \in {"Rewrite", "Insert"}
    BY <1>2, InputFields
  <1>4. i \notin InsertIndices
    BY <1>1, <1>2 DEF InsertIndices, InsertInRange, InRange
  <1>5. ASSUME i \in Outermost PROVE FALSE
    <2>1. i \in RewriteIndices /\ InRange(e)
      BY <1>2, <1>5 DEF Outermost, RewriteIndices
    <2>2. e.end > top_level_open
      BY <1>1, <1>3, <2>1, RangeAssumption DEF InRange
    <2>3. Covered(e)
      BY <1>1, <2>1, <2>2, SkippedIsCovered DEF Plain
    <2>4. PICK k \in DOMAIN top_level : /\ top_level[k].kind = "Rewrite"
                                        /\ Within(e, top_level[k])
      BY <2>3 DEF Covered
    <2>5. /\ top_level[k] = input[q[k]]
          /\ q[k] \in Passed(p, rest) /\ q[k] \in Meant
      BY <2>4 DEF SelectedSoFar, Origin, ImageOf
    <2>6. q[k] \in DOMAIN input /\ Before(i, q[k])
      BY <1>2, <2>5
    <2>7. q[k] # i
      BY <1>2, <2>6, BeforeOrders
    <2>8. q[k] \in RewriteIndices
      <3>1. q[k] \notin InsertIndices
        BY <2>4, <2>5 DEF InsertIndices
      <3> QED
        BY <2>5, <3>1 DEF Meant, Outermost
    <2>9. Within(input[i], input[q[k]])
      BY <1>2, <2>4, <2>5
    <2>10. ~SameRange(input[i], input[q[k]]) \/ q[k] > i
      BY <1>2, <2>6, <2>7, <2>9, InnerIsBefore
    <2> QED
      BY <1>5, <2>7, <2>8, <2>9, <2>10 DEF Outermost
  <1> QED
    BY <1>4, <1>5 DEF Meant

\* An effect that is meant is appended.
LEMMA ChooseResult ==
    ASSUME IInv, ResultInv, SelectInsert \/ SelectRewrite
    PROVE  ResultInv'
  <1>1. /\ phase = "select" /\ phase' = "select" /\ rest > 0 /\ rest' = rest - 1
        /\ input' = input /\ effects' = effects /\ inserts' = inserts /\ code' = code
        /\ top_level' = Append(top_level, effects[rest])
    BY DEF SelectInsert, SelectRewrite, Selecting, Choose, Current
  <1>2. ASSUME Plain
        PROVE  \E p, q : SortedFrom(p)' /\ SelectedSoFar(p, q)'
    <2>1. PICK p, q : SortedFrom(p) /\ SelectedSoFar(p, q)
      BY <1>1, <1>2 DEF ResultInv
    <2>2. /\ p[rest] \in DOMAIN input /\ effects[rest] = input[p[rest]]
          /\ Passed(p, rest - 1) = Passed(p, rest) \union {p[rest]}
          /\ \A j \in Passed(p, rest) : Before(p[rest], j)
      BY <1>1, <2>1, PassesOne
    <2>3. p[rest] \in Meant
      BY <1>2, <2>1, SelectedIsMeant
    <2> DEFINE n == Len(top_level)
               i == p[rest]
    <2>4. /\ n \in Nat /\ DOMAIN top_level = 1 .. n /\ DOMAIN top_level' = 1 .. n + 1
          /\ top_level'[n + 1] = input[i]
          /\ \A k \in 1 .. n : top_level'[k] = top_level[k]
      <3>1. top_level \in Seq(Effect)
        BY <1>1 DEF IInv, Selected, ChosenBehind
      <3>2. effects[rest] \in Effect
        BY <2>2, InputFields
      <3> QED
        BY <1>1, <2>2, <3>1, <3>2
    <2>5. /\ q \in [1 .. n -> DOMAIN input]
          /\ \A k \in 1 .. n : top_level[k] = input[q[k]]
          /\ \A k, l \in 1 .. n : k < l => Before(q[l], q[k])
          /\ {q[k] : k \in 1 .. n} = Passed(p, rest) \intersect Meant
      BY <2>1, <2>4 DEF SelectedSoFar, Origin, Backwards, ImageOf
    <2> HIDE DEF n, i
    <2>6. PICK r : /\ r \in [1 .. n + 1 -> DOMAIN input]
                   /\ r[n + 1] = i
                   /\ \A k \in 1 .. n : r[k] = q[k]
      <3> DEFINE s == [k \in 1 .. n + 1 |-> IF k = n + 1 THEN i ELSE q[k]]
      <3>1. /\ s[n + 1] = i
            /\ \A k \in 1 .. n : s[k] = q[k]
        BY <2>4
      <3>2. \A k \in 1 .. n + 1 : k # n + 1 => k \in 1 .. n
        BY <2>4
      <3>3. s \in [1 .. n + 1 -> DOMAIN input]
        BY <2>2, <2>5, <3>1, <3>2 DEF i
      <3> QED
        BY <3>1, <3>3
    <2>7. /\ \A k \in 1 .. n : k \in 1 .. n + 1 /\ k < n + 1
          /\ \A k \in 1 .. n + 1 : k # n + 1 => k \in 1 .. n
          /\ n + 1 \in 1 .. n + 1
      BY <2>4
    <2>8. Origin(r)'
      <3>1. \A k \in 1 .. n + 1 : top_level'[k] = input[r[k]]
        BY <2>4, <2>5, <2>6, <2>7
      <3> QED
        BY <1>1, <2>4, <2>6, <3>1 DEF Origin
    <2>9. Backwards(r)'
      <3>1. ASSUME NEW k \in 1 .. n + 1, NEW l \in 1 .. n + 1, k < l
            PROVE  Before(r[l], r[k])
        <4>1. k \in 1 .. n
          BY <2>4, <3>1
        <4>2. CASE l = n + 1
          <5>1. q[k] \in Passed(p, rest)
            BY <2>5, <4>1
          <5> QED
            BY <2>2, <2>6, <2>7, <4>1, <4>2, <5>1 DEF i
        <4>3. CASE l \in 1 .. n
          BY <2>5, <2>6, <3>1, <4>1, <4>3
        <4> QED
          BY <2>7, <4>2, <4>3
      <3>2. \A k, l : Before(k, l)' <=> Before(k, l)
        BY <1>1 DEF Before, Less
      <3> QED
        BY <2>4, <3>1, <3>2 DEF Backwards
    <2>10. ImageOf(r)' = (Passed(p, rest) \intersect Meant) \union {i}
      <3>1. ImageOf(r)' = {r[k] : k \in 1 .. n + 1}
        BY <2>4 DEF ImageOf
      <3>2. {r[k] : k \in 1 .. n + 1} = {q[k] : k \in 1 .. n} \union {i}
        BY <2>6, <2>7
      <3> QED
        BY <2>5, <3>1, <3>2
    <2>11. SelectedSoFar(p, r)'
      <3>1. Passed(p, rest)' = Passed(p, rest) \union {i}
        BY <1>1, <2>2 DEF Passed, i
      <3>2. Meant' = Meant
        BY <1>1, InputOnly
      <3>3. ImageOf(r)' = (Passed(p, rest) \intersect Meant)'
        BY <2>3, <2>10, <3>1, <3>2 DEF i
      <3> QED
        BY <2>8, <2>9, <3>3 DEF SelectedSoFar
    <2>12. SortedFrom(p)'
      BY <1>1, <2>1, SortedSame
    <2> QED
      BY <2>11, <2>12
  <1>3. Plain' <=> Plain
    BY <1>1, InputOnly
  <1> QED
    BY <1>1, <1>2, <1>3 DEF ResultInv

\* One that is not is left out.
LEMMA SkipResult ==
    ASSUME IInv, ResultInv, SelectSkip
    PROVE  ResultInv'
  <1>1. /\ phase = "select" /\ phase' = "select" /\ rest > 0 /\ rest' = rest - 1
        /\ input' = input /\ effects' = effects /\ inserts' = inserts /\ code' = code
        /\ top_level' = top_level
    BY DEF SelectSkip, Selecting
  <1>2. ASSUME Plain
        PROVE  \E p, q : SortedFrom(p)' /\ SelectedSoFar(p, q)'
    <2>1. PICK p, q : SortedFrom(p) /\ SelectedSoFar(p, q)
      BY <1>1, <1>2 DEF ResultInv
    <2>2. Passed(p, rest - 1) = Passed(p, rest) \union {p[rest]}
      BY <1>1, <2>1, PassesOne
    <2>3. p[rest] \notin Meant
      BY <1>2, <2>1, SkippedIsNot
    <2>4. Origin(q)' /\ Backwards(q)' /\ ImageOf(q)' = ImageOf(q)
      BY <1>1, <2>1 DEF SelectedSoFar, Origin, Backwards, ImageOf, Before, Less
    <2>5. Passed(p, rest)' = Passed(p, rest) \union {p[rest]}
      BY <1>1, <2>2 DEF Passed
    <2>6. Meant' = Meant
      BY <1>1, InputOnly
    <2>7. ImageOf(q)' = (Passed(p, rest) \intersect Meant)'
      BY <2>1, <2>3, <2>4, <2>5, <2>6 DEF SelectedSoFar
    <2>8. SortedFrom(p)'
      BY <1>1, <2>1, SortedSame
    <2> QED
      BY <2>4, <2>7, <2>8 DEF SelectedSoFar
  <1>3. Plain' <=> Plain
    BY <1>1, InputOnly
  <1> QED
    BY <1>1, <1>2, <1>3 DEF ResultInv

\* Where the loop ends, those it has not seen are in front of the range.
LEMMA SelectDoneResult ==
    ASSUME IInv, ResultInv, SelectDone
    PROVE  ResultInv'
  <1>1. /\ phase = "select" /\ phase' \in {"filter", "error"} /\ rest' = rest
        /\ input' = input /\ effects' = effects /\ inserts' = inserts /\ code' = code
        /\ top_level' = top_level /\ next' = next
        /\ rest > 0 => effects[rest].end < left
    BY DEF SelectDone, Current
  <1>2. ASSUME Plain
        PROVE  \E q : Filtered(q)'
    <2>1. PICK p, q : SortedFrom(p) /\ SelectedSoFar(p, q)
      BY <1>1, <1>2 DEF ResultInv
    <2>2. /\ DOMAIN effects = DOMAIN input
          /\ \A k \in DOMAIN input : p[k] \in DOMAIN input /\ effects[k] = input[p[k]]
          /\ \A l \in DOMAIN input : \E k \in DOMAIN input : p[k] = l
      BY <2>1, OrderBefore
    <2>3. /\ effects \in Seq(Effect) /\ rest \in 0 .. Len(effects) /\ Ordered(effects)
          /\ DOMAIN effects = 1 .. Len(effects) /\ Len(effects) \in Nat
      BY <1>1 DEF IInv, EndSorted
    <2>4. ASSUME NEW j \in Meant PROVE j \in Passed(p, rest)
      <3>1. j \in DOMAIN input /\ InRange(input[j])
        BY <2>4 DEF Meant, InsertIndices, Outermost, RewriteIndices
      <3>2. PICK m \in DOMAIN input : p[m] = j
        BY <2>2, <3>1
      <3>3. effects[m] = input[j] /\ m \in 1 .. Len(effects)
        BY <2>2, <2>3, <3>2
      <3>4. left <= effects[m].end /\ effects[m].end \in Nat
        <4>1. /\ input[j].start \in Nat /\ input[j].end \in Nat
              /\ input[j].start <= input[j].end
          BY <3>1, InputFields
        <4> QED
          BY <3>1, <3>3, <4>1, RangeAssumption DEF InRange
      <3>5. ~(m <= rest)
        <4> SUFFICES ASSUME m <= rest PROVE FALSE
          OBVIOUS
        <4>1. rest \in DOMAIN effects /\ rest > 0 /\ effects[rest].end \in Nat
          BY <2>3, <3>3, Fields
        <4>2. effects[m].end <= effects[rest].end
          <5>1. CASE m = rest
            BY <3>4, <5>1
          <5>2. CASE m < rest
            BY <2>3, <3>3, <4>1, <5>2 DEF Ordered
          <5> QED
            BY <2>3, <3>3, <5>1, <5>2
        <4> QED
          BY <1>1, <3>4, <4>1, <4>2, RangeAssumption
      <3>6. m \in rest + 1 .. Len(effects)
        BY <2>3, <3>3, <3>5
      <3> QED
        BY <3>2, <3>6 DEF Passed
    <2>5. ImageOf(q) = Meant
      BY <2>1, <2>4 DEF SelectedSoFar
    <2>6. Origin(q)' /\ Backwards(q)' /\ ImageOf(q)' = ImageOf(q)
      BY <1>1, <2>1 DEF SelectedSoFar, Origin, Backwards, ImageOf, Before, Less
    <2>7. Meant' = Meant /\ Outermost' = Outermost /\ InsertIndices' = InsertIndices
      BY <1>1, InputOnly
    <2>8. /\ Outermost' \subseteq ImageOf(q)' /\ ImageOf(q)' \subseteq Meant'
          /\ InsertIndices' \ ImageOf(q)' = {}
      BY <2>5, <2>6, <2>7 DEF Meant
    <2> QED
      BY <2>6, <2>8 DEF Filtered
  <1>3. SeenFrom'
    BY <1>1 DEF ResultInv, SeenFrom
  <1>4. NoRepeat(next)'
    <2>1. next' = 1 /\ top_level \in Seq(Effect)
      BY <1>1 DEF IInv, Selected, ChosenBehind
    <2>2. \A k \in DOMAIN top_level' : ~(k < 1)
      BY <1>1, <2>1
    <2> QED
      BY <2>1, <2>2 DEF NoRepeat
  <1>5. Plain' <=> Plain
    BY <1>1, InputOnly
  <1> QED
    BY <1>1, <1>2, <1>3, <1>4, <1>5 DEF ResultInv

-----------------------------------------------------------------------------
(* filter_out_nested keeps what is meant.                                  *)

\* What is known of an effect that was selected.
LEMMA ChosenFields ==
    ASSUME IInv, NEW q, Origin(q), ImageOf(q) \subseteq Meant, NEW k \in DOMAIN top_level
    PROVE  /\ q[k] \in DOMAIN input /\ top_level[k] = input[q[k]]
           /\ top_level[k].start \in Nat /\ top_level[k].end \in Nat
           /\ top_level[k].start <= top_level[k].end
           /\ \/ /\ top_level[k].kind = "Rewrite" /\ q[k] \in Outermost
                 /\ Start(top_level[k]) = top_level[k].start
              \/ /\ top_level[k].kind = "Insert" /\ q[k] \in InsertIndices
                 /\ Start(top_level[k]) = top_level[k].end
  <1>1. q[k] \in DOMAIN input /\ top_level[k] = input[q[k]] /\ q[k] \in Meant
    BY DEF Origin, ImageOf
  <1>2. /\ top_level[k].start \in Nat /\ top_level[k].end \in Nat
        /\ top_level[k].start <= top_level[k].end
        /\ top_level[k].kind \in {"Rewrite", "Insert"}
        /\ Start(top_level[k]) = IF top_level[k].kind = "Insert" THEN top_level[k].end
                                 ELSE top_level[k].start
    BY <1>1, InputFields
  <1>3. CASE q[k] \in InsertIndices
    BY <1>1, <1>2, <1>3 DEF InsertIndices
  <1>4. CASE q[k] \in Outermost
    <2>1. top_level[k].kind = "Rewrite"
      BY <1>1, <1>4 DEF Outermost, RewriteIndices
    <2> QED
      BY <1>1, <1>2, <1>4, <2>1
  <1> QED
    BY <1>1, <1>2, <1>3, <1>4 DEF Meant

\* Two insertions with one text, at the two ends of a rewrite.
LEMMA TwinsByTwo ==
    ASSUME NEW r \in Outermost, NEW i \in InsertIndices, NEW j \in InsertIndices,
           input[r].start # input[r].end,
           {input[i].end, input[j].end} = {input[r].start, input[r].end},
           input[i].text = input[j].text
    PROVE  Twins
  <1>1. input[i].end \in {input[r].start, input[r].end}
    OBVIOUS
  <1>2. \E k \in InsertIndices :
          /\ input[r].start # input[r].end
          /\ {input[i].end, input[k].end} = {input[r].start, input[r].end}
          /\ input[i].text = input[k].text
    OBVIOUS
  <1> QED
    BY <1>1, <1>2 DEF Twins

\* A rewrite is never dropped; an insertion only where it is within a rewrite or
\* repeats one that stays.
LEMMA DroppedIsLost ==
    ASSUME IInv, EditInv, phase = "filter", Plain, ~Twins, NEW q, Filtered(q), SeenFrom,
           next \in DOMAIN top_level, NEW k \in DOMAIN top_level, k \notin Kept
    PROVE  /\ q[k] \in InsertIndices
           /\ \/ Swallowed(q[k])
              \/ \E c \in DOMAIN top_level : c <= next /\ Repeated(q[k], q[c])
  <1> DEFINE a == top_level[next]
             b == top_level[k]
             i == q[k]
  <1>1. /\ Origin(q) /\ Backwards(q) /\ ImageOf(q) \subseteq Meant
        /\ RewritesApart /\ TypeOK
    BY DEF Filtered, EditInv
  <1>2. /\ next \in Nat /\ k \in Nat /\ next < k
        /\ Drops(a, b, inserts[a.end] \union {a.text})
    <2>1. top_level \in Seq(Effect)
      BY <1>1 DEF TypeOK
    <2>2. next \in Nat /\ k \in Nat
      BY <2>1
    <2> QED
      BY <2>2 DEF Kept
  <1>3. /\ q[next] \in DOMAIN input /\ a = input[q[next]]
        /\ a.start \in Nat /\ a.end \in Nat /\ a.start <= a.end
        /\ \/ a.kind = "Rewrite" /\ q[next] \in Outermost /\ Start(a) = a.start
           \/ a.kind = "Insert" /\ q[next] \in InsertIndices /\ Start(a) = a.end
    BY <1>1, ChosenFields
  <1>4. /\ i \in DOMAIN input /\ b = input[i]
        /\ b.start \in Nat /\ b.end \in Nat /\ b.start <= b.end
        /\ \/ b.kind = "Rewrite" /\ i \in Outermost /\ Start(b) = b.start
           \/ b.kind = "Insert" /\ i \in InsertIndices /\ Start(b) = b.end
    BY <1>1, ChosenFields
  <1>5. Start(a) <= Start(b) /\ b.end <= a.end
    BY <1>2, <1>3, <1>4 DEF Drops
  <1>6. a.kind = "Rewrite" /\ b.kind = "Rewrite" => b.end <= a.start
    BY <1>1, <1>2 DEF RewritesApart
  <1>7. \A c \in DOMAIN top_level : c <= next => Before(i, q[c])
    <2>1. \A c \in DOMAIN top_level : c \in Nat
      <3>1. top_level \in Seq(Effect)
        BY <1>1 DEF TypeOK
      <3> QED
        BY <3>1
    <2> QED
      BY <1>1, <1>2, <2>1 DEF Backwards
  <1>8. ASSUME NEW x \in inserts[a.end]
        PROVE  \E c \in DOMAIN top_level :
                  /\ c <= next /\ c < next
                  /\ top_level[c].end = a.end /\ top_level[c].text = x
    <2>1. a.end \in DOMAIN inserts
      <3>1. InRange(a)
        BY <1>1, <1>3 DEF InsertIndices, Outermost, RewriteIndices
      <3>2. inserts \in [0 .. Len(source) -> SUBSET Seq(STRING)]
        BY <1>1 DEF TypeOK
      <3>3. Len(source) \in Nat
        BY SourceAssumption
      <3> QED
        BY <1>3, <3>1, <3>2, <3>3, RangeAssumption DEF InRange
    <2>2. PICK c \in DOMAIN top_level :
             c < next /\ top_level[c].end = a.end /\ top_level[c].text = x
      BY <1>8, <2>1 DEF SeenFrom
    <2>3. c \in Nat
      <3>1. top_level \in Seq(Effect)
        BY <1>1 DEF TypeOK
      <3> QED
        BY <3>1
    <2> QED
      BY <1>2, <2>2, <2>3
  <1>9. ~Before(i, i)
    BY <1>4, BeforeOrders
  \* Two rewrites that are selected are apart, and an empty one has a text of its own.
  <1>10. ASSUME b.kind = "Rewrite" PROVE FALSE
    <2>1. i \in Outermost /\ i \in RewriteIndices /\ Start(b) = b.start
      BY <1>4, <1>10 DEF Outermost
    <2>2. CASE a.kind = "Rewrite"
      <3>1. b.start = b.end /\ b.end = a.start
        BY <1>3, <1>4, <1>5, <1>6, <1>10, <2>1, <2>2
      <3>2. q[next] \in RewriteIndices
        BY <1>3, <2>2 DEF Outermost
      <3>3. q[next] # i
        BY <1>2, <1>7, <1>9
      <3>4. EmptyBeside
        BY <1>3, <1>4, <2>1, <3>1, <3>2, <3>3 DEF EmptyBeside
      <3> QED
        BY <3>4 DEF Plain
    <2>3. CASE a.kind = "Insert"
      <3>1. b.start = b.end /\ b.end = a.end /\ Start(a) = Start(b) /\ Start(b) = b.end
        BY <1>3, <1>4, <1>5, <2>1, <2>3
      <3>2. b.text \in inserts[a.end] \union {a.text}
        BY <1>2, <1>4, <3>1 DEF Drops
      <3>3. ASSUME NEW c \in DOMAIN top_level, c <= next,
                   top_level[c].end = b.end, top_level[c].text = b.text
            PROVE  FALSE
        <4> DEFINE d == top_level[c]
        <4>1. /\ q[c] \in DOMAIN input /\ d = input[q[c]]
              /\ d.start \in Nat /\ d.end \in Nat /\ d.start <= d.end
              /\ \/ d.kind = "Rewrite" /\ q[c] \in Outermost
                 \/ d.kind = "Insert" /\ q[c] \in InsertIndices
          BY <1>1, ChosenFields
        <4>2. q[c] # i
          BY <1>7, <1>9, <3>3
        <4>3. CASE d.kind = "Insert"
          <5>1. q[c] \in InsertIndices
            BY <4>1, <4>3
          <5>2. input[q[c]].end \in {input[i].start, input[i].end}
                /\ input[q[c]].text = input[i].text
            BY <1>4, <3>3, <4>1
          <5> QED
            BY <2>1, <5>1, <5>2 DEF Twins
        <4>4. CASE d.kind = "Rewrite"
          <5>1. q[c] \in RewriteIndices
            BY <4>1, <4>4 DEF Outermost
          <5>2. CASE d.start = d.end
            <6>1. /\ input[i].start = input[i].end
                  /\ input[i].end = input[q[c]].start
              BY <1>4, <3>1, <3>3, <4>1, <5>2
            <6>2. EmptyBeside
              BY <2>1, <4>2, <5>1, <6>1 DEF EmptyBeside
            <6> QED
              BY <6>2 DEF Plain
          <5>3. CASE d.start # d.end
            <6>1. Within(input[i], input[q[c]]) /\ ~SameRange(input[i], input[q[c]])
              BY <1>4, <3>1, <3>3, <4>1, <5>3 DEF Within, SameRange
            <6> QED
              BY <2>1, <4>2, <5>1, <6>1 DEF Outermost
          <5> QED
            BY <5>2, <5>3
        <4> QED
          BY <4>1, <4>3, <4>4
      <3>4. CASE b.text = a.text
        BY <1>2, <3>1, <3>3, <3>4
      <3>5. CASE b.text \in inserts[a.end]
        BY <1>8, <3>1, <3>3, <3>5
      <3> QED
        BY <3>2, <3>4, <3>5
    <2> QED
      BY <1>3, <2>2, <2>3
  <1>11. i \in InsertIndices /\ Start(b) = b.end
    BY <1>4, <1>10
  <1>12. CASE Start(a) < b.end /\ b.end < a.end
    <2>1. q[next] \in Outermost /\ Start(a) = a.start
      BY <1>3, <1>4, <1>12
    <2> QED
      BY <1>3, <1>4, <1>11, <1>12, <2>1 DEF Swallowed
  <1>13. CASE ~(Start(a) < b.end /\ b.end < a.end)
    <2>1. b.text \in inserts[a.end] \union {a.text}
      BY <1>2, <1>3, <1>4, <1>11, <1>13 DEF Drops
    <2>2. b.end \in {Start(a), a.end}
      BY <1>3, <1>4, <1>5, <1>11, <1>13
    <2>3. CASE b.text = a.text
      <3>1. a.kind # "Rewrite"
        BY <1>3, <1>4, <1>11, <2>2, <2>3 DEF Twins
      <3>2. q[next] \in InsertIndices /\ a.end = b.end
        BY <1>3, <2>2, <3>1
      <3>3. Repeated(i, q[next])
        BY <1>2, <1>3, <1>4, <1>7, <2>3, <3>2 DEF Repeated
      <3> QED
        BY <1>2, <1>11, <3>3
    <2>4. CASE b.text \in inserts[a.end]
      <3>1. PICK c \in DOMAIN top_level :
               /\ c <= next /\ c < next
               /\ top_level[c].end = a.end /\ top_level[c].text = b.text
        BY <1>8, <2>4
      <3> DEFINE d == top_level[c]
      <3>2. /\ q[c] \in DOMAIN input /\ d = input[q[c]]
            /\ d.start \in Nat /\ d.end \in Nat /\ d.start <= d.end
            /\ \/ d.kind = "Rewrite" /\ q[c] \in Outermost /\ Start(d) = d.start
               \/ d.kind = "Insert" /\ q[c] \in InsertIndices /\ Start(d) = d.end
        BY <1>1, ChosenFields
      <3>3. d.kind = "Rewrite" /\ a.kind = "Rewrite" => a.end <= d.start
        BY <1>1, <3>1 DEF RewritesApart
      <3>4. CASE b.end = a.end
        <4>1. d.kind # "Rewrite"
          BY <1>4, <1>11, <3>1, <3>2, <3>4 DEF Twins
        <4>2. Repeated(i, q[c])
          BY <1>4, <1>7, <3>1, <3>2, <3>4, <4>1 DEF Repeated
        <4> QED
          BY <1>11, <3>1, <4>2
      <3>5. CASE b.end # a.end
        <4>1. b.end = Start(a) /\ Start(a) # a.end
          BY <2>2, <3>5
        <4>2. /\ a.kind = "Rewrite" /\ q[next] \in Outermost /\ b.end = a.start
              /\ a.start # a.end
          BY <1>3, <4>1
        \* A rewrite that ends where the other does, and begins there, is within it.
        <4>3. ASSUME d.kind = "Rewrite" PROVE FALSE
          <5>1. d.start = d.end /\ d.end = a.end
            BY <1>3, <3>1, <3>2, <3>3, <4>2, <4>3
          <5>2. /\ Within(input[q[c]], input[q[next]])
                /\ ~SameRange(input[q[c]], input[q[next]])
            BY <1>3, <3>2, <4>2, <5>1 DEF Within, SameRange
          <5>3. q[c] \in Outermost /\ q[next] \in RewriteIndices
            BY <3>2, <4>2, <4>3 DEF Outermost
          <5>4. q[c] # q[next]
            BY <1>3, <3>2, <4>2, <5>1
          <5> QED
            BY <5>2, <5>3, <5>4 DEF Outermost
        <4>4. d.kind = "Insert" /\ q[c] \in InsertIndices
          BY <3>2, <4>3
        <4>5. {input[i].end, input[q[c]].end} = {input[q[next]].start, input[q[next]].end}
              /\ input[i].text = input[q[c]].text
              /\ input[q[next]].start # input[q[next]].end
          BY <1>3, <1>4, <3>1, <3>2, <4>2
        <4>6. i \in InsertIndices /\ q[c] \in InsertIndices /\ q[next] \in Outermost
          BY <1>11, <4>2, <4>4
        <4> HIDE DEF i, a, b, d
        <4>7. Twins
          BY <4>5, <4>6, TwinsByTwo
        <4> QED
          BY <4>7
      <3> QED
        BY <3>4, <3>5
    <2> QED
      BY <2>1, <2>3, <2>4
  <1> QED
    BY <1>12, <1>13

\* One round of filter_out_nested.
LEMMA FilterResult ==
    ASSUME IInv, EditInv, ResultInv, FilterNested
    PROVE  ResultInv'
  <1> DEFINE a == top_level[next]
             seen == inserts[a.end] \union {a.text}
  <1>1. /\ phase = "filter" /\ phase' = "filter" /\ next' = next + 1
        /\ input' = input /\ code' = code
        /\ inserts' = [inserts EXCEPT ![a.end] = seen]
    BY DEF FilterNested
  <1>2. Plain' <=> Plain
    BY <1>1, InputOnly
  <1>3. Twins' <=> Twins
    BY <1>1, InputOnly
  <1>4. SUFFICES ASSUME Plain, ~Twins
                 PROVE  (\E q : Filtered(q)') /\ SeenFrom' /\ NoRepeat(next)'
    BY <1>1, <1>2, <1>3 DEF ResultInv
  <1>5. PICK q : Filtered(q)
    BY <1>1, <1>4 DEF ResultInv
  <1>6. SeenFrom /\ NoRepeat(next)
    BY <1>1, <1>4 DEF ResultInv
  <1>7. next \in DOMAIN top_level /\ top_level' \in Seq(Effect) /\ top_level \in Seq(Effect)
    BY FilterKeeps DEF EditInv, TypeOK
  <1>8. PICK f : KeptFrom(f)
    BY FilterKeeps
  <1>9. /\ next \in Nat /\ next' \in Nat
        /\ \A k \in DOMAIN top_level : k \in Nat
        /\ \A k \in DOMAIN top_level' : k \in Nat
    BY <1>1, <1>7
  <1>10. /\ \A i \in DOMAIN top_level' : /\ f[i] \in Kept /\ f[i] \in DOMAIN top_level
                                         /\ top_level'[i] = top_level[f[i]]
         /\ \A i, j \in DOMAIN top_level' : i < j => f[i] < f[j]
         /\ \A k \in Kept : \E i \in DOMAIN top_level' : f[i] = k
         /\ \A i \in DOMAIN top_level : i <= next => i \in DOMAIN top_level' /\ f[i] = i
    <2>1. Kept \subseteq DOMAIN top_level
      BY DEF Kept
    <2>2. \A i \in DOMAIN top_level : i <= next => i \in 1 .. next
      BY <1>7, <1>9
    <2> QED
      BY <1>8, <2>1, <2>2 DEF KeptFrom
  <1>11. /\ Origin(q) /\ Backwards(q) /\ Outermost \subseteq ImageOf(q)
         /\ ImageOf(q) \subseteq Meant
         /\ \A i \in InsertIndices \ ImageOf(q) : Lost(i, q)
    BY <1>5 DEF Filtered
  <1>12. \E r : Filtered(r)'
    <2>1. PICK r : /\ r \in [DOMAIN top_level' -> DOMAIN input]
                   /\ \A i \in DOMAIN top_level' : r[i] = q[f[i]]
      <3> DEFINE s == [i \in DOMAIN top_level' |-> q[f[i]]]
      <3>1. \A i \in DOMAIN top_level' : q[f[i]] \in DOMAIN input
        BY <1>10, <1>11 DEF Origin
      <3>2. /\ s \in [DOMAIN top_level' -> DOMAIN input]
            /\ \A i \in DOMAIN top_level' : s[i] = q[f[i]]
        BY <3>1
      <3> HIDE DEF s
      <3> QED
        BY <3>2
    <2>2. Origin(r)'
      <3>1. \A i \in DOMAIN top_level' : top_level'[i] = input[r[i]]
        BY <1>10, <1>11, <2>1 DEF Origin
      <3> QED
        BY <1>1, <2>1, <3>1 DEF Origin
    <2>3. Backwards(r)'
      <3>1. ASSUME NEW i \in DOMAIN top_level', NEW j \in DOMAIN top_level', i < j
            PROVE  Before(r[j], r[i])
        <4>1. f[i] \in DOMAIN top_level /\ f[j] \in DOMAIN top_level /\ f[i] < f[j]
          BY <1>10, <3>1
        <4> QED
          BY <1>11, <2>1, <3>1, <4>1 DEF Backwards
      <3>2. \A i, j : Before(i, j)' <=> Before(i, j)
        BY <1>1 DEF Before, Less
      <3> QED
        BY <3>1, <3>2 DEF Backwards
    <2>4. ImageOf(r)' = {q[k] : k \in Kept}
      <3>1. ImageOf(r)' = {r[i] : i \in DOMAIN top_level'}
        BY DEF ImageOf
      <3>2. {r[i] : i \in DOMAIN top_level'} = {q[k] : k \in Kept}
        BY <1>10, <2>1
      <3> QED
        BY <3>1, <3>2
    <2>5. {q[k] : k \in Kept} \subseteq ImageOf(q)
      <3>1. Kept \subseteq DOMAIN top_level
        BY DEF Kept
      <3> QED
        BY <3>1 DEF ImageOf
    <2>6. \A k \in DOMAIN top_level : k \notin Kept =>
              /\ q[k] \in InsertIndices
              /\ \/ Swallowed(q[k])
                 \/ \E c \in DOMAIN top_level : c <= next /\ Repeated(q[k], q[c])
      BY <1>1, <1>4, <1>5, <1>6, <1>7, DroppedIsLost
    <2>7. Outermost \subseteq {q[k] : k \in Kept}
      <3> SUFFICES ASSUME NEW i \in Outermost PROVE i \in {q[k] : k \in Kept}
        OBVIOUS
      <3>1. PICK k \in DOMAIN top_level : q[k] = i
        BY <1>11 DEF ImageOf
      <3>2. q[k] \notin InsertIndices
        BY <3>1 DEF Outermost, RewriteIndices, InsertIndices
      <3> QED
        BY <2>6, <3>1, <3>2
    <2>8. ASSUME NEW i \in InsertIndices \ {q[k] : k \in Kept}
          PROVE  \/ Swallowed(i)
                 \/ \E c \in DOMAIN top_level : c <= next /\ Repeated(i, q[c])
      <3>1. CASE i \in ImageOf(q)
        <4>1. PICK k \in DOMAIN top_level : q[k] = i
          BY <3>1 DEF ImageOf
        <4> QED
          BY <2>6, <2>8, <4>1
      <3>2. CASE i \notin ImageOf(q)
        <4>1. Lost(i, q)
          BY <1>11, <2>8, <3>2
        <4>2. \A c \in DOMAIN top_level : c < next => c <= next
          BY <1>9
        <4> QED
          BY <4>1, <4>2 DEF Lost
      <3> QED
        BY <3>1, <3>2
    <2>9. /\ Outermost' = Outermost /\ InsertIndices' = InsertIndices /\ Meant' = Meant
      BY <1>1, InputOnly
    <2>10. \A i, j : /\ Swallowed(i)' <=> Swallowed(i)
                     /\ Repeated(i, j)' <=> Repeated(i, j)
      BY <1>1, <2>9 DEF Swallowed, Repeated, Before, Less
    <2>11. ASSUME NEW i \in InsertIndices \ {q[k] : k \in Kept}
           PROVE  Lost(i, r)'
      <3>1. CASE Swallowed(i)
        BY <2>10, <3>1 DEF Lost
      <3>2. CASE \E c \in DOMAIN top_level : c <= next /\ Repeated(i, q[c])
        <4>1. PICK c \in DOMAIN top_level : c <= next /\ Repeated(i, q[c])
          BY <3>2
        <4>2. c \in DOMAIN top_level' /\ r[c] = q[c] /\ c < next'
          BY <1>1, <1>9, <1>10, <2>1, <4>1
        <4> QED
          BY <2>10, <4>1, <4>2 DEF Lost
      <3> QED
        BY <2>8, <3>1, <3>2
    <2>12. /\ Outermost' \subseteq ImageOf(r)' /\ ImageOf(r)' \subseteq Meant'
           /\ \A i \in InsertIndices' \ ImageOf(r)' : Lost(i, r)'
      BY <1>11, <2>4, <2>5, <2>7, <2>9, <2>11
    <2> QED
      BY <2>2, <2>3, <2>12 DEF Filtered
  <1>13. SeenFrom'
    <2> SUFFICES ASSUME NEW pos \in DOMAIN inserts', NEW x \in inserts'[pos]
                 PROVE  \E k \in DOMAIN top_level' :
                          k < next' /\ top_level'[k].end = pos /\ top_level'[k].text = x
      BY DEF SeenFrom
    <2>1. DOMAIN inserts' = DOMAIN inserts
      BY <1>1
    <2>2. \/ pos = a.end /\ x = a.text
          \/ x \in inserts[pos]
      BY <1>1, <2>1
    <2>3. CASE pos = a.end /\ x = a.text
      <3>1. next \in DOMAIN top_level' /\ f[next] = next /\ next < next'
        BY <1>1, <1>7, <1>9, <1>10
      <3> QED
        BY <1>10, <2>3, <3>1
    <2>4. CASE x \in inserts[pos]
      <3>1. PICK k \in DOMAIN top_level :
                k < next /\ top_level[k].end = pos /\ top_level[k].text = x
        BY <1>6, <2>1, <2>4 DEF SeenFrom
      <3>2. k \in DOMAIN top_level' /\ f[k] = k /\ k < next'
        BY <1>1, <1>9, <1>10, <3>1
      <3> QED
        BY <1>10, <3>1, <3>2
    <2> QED
      BY <2>2, <2>3, <2>4
  <1>14. NoRepeat(next)'
    <2> SUFFICES ASSUME NEW k \in DOMAIN top_level', NEW l \in DOMAIN top_level',
                        k < l, k < next',
                        top_level'[k].kind = "Insert", top_level'[l].kind = "Insert",
                        top_level'[k].end = top_level'[l].end
                 PROVE  top_level'[k].text # top_level'[l].text
      BY DEF NoRepeat
    <2>1. k \in Nat /\ k <= next /\ k \in DOMAIN top_level
      BY <1>1, <1>7, <1>9
    <2>2. f[k] = k /\ f[l] \in Kept /\ f[l] \in DOMAIN top_level /\ k < f[l]
          /\ top_level'[k] = top_level[k] /\ top_level'[l] = top_level[f[l]]
      BY <1>10, <2>1
    <2>3. CASE k < next
      BY <1>6, <2>1, <2>2, <2>3 DEF NoRepeat
    <2>4. CASE k = next
      <3> DEFINE b == top_level[f[l]]
      <3>1. ~Drops(a, b, seen)
        <4>1. ~(f[l] <= next)
          BY <1>9, <2>2, <2>4
        <4> QED
          BY <2>2, <4>1 DEF Kept
      <3>2. a.end = b.end /\ Start(a) = a.end /\ Start(b) = b.end /\ a.end \in Nat
        <4>1. a \in Effect
          BY <1>7
        <4> QED
          BY <2>2, <2>4, <4>1, Fields DEF Start
      <3>3. b.text \notin seen
        BY <3>1, <3>2 DEF Drops
      <3> QED
        BY <2>2, <2>4, <3>3
    <2> QED
      BY <1>9, <2>1, <2>3, <2>4
  <1> QED
    BY <1>12, <1>13, <1>14

-----------------------------------------------------------------------------
(* Texts: stretches of the source, and what is behind an edit.             *)

\* A stretch of the source.
LEMMA Stretch ==
    ASSUME NEW i \in Nat, NEW j \in Nat, i <= j, j <= Len(source)
    PROVE  /\ SubSeq(source, i + 1, j) \in Seq(STRING)
           /\ Len(SubSeq(source, i + 1, j)) = j - i
  <1>1. source \in Seq(STRING) /\ j - i \in Nat /\ i + (j - i) = j
    BY SourceAssumption
  <1> DEFINE len == j - i
  <1>2. len \in Nat /\ i + len = j
    BY <1>1
  <1> HIDE DEF len
  <1>3. /\ SubSeq(source, i + 1, i + len) \in Seq(STRING)
        /\ Len(SubSeq(source, i + 1, i + len)) = len
    BY <1>1, <1>2, CutOut
  <1> QED
    BY <1>2, <1>3 DEF len

\* Two stretches that are one behind the other.
LEMMA StretchJoins ==
    ASSUME NEW i \in Nat, NEW j \in Nat, NEW k \in Nat, i <= j, j <= k, k <= Len(source)
    PROVE  SubSeq(source, i + 1, j) \o SubSeq(source, j + 1, k) = SubSeq(source, i + 1, k)
  <1>1. source \in Seq(STRING) /\ Len(source) \in Nat
    BY SourceAssumption
  <1> DEFINE m == i + 1
  <1>2. /\ m \in 1 .. Len(source) + 1 /\ j \in m - 1 .. Len(source)
        /\ k \in j .. Len(source)
    BY <1>1
  <1> HIDE DEF m
  <1>3. SubSeq(source, m, j) \o SubSeq(source, j + 1, k) = SubSeq(source, m, k)
    BY <1>1, <1>2, ConcatAdjacentSubSeq
  <1> QED
    BY <1>3 DEF m

\* n texts put in front of another one, one after the other from the last.
Prepended(m, n, a, base, b) ==
    /\ b \in [m .. n -> Seq(STRING)]
    /\ b[n] = base
    /\ \A k \in m .. n - 1 : b[k] = a[k + 1] \o b[k + 1]

\* There are such texts.
LEMMA PrependedExists ==
    ASSUME NEW n \in Nat, NEW a \in [1 .. n -> Seq(STRING)], NEW base \in Seq(STRING)
    PROVE  \E b : Prepended(0, n, a, base, b)
  <1> DEFINE T == {m \in Nat : m <= n /\ ~\E b : Prepended(n - m, n, a, base, b)}
  <1> SUFFICES ASSUME T # {} PROVE FALSE
    <2>1. n <= n /\ n - n = 0
      OBVIOUS
    <2> QED
      BY <2>1
  <1>1. PICK m \in T : \A x \in T : m <= x
    <2>1. T \subseteq Nat
      OBVIOUS
    <2> HIDE DEF T
    <2> QED
      BY <2>1, LeastElement
  <1>2. m # 0
    <2> DEFINE b == [k \in n .. n |-> base]
    <2>1. b \in [n .. n -> Seq(STRING)] /\ b[n] = base
      OBVIOUS
    <2>2. n .. n - 1 = {}
      OBVIOUS
    <2>3. n - 0 = n
      OBVIOUS
    <2> HIDE DEF b
    <2>4. Prepended(n, n, a, base, b)
      BY <2>1, <2>2 DEF Prepended
    <2> QED
      BY <1>1, <2>3, <2>4
  <1>3. m \in Nat /\ m - 1 \in Nat /\ m <= n /\ m - 1 <= n /\ ~(m <= m - 1)
    BY <1>1, <1>2
  <1>4. m - 1 \notin T
    <2> HIDE DEF T
    <2> QED
      BY <1>1, <1>3
  <1>5. PICK b : Prepended(n - (m - 1), n, a, base, b)
    BY <1>3, <1>4
  <1> DEFINE l == n - m
  <1>6. /\ l \in Nat /\ l + 1 \in 1 .. n /\ n - (m - 1) = l + 1 /\ l # n
        /\ \A k \in l .. n : k # l => k \in l + 1 .. n
        /\ \A k \in l .. n - 1 : k # l => k \in l + 1 .. n - 1
        /\ \A k \in l + 1 .. n : k \in l .. n /\ k # l
        /\ \A k \in l .. n - 1 : k + 1 \in l + 1 .. n
        /\ n \in l .. n
    BY <1>3
  <1> HIDE DEF l
  <1>7. /\ b \in [l + 1 .. n -> Seq(STRING)] /\ b[n] = base
        /\ \A k \in l + 1 .. n - 1 : b[k] = a[k + 1] \o b[k + 1]
    BY <1>5, <1>6 DEF Prepended
  <1> DEFINE first == a[l + 1] \o b[l + 1]
             c == [k \in l .. n |-> IF k = l THEN first ELSE b[k]]
  <1>8. first \in Seq(STRING)
    <2>1. a[l + 1] \in Seq(STRING) /\ b[l + 1] \in Seq(STRING)
      <3>1. l + 1 \in l + 1 .. n
        BY <1>6
      <3> QED
        BY <1>6, <1>7, <3>1
    <2> QED
      BY <2>1, ConcatProperties
  <1>9. c[l] = first /\ \A k \in l + 1 .. n : c[k] = b[k]
    <2>1. l \in l .. n
      BY <1>6
    <2> HIDE DEF first
    <2>2. c[l] = first
      BY <2>1
    <2>3. ASSUME NEW k \in l + 1 .. n PROVE c[k] = b[k]
      <3>1. k \in l .. n /\ k # l
        BY <1>6
      <3> QED
        BY <3>1
    <2> QED
      BY <2>2, <2>3
  <1>10. c \in [l .. n -> Seq(STRING)]
    <2> HIDE DEF first
    <2> QED
      BY <1>6, <1>7, <1>8
  <1> HIDE DEF c
  <1>11. Prepended(l, n, a, base, c)
    <2>1. c[n] = base
      BY <1>6, <1>7, <1>9
    <2>2. ASSUME NEW k \in l .. n - 1 PROVE c[k] = a[k + 1] \o c[k + 1]
      <3>1. c[k + 1] = b[k + 1]
        BY <1>6, <1>9
      <3>2. CASE k = l
        BY <1>9, <3>1, <3>2
      <3>3. CASE k # l
        <4>1. k \in l + 1 .. n - 1 /\ k \in l + 1 .. n
          BY <1>6, <3>3
        <4> QED
          BY <1>7, <1>9, <3>1, <4>1
      <3> QED
        BY <3>2, <3>3
    <2> QED
      BY <1>10, <2>1, <2>2 DEF Prepended
  <1> QED
    BY <1>1, <1>11 DEF l

\* The ends and the starts of edits that are in order.
LEMMA EndsRise ==
    ASSUME NEW s \in Seq(Effect), \A i \in DOMAIN s : Placed(s[i]), InOrder(s),
           NEW k \in 0 .. Len(s)
    PROVE  /\ EndOf(s, k) \in Nat /\ left <= EndOf(s, k) /\ EndOf(s, k) <= right
           /\ k < Len(s) =>
                LET e == s[Len(s) + 1 - (k + 1)]
                IN  /\ Start(e) \in Nat /\ e.text \in Seq(STRING)
                    /\ EndOf(s, k) <= Start(e) /\ Start(e) <= e.end /\ e.end <= right
                    /\ e.end = EndOf(s, k + 1)
  <1> DEFINE n == Len(s)
  <1>1. n \in Nat /\ DOMAIN s = 1 .. n /\ \A i \in 1 .. n : s[i] \in Effect
    OBVIOUS
  <1>2. left \in Nat /\ right \in Nat /\ left <= right
    BY RangeAssumption
  <1>3. \A i \in 1 .. n : /\ s[i].start \in Nat /\ s[i].end \in Nat
                          /\ Start(s[i]) \in Nat /\ s[i].text \in Seq(STRING)
                          /\ left <= Start(s[i]) /\ Start(s[i]) <= s[i].end
                          /\ s[i].end <= right
    <2> SUFFICES ASSUME NEW i \in 1 .. n
                 PROVE  /\ s[i].start \in Nat /\ s[i].end \in Nat
                        /\ Start(s[i]) \in Nat /\ s[i].text \in Seq(STRING)
                        /\ left <= Start(s[i]) /\ Start(s[i]) <= s[i].end
                        /\ s[i].end <= right
      OBVIOUS
    <2>1. s[i] \in Effect /\ Placed(s[i])
      BY <1>1
    <2>2. s[i].start \in Nat /\ s[i].end \in Nat /\ s[i].text \in Seq(STRING)
      BY <2>1 DEF Effect
    <2> QED
      BY <2>1, <2>2 DEF Placed, Start
  <1>4. EndOf(s, k) \in Nat /\ left <= EndOf(s, k) /\ EndOf(s, k) <= right
    <2>1. CASE k = 0
      BY <1>2, <2>1 DEF EndOf
    <2>2. CASE k # 0
      <3>1. n + 1 - k \in 1 .. n
        BY <1>1, <2>2
      <3>2. EndOf(s, k) = s[n + 1 - k].end
        BY <2>2 DEF EndOf
      <3>3. left <= s[n + 1 - k].end
        BY <1>2, <1>3, <3>1
      <3> QED
        BY <1>3, <3>1, <3>2, <3>3
    <2> QED
      BY <2>1, <2>2
  <1>5. ASSUME k < n
        PROVE  LET e == s[n + 1 - (k + 1)]
               IN  /\ Start(e) \in Nat /\ e.text \in Seq(STRING)
                   /\ EndOf(s, k) <= Start(e) /\ Start(e) <= e.end /\ e.end <= right
                   /\ e.end = EndOf(s, k + 1)
    <2> DEFINE j == n + 1 - (k + 1)
    <2>1. j \in 1 .. n /\ k + 1 # 0 /\ k \in Nat
      BY <1>1, <1>5
    <2>2. EndOf(s, k + 1) = s[j].end
      BY <2>1 DEF EndOf
    <2>3. EndOf(s, k) <= Start(s[j])
      <3>1. CASE k = 0
        BY <1>3, <2>1, <3>1 DEF EndOf
      <3>2. CASE k # 0
        <4>1. n + 1 - k \in 1 .. n /\ j < n + 1 - k
          BY <1>1, <1>5, <2>1, <3>2
        <4>2. EndOf(s, k) = s[n + 1 - k].end
          BY <3>2 DEF EndOf
        <4> HIDE DEF j
        <4> QED
          BY <1>1, <2>1, <4>1, <4>2 DEF InOrder
      <3> QED
        BY <3>1, <3>2
    <2> HIDE DEF j
    <2>4. /\ Start(s[j]) \in Nat /\ s[j].text \in Seq(STRING)
          /\ Start(s[j]) <= s[j].end /\ s[j].end <= right
      BY <1>3, <2>1
    <2> QED
      BY <2>2, <2>3, <2>4 DEF j
  <1> QED
    BY <1>4, <1>5

\* There is a text for what is behind each edit.
LEMMA BehindExists ==
    ASSUME NEW s \in Seq(Effect), \A i \in DOMAIN s : Placed(s[i]), InOrder(s)
    PROVE  /\ \E b : Behind(s, b)
           /\ \A b : Behind(s, b) =>
                SubSeq(source, left + 1, right) =
                    SubSeq(source, left + 1, EndOf(s, Len(s))) \o b[Len(s)]
  <1> DEFINE n == Len(s)
             gap(k) == SubSeq(source, EndOf(s, k - 1) + 1, Start(s[n + 1 - k]))
             a == [k \in 1 .. n |-> gap(k) \o s[n + 1 - k].text]
             base == SubSeq(source, EndOf(s, n) + 1, right)
  <1>1. /\ n \in Nat /\ left \in Nat /\ right \in Nat /\ left <= right
        /\ right <= Len(source) /\ Len(source) \in Nat
    BY RangeAssumption, SourceAssumption
  <1>2. EndOf(s, n) \in Nat /\ left <= EndOf(s, n) /\ EndOf(s, n) <= right
    <2>1. n \in 0 .. n
      BY <1>1
    <2> QED
      BY <2>1, EndsRise
  <1>3. base \in Seq(STRING)
    BY <1>1, <1>2, Stretch
  <1>4. \A k \in 1 .. n : gap(k) \o s[n + 1 - k].text \in Seq(STRING)
    <2> SUFFICES ASSUME NEW k \in 1 .. n
                 PROVE  gap(k) \o s[n + 1 - k].text \in Seq(STRING)
      OBVIOUS
    <2>1. k - 1 \in 0 .. n /\ k - 1 < n /\ n + 1 - ((k - 1) + 1) = n + 1 - k
      BY <1>1
    <2> DEFINE e == s[n + 1 - k]
    <2>2. /\ EndOf(s, k - 1) \in Nat /\ Start(e) \in Nat /\ e.text \in Seq(STRING)
          /\ EndOf(s, k - 1) <= Start(e) /\ Start(e) <= e.end /\ e.end <= right
          /\ e.end = EndOf(s, (k - 1) + 1)
      BY <2>1, EndsRise
    <2>3. EndOf(s, (k - 1) + 1) \in Nat
      <3>1. (k - 1) + 1 \in 0 .. n
        BY <1>1
      <3> QED
        BY <3>1, EndsRise
    <2>4. Start(e) <= Len(source)
      <3> DEFINE x == e.end
                 y == Start(e)
      <3>1. y \in Nat /\ x \in Nat /\ y <= x /\ x <= right
        BY <2>2, <2>3
      <3> HIDE DEF x, y
      <3>2. y <= Len(source)
        BY <1>1, <3>1
      <3> QED
        BY <3>2 DEF y
    <2>5. gap(k) \in Seq(STRING)
      BY <2>2, <2>4, Stretch
    <2> HIDE DEF gap
    <2> QED
      BY <2>2, <2>5, ConcatProperties
  <1>5. a \in [1 .. n -> Seq(STRING)]
    <2> HIDE DEF gap, n
    <2> QED
      BY <1>4
  <1>6. \A k \in 0 .. n - 1 :
          a[k + 1] = SubSeq(source, EndOf(s, k) + 1, Start(s[n + 1 - (k + 1)]))
                     \o s[n + 1 - (k + 1)].text
    <2> SUFFICES ASSUME NEW k \in 0 .. n - 1
                 PROVE  a[k + 1] = SubSeq(source, EndOf(s, k) + 1, Start(s[n + 1 - (k + 1)]))
                                   \o s[n + 1 - (k + 1)].text
      OBVIOUS
    <2>1. k + 1 \in 1 .. n /\ (k + 1) - 1 = k
      BY <1>1
    <2>2. a[k + 1] = gap(k + 1) \o s[n + 1 - (k + 1)].text
      <3> HIDE DEF gap, n
      <3> QED
        BY <2>1
    <2> QED
      BY <2>1, <2>2
  <1>7. PICK b : Prepended(0, n, a, base, b)
    <2> HIDE DEF a, base, n
    <2> QED
      BY <1>1, <1>3, <1>5, PrependedExists
  <1>8. Behind(s, b)
    <2>1. /\ b \in [0 .. n -> Seq(STRING)] /\ b[n] = base
          /\ \A k \in 0 .. n - 1 : b[k] = a[k + 1] \o b[k + 1]
      <3> HIDE DEF a, base, n
      <3> QED
        BY <1>7 DEF Prepended
    <2>2. \A k \in 0 .. n - 1 :
            b[k] = SubSeq(source, EndOf(s, k) + 1, Start(s[n + 1 - (k + 1)]))
                   \o s[n + 1 - (k + 1)].text \o b[k + 1]
      <3> HIDE DEF a, base
      <3> QED
        BY <1>6, <2>1
    <2> HIDE DEF a
    <2> QED
      BY <2>1, <2>2 DEF Behind
  <1>9. ASSUME NEW d, Behind(s, d)
        PROVE  SubSeq(source, left + 1, right) =
                    SubSeq(source, left + 1, EndOf(s, n)) \o d[n]
    <2>1. d[n] = SubSeq(source, EndOf(s, n) + 1, right)
      BY <1>9 DEF Behind
    <2> DEFINE x == EndOf(s, n)
    <2>2. x \in Nat /\ left <= x /\ x <= right
      BY <1>2
    <2> HIDE DEF x
    <2>3. SubSeq(source, left + 1, x) \o SubSeq(source, x + 1, right)
            = SubSeq(source, left + 1, right)
      BY <1>1, <2>2, StretchJoins
    <2> QED
      BY <2>1, <2>3 DEF x
  <1> QED
    BY <1>8, <1>9

-----------------------------------------------------------------------------
(* The edits that are written are those that are meant, in their order.    *)

\* With all rounds of filter_out_nested done, what is selected are the edits that
\* are meant.
LEMMA FilteredIsIntended ==
    ASSUME IInv, EditInv, phase = "filter", next > Len(top_level), NEW q, Filtered(q),
           NoRepeat(next)
    PROVE  ImageOf(q) = Intended
  <1>1. /\ Origin(q) /\ Backwards(q) /\ Outermost \subseteq ImageOf(q)
        /\ ImageOf(q) \subseteq Meant
        /\ \A i \in InsertIndices \ ImageOf(q) : Lost(i, q)
    BY DEF Filtered
  <1>2. SeparateUpto(next) /\ top_level \in Seq(Effect) /\ next \in Nat
    BY DEF EditInv, TypeOK
  <1>3. \A k \in DOMAIN top_level : k \in Nat /\ k < next
    BY <1>2
  <1>4. \A k \in DOMAIN top_level :
           /\ q[k] \in DOMAIN input /\ top_level[k] = input[q[k]]
           /\ top_level[k].start \in Nat /\ top_level[k].end \in Nat
           /\ top_level[k].start <= top_level[k].end
           /\ \/ /\ top_level[k].kind = "Rewrite" /\ q[k] \in Outermost
                 /\ Start(top_level[k]) = top_level[k].start
              \/ /\ top_level[k].kind = "Insert" /\ q[k] \in InsertIndices
                 /\ Start(top_level[k]) = top_level[k].end
    BY <1>1, ChosenFields
  <1>5. \A k \in DOMAIN top_level : q[k] \in InsertIndices => top_level[k].kind = "Insert"
    BY <1>4 DEF InsertIndices
  <1>6. \A k \in DOMAIN top_level : q[k] \in Outermost => top_level[k].kind = "Rewrite"
    BY <1>4 DEF Outermost, RewriteIndices
  \* An insertion that is selected is within no rewrite.
  <1>7. \A k \in DOMAIN top_level : q[k] \in InsertIndices => ~Swallowed(q[k])
    <2> SUFFICES ASSUME NEW k \in DOMAIN top_level, q[k] \in InsertIndices,
                        NEW r \in Outermost,
                        input[r].start < input[q[k]].end, input[q[k]].end < input[r].end
                 PROVE  FALSE
      BY DEF Swallowed
    <2>1. PICK m \in DOMAIN top_level : q[m] = r
      BY <1>1 DEF ImageOf
    <2>2. top_level[k].kind = "Insert" /\ top_level[m].kind = "Rewrite"
      BY <1>5, <1>6, <2>1
    <2>3. Separate(top_level[k], top_level[m]) \/ Separate(top_level[m], top_level[k])
      <3>1. k < m \/ m < k
        BY <1>3, <2>2
      <3> QED
        BY <1>2, <1>3, <3>1 DEF SeparateUpto
    <2>4. /\ top_level[k] = input[q[k]] /\ top_level[m] = input[r]
          /\ Start(top_level[k]) = top_level[k].end
          /\ Start(top_level[m]) = top_level[m].start
          /\ top_level[k].end \in Nat /\ top_level[m].start \in Nat
          /\ top_level[m].end \in Nat
      BY <1>4, <2>1, <2>2
    <2> QED
      BY <2>3, <2>4 DEF Separate
  \* Of two that repeat each other only one is selected.
  <1>8. \A k, m \in DOMAIN top_level : q[k] \in InsertIndices => ~Repeated(q[k], q[m])
    <2> SUFFICES ASSUME NEW k \in DOMAIN top_level, NEW m \in DOMAIN top_level,
                        q[k] \in InsertIndices, Repeated(q[k], q[m])
                 PROVE  FALSE
      OBVIOUS
    <2>1. /\ q[m] \in InsertIndices /\ Before(q[k], q[m])
          /\ input[q[m]].end = input[q[k]].end /\ input[q[m]].text = input[q[k]].text
      BY DEF Repeated
    <2>2. m < k
      <3>1. ~Before(q[m], q[k])
        BY <1>4, <2>1, BeforeOrders
      <3>2. m # k
        BY <2>1, <3>1
      <3>3. ~(k < m)
        BY <1>1, <3>1 DEF Backwards
      <3> QED
        BY <1>3, <3>2, <3>3
    <2>3. /\ top_level[m].kind = "Insert" /\ top_level[k].kind = "Insert"
          /\ top_level[m].end = top_level[k].end /\ top_level[m].text = top_level[k].text
      BY <1>4, <1>5, <2>1
    <2> QED
      BY <1>3, <2>2, <2>3 DEF NoRepeat
  <1>9. ASSUME NEW k \in DOMAIN top_level, q[k] \in InsertIndices
        PROVE  q[k] \in Inserted
    <2>1. ASSUME NEW j \in InsertIndices,
                 input[j].end = input[q[k]].end, input[j].text = input[q[k]].text,
                 Before(q[k], j)
          PROVE  FALSE
      <3>1. CASE j \in ImageOf(q)
        <4>1. PICK m \in DOMAIN top_level : q[m] = j
          BY <3>1 DEF ImageOf
        <4> QED
          BY <1>8, <1>9, <2>1, <4>1 DEF Repeated
      <3>2. CASE j \notin ImageOf(q)
        <4>1. Lost(j, q)
          BY <1>1, <3>2
        <4>2. ~Swallowed(j)
          BY <1>7, <1>9, <2>1 DEF Swallowed
        <4>3. PICK m \in DOMAIN top_level : Repeated(j, q[m])
          BY <4>1, <4>2 DEF Lost
        <4>4. Before(q[k], q[m])
          <5>1. j \in DOMAIN input
            BY DEF InsertIndices
          <5>2. Before(j, q[m])
            BY <4>3 DEF Repeated
          <5> QED
            BY <1>4, <2>1, <5>1, <5>2, BeforeOrders
        <4>5. Repeated(q[k], q[m])
          BY <2>1, <4>3, <4>4 DEF Repeated
        <4> QED
          BY <1>8, <1>9, <4>5
      <3> QED
        BY <3>1, <3>2
    <2>2. \A r \in Outermost :
            ~(input[r].start < input[q[k]].end /\ input[q[k]].end < input[r].end)
      BY <1>7, <1>9 DEF Swallowed
    <2> QED
      BY <1>9, <2>1, <2>2 DEF Inserted
  <1>10. ImageOf(q) \subseteq Intended
    <2> SUFFICES ASSUME NEW k \in DOMAIN top_level PROVE q[k] \in Intended
      BY DEF ImageOf
    <2> QED
      BY <1>4, <1>9 DEF Intended
  <1>11. ASSUME NEW i \in Inserted PROVE i \in ImageOf(q)
    <2> SUFFICES ASSUME i \notin ImageOf(q) PROVE FALSE
      OBVIOUS
    <2>1. i \in InsertIndices /\ Lost(i, q)
      BY <1>1 DEF Inserted
    <2>2. ~Swallowed(i)
      BY DEF Inserted, Swallowed
    <2>3. PICK m \in DOMAIN top_level : Repeated(i, q[m])
      BY <2>1, <2>2 DEF Lost
    <2> QED
      BY <2>3 DEF Repeated, Inserted
  <1> QED
    BY <1>1, <1>10, <1>11 DEF Intended

\* sort_range_start puts them into their order in the text.
LEMMA ArrangeResult ==
    ASSUME IInv, EditInv, ResultInv, Arrange
    PROVE  ResultInv'
  <1> DEFINE n == Len(top_level)
             t == top_level
             u == top_level'
  <1>1. /\ phase = "filter" /\ next > n /\ next' = 1
        /\ input' = input /\ code' = code
    BY DEF Arrange
  <1>2. EditInv' /\ phase' = "write"
    <2>1. EditInv'
      BY ArrangeWrites
    <2> QED
      BY <2>1 DEF EditInv, Arrange
  <1>3. /\ u \in Seq(Effect) /\ \A i \in DOMAIN u : Placed(u[i])
        /\ InOrder(u)
    <2>1. TypeOK' /\ AllPlaced' /\ InOrder(top_level)'
      BY <1>2 DEF EditInv
    <2> QED
      BY <2>1 DEF TypeOK, AllPlaced, Placed, Start, InOrder
  <1>4. PICK p \in Orders(t) : /\ SortedBy(t, p, Later)
                               /\ u = [i \in DOMAIN t |-> t[p[i]]]
    BY DEF Arrange
  <1>5. t \in Seq(Effect) /\ n \in Nat /\ DOMAIN t = 1 .. n
    BY DEF EditInv, TypeOK
  <1>6. /\ p \in [DOMAIN t -> DOMAIN t] /\ DOMAIN u = DOMAIN t
        /\ \A i \in DOMAIN t : p[i] \in DOMAIN t /\ u[i] = t[p[i]]
        /\ \A j \in DOMAIN t : \E i \in DOMAIN t : p[i] = j
    <2>1. p \in [DOMAIN t -> DOMAIN t]
      BY DEF Orders
    <2>2. \A j \in DOMAIN t : \E i \in DOMAIN t : p[i] = j
      BY <1>5, OrderOnto
    <2> QED
      BY <1>4, <2>1, <2>2
  <1>7. Len(u) = n
    BY <1>3, <1>5, <1>6
  <1>8. ASSUME Plain, ~Twins
        PROVE  \E r : Arranged(r)'
    <2>1. PICK q : Filtered(q)
      BY <1>1, <1>8 DEF ResultInv
    <2>2. NoRepeat(next)
      BY <1>1, <1>8 DEF ResultInv
    <2>3. ImageOf(q) = Intended
      BY <1>1, <2>1, <2>2, FilteredIsIntended
    <2>4. Origin(q) /\ Backwards(q)
      BY <2>1 DEF Filtered
    <2>5. PICK r : /\ r \in [DOMAIN t -> DOMAIN input]
                   /\ \A i \in DOMAIN t : r[i] = q[p[i]]
      <3> DEFINE s == [i \in DOMAIN t |-> q[p[i]]]
      <3>1. \A i \in DOMAIN t : q[p[i]] \in DOMAIN input
        BY <1>6, <2>4 DEF Origin
      <3>2. s \in [DOMAIN t -> DOMAIN input] /\ \A i \in DOMAIN t : s[i] = q[p[i]]
        BY <3>1
      <3> HIDE DEF s
      <3> QED
        BY <3>2
    <2>6. \A i \in DOMAIN t : u[i] = input[r[i]] /\ r[i] \in DOMAIN input
      BY <1>6, <2>4, <2>5 DEF Origin
    <2>7. Origin(r)'
      BY <1>1, <1>6, <2>5, <2>6 DEF Origin
    <2>8. ASSUME NEW k \in DOMAIN t, NEW l \in DOMAIN t, k < l
          PROVE  InFront(r[l], r[k])
      <3> DEFINE e == u[l]
                 f == u[k]
      <3>1. e = input[r[l]] /\ f = input[r[k]]
        BY <2>6
      <3>2. e.end <= Start(f)
        BY <1>3, <1>6, <2>8 DEF InOrder
      <3>3. /\ e \in Effect /\ f \in Effect
            /\ e.start <= e.end /\ f.start <= f.end
        BY <1>3, <1>6 DEF Placed
      <3>4. /\ e.start \in Nat /\ e.end \in Nat /\ f.start \in Nat /\ f.end \in Nat
            /\ Start(e) \in Nat /\ Start(f) \in Nat
            /\ Start(e) <= e.end /\ Start(f) <= f.end
        BY <3>3, Fields DEF Start
      <3>5. CASE Start(e) = Start(f) /\ e.end = f.end
        <4>1. ~Later(f, e)
          BY <3>4, <3>5 DEF Later
        <4>2. p[k] < p[l]
          BY <1>4, <1>6, <2>8, <4>1 DEF SortedBy
        <4>3. Before(q[p[l]], q[p[k]])
          BY <1>6, <2>4, <4>2 DEF Backwards
        <4>4. Before(r[l], r[k])
          BY <2>5, <4>3
        <4> QED
          BY <3>1, <3>5, <4>4 DEF InFront
      <3>6. CASE ~(Start(e) = Start(f) /\ e.end = f.end)
        <4>1. \/ Start(e) < Start(f)
              \/ Start(e) = Start(f) /\ e.end < f.end
          BY <3>2, <3>4, <3>6
        <4> QED
          BY <3>1, <4>1 DEF InFront
      <3> QED
        BY <3>5, <3>6
    <2>9. \A k, l \in DOMAIN u : k < l => InFront(r[l], r[k])'
      <3>1. \A i, j : InFront(i, j)' <=> InFront(i, j)
        BY <1>1 DEF InFront, Before, Less, Start
      <3> QED
        BY <1>6, <2>8, <3>1
    <2>10. ImageOf(r)' = Intended'
      <3>1. ImageOf(r)' = {r[i] : i \in DOMAIN t}
        BY <1>6 DEF ImageOf
      <3>2. {r[i] : i \in DOMAIN t} = {q[k] : k \in DOMAIN t}
        BY <1>6, <2>5
      <3>3. Intended' = Intended
        BY <1>1, InputOnly
      <3> QED
        BY <2>3, <3>1, <3>2, <3>3 DEF ImageOf
    <2> QED
      BY <2>7, <2>9, <2>10 DEF Arranged
  <1>9. \E b : /\ Behind(top_level, b)'
               /\ code' = SubSeq(source, left + 1, EndOf(top_level, Unwritten)') \o b[Unwritten']
    <2>1. PICK b : Behind(u, b)
      BY <1>3, BehindExists
    <2>2. SubSeq(source, left + 1, right) =
            SubSeq(source, left + 1, EndOf(u, Len(u))) \o b[Len(u)]
      BY <1>3, <2>1, BehindExists
    <2>3. code' = SubSeq(source, left + 1, right)
      BY <1>1 DEF ResultInv
    <2>4. Unwritten' = Len(u)
      BY <1>1, <1>5, <1>7 DEF Unwritten
    <2>5. EndOf(top_level, Unwritten)' = EndOf(u, Len(u))
      BY <2>4 DEF EndOf
    <2>6. Behind(top_level, b)'
      BY <2>1 DEF Behind, EndOf, Start
    <2> QED
      BY <2>2, <2>3, <2>4, <2>5, <2>6
  <1>10. (Plain' <=> Plain) /\ (Twins' <=> Twins)
    BY <1>1, InputOnly
  <1> QED
    BY <1>2, <1>8, <1>9, <1>10 DEF ResultInv

-----------------------------------------------------------------------------
(* Writing.                                                                *)

\* What is in front of and behind a place in two texts that are put together.
LEMMA FrontAndBack ==
    ASSUME NEW x \in Seq(STRING), NEW y \in Seq(STRING), NEW from \in Nat,
           from <= Len(x)
    PROVE  /\ Len(x \o y) = Len(x) + Len(y)
           /\ SubSeq(x \o y, 1, from) = SubSeq(x, 1, from)
           /\ SubSeq(x \o y, Len(x) + 1, Len(x \o y)) = y
  <1>1. Len(x) \in Nat /\ Len(y) \in Nat
    OBVIOUS
  <1>2. Len(x \o y) = Len(x) + Len(y)
    BY ConcatProperties
  <1>3. SubSeq(x \o y, 1, from) = SubSeq(x, 1, from)
    <2>1. CASE from = 0
      <3>1. SubSeq(x \o y, 1, 0) = <<>> /\ SubSeq(x, 1, 0) = <<>>
        BY SubSeqEmpty
      <3> QED
        BY <2>1, <3>1
    <2>2. CASE from # 0
      <3>1. 1 \in 1 .. Len(x) /\ from \in 1 .. Len(x)
        BY <1>1, <2>2
      <3> QED
        BY <3>1, SubSeqOfConcat1
    <2> QED
      BY <2>1, <2>2
  <1>4. SubSeq(x \o y, Len(x) + 1, Len(x) + Len(y)) = y
    <2>1. CASE Len(y) = 0
      <3> DEFINE v == x \o y
                 m == Len(x) + 1
                 k == Len(x) + Len(y)
      <3>1. m \in Int /\ k \in Int /\ k < m
        BY <1>1, <2>1
      <3> HIDE DEF v, m, k
      <3>2. SubSeq(v, m, k) = <<>>
        BY <3>1, SubSeqEmpty
      <3>3. y = <<>>
        BY <2>1, EmptySeq
      <3> QED
        BY <3>2, <3>3 DEF v, m, k
    <2>2. CASE Len(y) # 0
      <3> DEFINE m == Len(x) + 1
                 k == Len(x) + Len(y)
      <3>1. /\ m \in Len(x) + 1 .. Len(x) + Len(y)
            /\ k \in Len(x) + 1 .. Len(x) + Len(y)
            /\ m - Len(x) = 1 /\ k - Len(x) = Len(y)
        BY <1>1, <2>2
      <3> HIDE DEF m, k
      <3>2. SubSeq(x \o y, m, k) = SubSeq(y, m - Len(x), k - Len(x))
        BY <3>1, SubSeqOfConcat2
      <3>3. SubSeq(y, 1, Len(y)) = y
        BY SubSeqFull
      <3> QED
        BY <3>1, <3>2, <3>3 DEF m, k
    <2> QED
      BY <2>1, <2>2
  <1> QED
    BY <1>2, <1>3, <1>4

\* Putting texts together.
Joined(f, g) == f \o g

\* It is associative.
LEMMA Regrouped ==
    ASSUME NEW f \in Seq(STRING), NEW g \in Seq(STRING), NEW h \in Seq(STRING),
           NEW k \in Seq(STRING)
    PROVE  Joined(Joined(Joined(f, g), h), k) = Joined(f, Joined(Joined(g, h), k))
  <1>1. (f \o g) \o h = f \o (g \o h)
    BY ConcatAssociative
  <1>2. \A v \in Seq(STRING) : (f \o v) \o k = f \o (v \o k)
    BY ConcatAssociative
  <1>3. g \o h \in Seq(STRING)
    BY ConcatProperties
  <1>4. (f \o (g \o h)) \o k = f \o ((g \o h) \o k)
    BY <1>2, <1>3
  <1> QED
    BY <1>1, <1>4 DEF Joined

\* replace_range of the last edit that is not written.
LEMMA SplicesBehind ==
    ASSUME NEW s \in Seq(Effect), \A i \in DOMAIN s : Placed(s[i]), InOrder(s),
           NEW b, Behind(s, b), NEW m \in 1 .. Len(s), NEW c,
           c = SubSeq(source, left + 1, EndOf(s, m)) \o b[m]
    PROVE  LET e == s[Len(s) + 1 - m]
           IN  SubSeq(c, 1, Start(e) - left) \o e.text
                   \o SubSeq(c, e.end - left + 1, Len(c))
               = SubSeq(source, left + 1, EndOf(s, m - 1)) \o b[m - 1]
  <1> DEFINE n == Len(s)
             e == s[n + 1 - m]
             at == EndOf(s, m - 1)
             from == Start(e)
             to == e.end
             x == SubSeq(source, left + 1, to)
             y == b[m]
             front == SubSeq(source, left + 1, at)
             gap == SubSeq(source, at + 1, from)
             text == e.text
  <1>1. /\ n \in Nat /\ m - 1 \in 0 .. n /\ m - 1 \in 0 .. n - 1 /\ m - 1 < n
        /\ (m - 1) + 1 = m /\ m \in 0 .. n
    OBVIOUS
  <1>2. /\ at \in Nat /\ from \in Nat /\ to \in Nat /\ text \in Seq(STRING)
        /\ left <= at /\ at <= from /\ from <= to /\ to <= right
        /\ to = EndOf(s, m)
    <2>1. at \in Nat /\ left <= at
      BY <1>1, EndsRise
    <2>2. /\ from \in Nat /\ text \in Seq(STRING)
          /\ at <= from /\ from <= to /\ to <= right /\ to = EndOf(s, m)
      <3> DEFINE k == m - 1
      <3>1. k \in 0 .. Len(s) /\ k < Len(s) /\ k + 1 = m
        BY <1>1
      <3> HIDE DEF k
      <3>2. LET f == s[Len(s) + 1 - (k + 1)]
            IN  /\ Start(f) \in Nat /\ f.text \in Seq(STRING)
                /\ EndOf(s, k) <= Start(f) /\ Start(f) <= f.end /\ f.end <= right
                /\ f.end = EndOf(s, k + 1)
        BY <3>1, EndsRise
      <3> QED
        BY <3>1, <3>2 DEF k
    <2>3. EndOf(s, m) \in Nat
      BY <1>1, EndsRise
    <2> QED
      BY <2>1, <2>2, <2>3
  <1>3. y \in Seq(STRING) /\ b[m - 1] = gap \o text \o y
    BY <1>1 DEF Behind
  <1>4. c = x \o y
    BY <1>2
  <1> HIDE DEF at, from, to, text, e, n, y
  <1>5. /\ left \in Nat /\ to <= Len(source) /\ from <= Len(source) /\ at <= Len(source)
        /\ left <= from /\ left <= to
    BY <1>2, RangeAssumption, SourceAssumption
  <1>6. x \in Seq(STRING) /\ Len(x) = to - left
    BY <1>2, <1>5, Stretch
  <1>7. front \in Seq(STRING) /\ gap \in Seq(STRING)
    BY <1>2, <1>5, Stretch
  <1>8. SubSeq(c, 1, from - left) = front \o gap
    <2> DEFINE f == from - left
    <2>1. f \in Nat /\ f <= Len(x)
      BY <1>2, <1>5, <1>6
    <2> HIDE DEF x, f
    <2>2. SubSeq(x \o y, 1, f) = SubSeq(x, 1, f)
      BY <1>3, <1>6, <2>1, FrontAndBack
    <2>3. SubSeq(x, 1, f) = SubSeq(source, left + 1, from)
      <3> DEFINE z == SubSeq(source, left + 1, from)
                 w == SubSeq(source, from + 1, to)
      <3>1. z \o w = x
        BY <1>2, <1>5, StretchJoins DEF x
      <3>2. z \in Seq(STRING) /\ Len(z) = f
        BY <1>2, <1>5, Stretch DEF f
      <3>3. w \in Seq(STRING)
        BY <1>2, <1>5, Stretch
      <3> HIDE DEF z, w
      <3>4. f <= Len(z)
        BY <2>1, <3>2
      <3>5. SubSeq(z \o w, 1, f) = SubSeq(z, 1, f)
        BY <2>1, <3>2, <3>3, <3>4, FrontAndBack
      <3>6. SubSeq(z, 1, f) = z
        BY <3>2, SubSeqFull
      <3> QED
        BY <3>1, <3>5, <3>6 DEF z
    <2>4. SubSeq(source, left + 1, from) = front \o gap
      BY <1>2, <1>5, StretchJoins
    <2> QED
      BY <1>4, <2>2, <2>3, <2>4 DEF f
  <1>9. SubSeq(c, to - left + 1, Len(c)) = y
    <2> HIDE DEF x
    <2>1. Len(x) \in Nat /\ Len(x) <= Len(x)
      BY <1>6
    <2>2. SubSeq(x \o y, Len(x) + 1, Len(x \o y)) = y
      BY <1>3, <1>6, <2>1, FrontAndBack
    <2> QED
      BY <1>4, <1>6, <2>2
  <1>10. (front \o gap) \o text \o y = front \o (gap \o text \o y)
    <2> HIDE DEF front, gap, x
    <2>1. /\ front \in Seq(STRING) /\ gap \in Seq(STRING)
          /\ text \in Seq(STRING) /\ y \in Seq(STRING)
      BY <1>2, <1>3, <1>7
    <2>2. Joined(Joined(Joined(front, gap), text), y)
             = Joined(front, Joined(Joined(gap, text), y))
      BY <2>1, Regrouped
    <2> QED
      BY <2>2 DEF Joined
  <1>11. SubSeq(c, 1, from - left) \o text \o SubSeq(c, to - left + 1, Len(c))
            = front \o b[m - 1]
    BY <1>3, <1>8, <1>9, <1>10
  <1> QED
    BY <1>11 DEF at, from, to, text, e, n

\* One edit is written.
LEMMA WriteResult ==
    ASSUME IInv, EditInv, ResultInv, Write
    PROVE  ResultInv'
  <1> DEFINE n == Len(top_level)
             m == Unwritten
             e == top_level[next]
  <1>1. /\ phase = "write" /\ next <= n /\ next' = next + 1
        /\ input' = input /\ top_level' = top_level
    BY DEF Write
  <1>2. phase' = "write" \/ phase' = "error"
    BY DEF Write
  <1>3. phase' # "error"
    <2>1. EditInv'
      BY WriteWrites
    <2> QED
      BY <2>1 DEF EditInv
  <1>4. code' = SubSeq(code, 1, Start(e) - left) \o e.text
                \o SubSeq(code, e.end - left + 1, Len(code))
    BY <1>3 DEF Write
  <1>5. /\ top_level \in Seq(Effect) /\ n \in Nat /\ next \in Nat \ {0}
        /\ \A i \in DOMAIN top_level : Placed(top_level[i])
        /\ InOrder(top_level)
    BY <1>1 DEF EditInv, TypeOK, AllPlaced, IInv
  <1>6. PICK b : /\ Behind(top_level, b)
                 /\ code = SubSeq(source, left + 1, EndOf(top_level, m)) \o b[m]
    BY <1>1 DEF ResultInv
  <1>7. m \in 1 .. n /\ n + 1 - m = next /\ Unwritten' = m - 1
    BY <1>1, <1>5 DEF Unwritten
  <1> HIDE DEF m
  <1>8. code' = SubSeq(source, left + 1, EndOf(top_level, m - 1)) \o b[m - 1]
    BY <1>4, <1>5, <1>6, <1>7, SplicesBehind
  <1>9. /\ Behind(top_level, b)'
        /\ code' = SubSeq(source, left + 1, EndOf(top_level, Unwritten)') \o b[Unwritten']
    <2>1. EndOf(top_level, Unwritten)' = EndOf(top_level, m - 1)
      BY <1>1, <1>7 DEF EndOf
    <2>2. Behind(top_level, b)'
      BY <1>1, <1>6 DEF Behind, EndOf, Start
    <2> QED
      BY <1>7, <1>8, <2>1, <2>2
  <1>10. (Plain' <=> Plain) /\ (Twins' <=> Twins)
    BY <1>1, InputOnly
  <1>11. ASSUME NEW q, Arranged(q) PROVE Arranged(q)'
    <2>1. Intended' = Intended
      BY <1>1, InputOnly
    <2> QED
      BY <1>1, <1>11, <2>1 DEF Arranged, Origin, ImageOf, InFront, Before, Less, Start
  <1> QED
    BY <1>1, <1>2, <1>3, <1>9, <1>10, <1>11 DEF ResultInv

\* What stays as it is when only the phase changes, or nothing.
LEMMA StayResult ==
    ASSUME ResultInv, phase' = phase \/ (phase = "write" /\ phase' = "done"),
           UNCHANGED <<input, effects, rest, top_level, inserts, next, code>>
    PROVE  ResultInv'
  <1>1. /\ input' = input /\ effects' = effects /\ rest' = rest /\ top_level' = top_level
        /\ inserts' = inserts /\ next' = next /\ code' = code
    OBVIOUS
  <1>2. /\ (Plain' <=> Plain) /\ (Twins' <=> Twins)
        /\ InsertIndices' = InsertIndices /\ Outermost' = Outermost
        /\ Meant' = Meant /\ Intended' = Intended
    BY <1>1, InputOnly
  <1>3. \A p : /\ SortedFrom(p)' <=> SortedFrom(p)
               /\ Passed(p, rest)' = Passed(p, rest)
    BY <1>1, SortedSame DEF Passed
  <1>4. \A q : /\ Origin(q)' <=> Origin(q)
               /\ Backwards(q)' <=> Backwards(q)
               /\ ImageOf(q)' = ImageOf(q)
    BY <1>1 DEF Origin, Backwards, ImageOf, Before, Less
  <1>5. \A p, q : SelectedSoFar(p, q)' <=> SelectedSoFar(p, q)
    BY <1>2, <1>3, <1>4 DEF SelectedSoFar
  <1>6. \A i, q : Lost(i, q)' <=> Lost(i, q)
    BY <1>1, <1>2 DEF Lost, Swallowed, Repeated, Before, Less
  <1>7. \A q : Filtered(q)' <=> Filtered(q)
    BY <1>2, <1>4, <1>6 DEF Filtered
  <1>8. (SeenFrom' <=> SeenFrom) /\ (NoRepeat(next)' <=> NoRepeat(next))
    BY <1>1 DEF SeenFrom, NoRepeat
  <1>9. \A q : Arranged(q)' <=> Arranged(q)
    BY <1>1, <1>2, <1>4 DEF Arranged, InFront, Before, Less, Start
  <1>10. \A b : Behind(top_level, b)' <=> Behind(top_level, b)
    BY <1>1 DEF Behind, EndOf, Start
  <1>11. Unwritten' = Unwritten /\ EndOf(top_level, Unwritten)' = EndOf(top_level, Unwritten)
    BY <1>1 DEF Unwritten, EndOf
  <1>12. CASE phase' = phase
    BY <1>1, <1>2, <1>3, <1>5, <1>7, <1>8, <1>9, <1>10, <1>11, <1>12 DEF ResultInv
  <1>13. CASE phase = "write" /\ phase' = "done"
    BY <1>1, <1>2, <1>9, <1>10, <1>11, <1>13 DEF ResultInv
  <1> QED
    BY <1>12, <1>13

\* Every step keeps the third invariant.
LEMMA StepResult == IInv /\ EditInv /\ ResultInv /\ [Next]_vars => ResultInv'
  <1> SUFFICES ASSUME IInv, EditInv, ResultInv, [Next]_vars PROVE ResultInv'
    OBVIOUS
  <1>1. CASE Stay \/ UNCHANGED vars
    BY <1>1, StayResult DEF Stay, vars
  <1>2. CASE Done
    BY <1>2, StayResult DEF Done
  <1>3. CASE Sort \/ CheckNeighbours
    BY <1>3, SortResult, CheckResult
  <1>4. CASE SelectInsert \/ SelectRewrite
    BY <1>4, ChooseResult
  <1>5. CASE SelectSkip \/ SelectDone
    BY <1>5, SkipResult, SelectDoneResult
  <1>6. CASE FilterNested \/ Arrange
    BY <1>6, FilterResult, ArrangeResult
  <1>7. CASE Write
    BY <1>7, WriteResult
  <1> QED
    BY <1>1, <1>2, <1>3, <1>4, <1>5, <1>6, <1>7 DEF Next

-----------------------------------------------------------------------------
(* The reference is what was written.                                      *)

\* Of two edits that are meant only one is in front of the other.
LEMMA InFrontOrders ==
    ASSUME IInv, NEW i \in DOMAIN input, NEW j \in DOMAIN input
    PROVE  ~(InFront(i, j) /\ InFront(j, i))
  <1>1. input \in Seq(Effect)
    BY InputFacts DEF IInv
  <1>2. input[i] \in Effect /\ input[j] \in Effect
    BY <1>1
  <1>3. /\ Start(input[i]) \in Nat /\ input[i].end \in Nat
        /\ Start(input[j]) \in Nat /\ input[j].end \in Nat
    BY <1>2 DEF Effect, Start
  <1>4. ~(Before(i, j) /\ Before(j, i))
    BY BeforeOrders
  <1> QED
    BY <1>3, <1>4 DEF InFront

\* f lists the n effects S, each in front of those behind it.
Lists(f, n, S) ==
    /\ f \in [1 .. n -> S]
    /\ \A i \in S : \E k \in 1 .. n : f[k] = i
    /\ \A k, l \in 1 .. n : k < l => InFront(f[k], f[l])

\* There is only one such list.
LEMMA OneList ==
    ASSUME IInv, NEW S, S \subseteq DOMAIN input, NEW n \in Nat,
           NEW f, Lists(f, n, S), NEW g, Lists(g, n, S)
    PROVE  \A k \in 1 .. n : f[k] = g[k]
  <1> USE DEF Lists
  <1> DEFINE T == {k \in 1 .. n : f[k] # g[k]}
  <1> SUFFICES ASSUME T # {} PROVE FALSE
    OBVIOUS
  <1>1. PICK k \in T : \A x \in T : k <= x
    <2>1. T \subseteq Nat
      OBVIOUS
    <2> HIDE DEF T
    <2> QED
      BY <2>1, LeastElement
  <1>2. k \in 1 .. n /\ f[k] # g[k] /\ \A l \in 1 .. n : l < k => f[l] = g[l]
    BY <1>1
  <1>3. f[k] \in S /\ g[k] \in S /\ f[k] \in DOMAIN input /\ g[k] \in DOMAIN input
    BY <1>2
  <1>4. PICK l \in 1 .. n : f[l] = g[k]
    BY <1>3
  <1>5. PICK m \in 1 .. n : g[m] = f[k]
    BY <1>3
  <1>6. k < l
    <2>1. l # k
      BY <1>2, <1>4
    <2>2. ~(l < k)
      <3> SUFFICES ASSUME l < k PROVE FALSE
        OBVIOUS
      <3>1. InFront(g[l], g[k]) /\ g[l] = g[k]
        BY <1>2, <1>4
      <3> QED
        BY <1>3, <3>1, InFrontOrders
    <2> QED
      BY <1>2, <2>1, <2>2
  <1>7. k < m
    <2>1. m # k
      BY <1>2, <1>5
    <2>2. ~(m < k)
      <3> SUFFICES ASSUME m < k PROVE FALSE
        OBVIOUS
      <3>1. InFront(f[m], f[k]) /\ f[m] = f[k]
        BY <1>2, <1>5
      <3> QED
        BY <1>3, <3>1, InFrontOrders
    <2> QED
      BY <1>2, <2>1, <2>2
  <1>8. InFront(f[k], g[k]) /\ InFront(g[k], f[k])
    BY <1>2, <1>4, <1>5, <1>6, <1>7
  <1> QED
    BY <1>3, <1>8, InFrontOrders

\* The edits that are written, first one first, are those that are meant, in the
\* order of the text.
LEMMA IntendedListed ==
    ASSUME IInv, top_level \in Seq(Effect), NEW q, Arranged(q)
    PROVE  /\ Cardinality(Intended) = Len(top_level)
           /\ \A k \in 1 .. Len(top_level) :
                IntendedOrder[k] = q[Len(top_level) + 1 - k]
  <1> DEFINE n == Len(top_level)
             g == [k \in 1 .. n |-> q[n + 1 - k]]
  <1>1. n \in Nat /\ DOMAIN top_level = 1 .. n
    OBVIOUS
  <1>2. /\ \A k \in 1 .. n : q[k] \in DOMAIN input
        /\ \A k, l \in 1 .. n : k < l => InFront(q[l], q[k])
        /\ \A k \in 1 .. n : q[k] \in Intended
        /\ \A i \in Intended : \E k \in 1 .. n : q[k] = i
        /\ Intended \subseteq DOMAIN input
    BY <1>1 DEF Arranged, Origin, ImageOf
  <1> HIDE DEF n
  <1>3. \A k \in 1 .. n : g[k] = q[n + 1 - k] /\ n + 1 - k \in 1 .. n
                          /\ n + 1 - (n + 1 - k) = k
    BY <1>1
  <1>4. g \in [1 .. n -> Intended]
    BY <1>1, <1>2
  <1>5. \A k, l \in 1 .. n : k < l => InFront(g[k], g[l])
    <2> SUFFICES ASSUME NEW k \in 1 .. n, NEW l \in 1 .. n, k < l
                 PROVE  InFront(g[k], g[l])
      OBVIOUS
    <2>1. n + 1 - l < n + 1 - k
      BY <1>1
    <2> HIDE DEF g
    <2>2. InFront(q[n + 1 - k], q[n + 1 - l])
      BY <1>2, <1>3, <2>1
    <2> QED
      BY <1>3, <2>2
  <1>6. \A i \in Intended : \E k \in 1 .. n : g[k] = i
    <2> SUFFICES ASSUME NEW i \in Intended PROVE \E k \in 1 .. n : g[k] = i
      OBVIOUS
    <2> HIDE DEF g
    <2>1. PICK k \in 1 .. n : q[k] = i
      BY <1>2
    <2>2. n + 1 - k \in 1 .. n /\ g[n + 1 - k] = q[n + 1 - (n + 1 - k)]
          /\ n + 1 - (n + 1 - k) = k
      BY <1>3
    <2> QED
      BY <2>1, <2>2
  <1> HIDE DEF g
  <1>7. \A k, l \in 1 .. n : g[k] = g[l] => k = l
    <2> SUFFICES ASSUME NEW k \in 1 .. n, NEW l \in 1 .. n, g[k] = g[l], k < l
                 PROVE  FALSE
      OBVIOUS
    <2>1. InFront(g[k], g[l]) /\ InFront(g[l], g[k])
      BY <1>5
    <2>2. g[k] \in DOMAIN input
      BY <1>2, <1>4
    <2> QED
      BY <2>1, <2>2, InFrontOrders
  <1>8. IsFiniteSet(1 .. n) /\ Cardinality(1 .. n) = n
    <2>1. 1 \in Int /\ n \in Int /\ (IF 1 > n THEN 0 ELSE n - 1 + 1) = n
      BY <1>1
    <2> QED
      BY <2>1, FS_Interval
  <1>9. Cardinality(Intended) = n
    <2>1. g \in Surjection(1 .. n, Intended)
      BY <1>4, <1>6 DEF Surjection
    <2>2. g \in Injection(1 .. n, Intended)
      BY <1>4, <1>7, Fun_IsInj
    <2> QED
      BY <1>8, <2>1, <2>2, FS_Surjection
  <1> DEFINE Rising(o) == /\ o \in [1 .. n -> Intended]
                          /\ \A k, l \in DOMAIN o : k < l => InFront(o[k], o[l])
  <1>10. Rising(IntendedOrder)
    <2>1. DOMAIN g = 1 .. n
      BY <1>4
    <2>2. Rising(g)
      BY <1>4, <1>5, <2>1
    <2> QED
      BY <1>9, <2>2 DEF IntendedOrder
  <1> DEFINE f == IntendedOrder
  <1>11. /\ f \in [1 .. n -> Intended]
         /\ \A k, l \in 1 .. n : k < l => InFront(f[k], f[l])
    BY <1>10
  <1> HIDE DEF f
  <1>12. \A i \in Intended : \E k \in 1 .. n : f[k] = i
    <2>1. \A k, l \in 1 .. n : f[k] = f[l] => k = l
      <3> SUFFICES ASSUME NEW k \in 1 .. n, NEW l \in 1 .. n, f[k] = f[l], k < l
                   PROVE  FALSE
        OBVIOUS
      <3>1. InFront(f[k], f[l]) /\ InFront(f[l], f[k])
        BY <1>11
      <3>2. f[k] \in DOMAIN input
        BY <1>2, <1>11
      <3> QED
        BY <3>1, <3>2, InFrontOrders
    <2>2. f \in Injection(1 .. n, Intended)
      BY <1>11, <2>1, Fun_IsInj
    <2>3. IsFiniteSet(Intended)
      <3>1. g \in Surjection(1 .. n, Intended)
        BY <1>4, <1>6 DEF Surjection
      <3> QED
        BY <1>8, <3>1, FS_Surjection
    <2>4. f \in Surjection(1 .. n, Intended)
      BY <1>8, <1>9, <2>2, <2>3, FS_Injection
    <2> QED
      BY <2>4 DEF Surjection
  <1>13. \A k \in 1 .. n : f[k] = g[k]
    <2>1. Lists(f, n, Intended) /\ Lists(g, n, Intended)
      BY <1>4, <1>5, <1>6, <1>11, <1>12 DEF Lists
    <2> QED
      BY <1>1, <1>2, <2>1, OneList
  <1> QED
    BY <1>3, <1>9, <1>13 DEF f, n

\* The reference is what is behind the beginning of the range once all edits are
\* written.
LEMMA ReferenceIsBehind ==
    ASSUME IInv, top_level \in Seq(Effect), NEW q, Arranged(q),
           NEW b, Behind(top_level, b)
    PROVE  Reference = b[0]
  <1> DEFINE n == Cardinality(Intended)
             e == [k \in 1 .. n |-> input[IntendedOrder[k]]]
             Last(k) == IF k = 0 THEN left ELSE e[k].end
             Body(f) == [k \in 0 .. n |->
                           IF k = n THEN SubSeq(source, Last(n) + 1, right)
                           ELSE SubSeq(source, Last(k) + 1, Start(e[k + 1]))
                                \o e[k + 1].text \o f[k + 1]]
             behind == CHOOSE f : f = Body(f)
  <1>1. Reference = behind[0]
    BY DEF Reference
  <1>2. n = Len(top_level) /\ n \in Nat
    BY IntendedListed
  <1>3. \A k \in 1 .. n : e[k] = top_level[n + 1 - k]
    <2> SUFFICES ASSUME NEW k \in 1 .. n PROVE e[k] = top_level[n + 1 - k]
      OBVIOUS
    <2>1. IntendedOrder[k] = q[n + 1 - k]
      BY <1>2, IntendedListed
    <2>2. n + 1 - k \in DOMAIN top_level
      BY <1>2
    <2>3. top_level[n + 1 - k] = input[q[n + 1 - k]]
      BY <2>2 DEF Arranged, Origin
    <2>4. e[k] = input[IntendedOrder[k]]
      OBVIOUS
    <2> QED
      BY <2>1, <2>3, <2>4
  <1> HIDE DEF e
  <1>4. \A k \in 0 .. n : Last(k) = EndOf(top_level, k)
    <2> SUFFICES ASSUME NEW k \in 0 .. n PROVE Last(k) = EndOf(top_level, k)
      OBVIOUS
    <2>1. CASE k = 0
      BY <2>1 DEF EndOf
    <2>2. CASE k # 0
      <3>1. k \in 1 .. n
        BY <1>2, <2>2
      <3>2. e[k] = top_level[Len(top_level) + 1 - k]
        BY <1>2, <1>3, <3>1
      <3> QED
        BY <2>2, <3>2 DEF EndOf
    <2> QED
      BY <2>1, <2>2
  <1> HIDE DEF Last, n
  <1>5. /\ DOMAIN b = 0 .. n
        /\ b = [k \in 0 .. n |-> b[k]]
        /\ b[n] = SubSeq(source, EndOf(top_level, n) + 1, right)
        /\ \A k \in 0 .. n - 1 :
             b[k] = SubSeq(source, EndOf(top_level, k) + 1, Start(top_level[n + 1 - (k + 1)]))
                    \o top_level[n + 1 - (k + 1)].text \o b[k + 1]
    BY <1>2 DEF Behind
  <1>6. b[n] = SubSeq(source, Last(n) + 1, right)
    <2>1. n \in 0 .. n
      BY <1>2
    <2> QED
      BY <1>4, <1>5, <2>1
  <1>7. \A k \in 0 .. n : k # n =>
          b[k] = SubSeq(source, Last(k) + 1, Start(e[k + 1])) \o e[k + 1].text \o b[k + 1]
    <2> SUFFICES ASSUME NEW k \in 0 .. n, k # n
                 PROVE  b[k] = SubSeq(source, Last(k) + 1, Start(e[k + 1]))
                               \o e[k + 1].text \o b[k + 1]
      OBVIOUS
    <2>1. k \in 0 .. n - 1 /\ k + 1 \in 1 .. n
      BY <1>2
    <2>2. e[k + 1] = top_level[n + 1 - (k + 1)] /\ Last(k) = EndOf(top_level, k)
      BY <1>3, <1>4, <2>1
    <2> QED
      BY <1>5, <2>1, <2>2
  <1>8. b = Body(b)
    <2>1. \A k \in 0 .. n : b[k] = Body(b)[k]
      BY <1>6, <1>7
    <2>2. Body(b) = [k \in 0 .. n |-> Body(b)[k]]
      OBVIOUS
    <2> HIDE DEF Body
    <2> QED
      BY <1>5, <2>1, <2>2
  <1>9. behind = Body(behind)
    <2> HIDE DEF Body
    <2> QED
      BY <1>8
  <1> HIDE DEF behind
  <1>10. /\ behind[n] = SubSeq(source, Last(n) + 1, right)
         /\ \A k \in 0 .. n : k # n =>
              behind[k] = SubSeq(source, Last(k) + 1, Start(e[k + 1]))
                          \o e[k + 1].text \o behind[k + 1]
    <2>1. n \in 0 .. n
      BY <1>2
    <2>2. \A k \in 0 .. n : behind[k] = Body(behind)[k]
      <3> HIDE DEF Body
      <3> QED
        BY <1>9
    <2> QED
      BY <2>1, <2>2
  <1> HIDE DEF Body
  <1> DEFINE T == {j \in 0 .. n : behind[n - j] # b[n - j]}
  <1>11. T = {}
    <2> SUFFICES ASSUME T # {} PROVE FALSE
      OBVIOUS
    <2>1. PICK j \in T : \A x \in T : j <= x
      <3>1. T \subseteq Nat
        OBVIOUS
      <3> HIDE DEF T
      <3> QED
        BY <3>1, LeastElement
    <2>2. j # 0
      <3>1. n - 0 = n
        BY <1>2
      <3> QED
        BY <1>6, <1>10, <2>1, <3>1
    <2>3. j \in 0 .. n /\ j - 1 \in 0 .. n /\ ~(j <= j - 1) /\ n - (j - 1) = (n - j) + 1
          /\ n - j \in 0 .. n /\ n - j # n
      BY <1>2, <2>1, <2>2
    <2>4. behind[(n - j) + 1] = b[(n - j) + 1]
      BY <2>1, <2>3
    <2>5. behind[n - j] = b[n - j]
      BY <1>7, <1>10, <2>3, <2>4
    <2> QED
      BY <2>1, <2>5
  <1>12. behind[0] = b[0]
    <2>1. n \in 0 .. n /\ n - n = 0
      BY <1>2
    <2> QED
      BY <1>11, <2>1
  <1> QED
    BY <1>1, <1>12

\* At the end the text is the reference.
LEMMA DoneIsIntended == IInv /\ EditInv /\ ResultInv => ResultAsIntended
  <1> SUFFICES ASSUME IInv, EditInv, ResultInv, phase = "done", Plain, ~Twins
               PROVE  code = Reference
    BY DEF ResultAsIntended, Plain
  <1>1. top_level \in Seq(Effect) /\ Unwritten = 0
    BY DEF EditInv, TypeOK
  <1>2. PICK q : Arranged(q)
    BY DEF ResultInv
  <1>3. PICK b : /\ Behind(top_level, b)
                 /\ code = SubSeq(source, left + 1, EndOf(top_level, Unwritten))
                           \o b[Unwritten]
    BY DEF ResultInv
  <1>4. SubSeq(source, left + 1, left) = <<>>
    BY RangeAssumption, SourceAssumption
  <1>5. b[0] \in Seq(STRING)
    BY <1>1, <1>3 DEF Behind
  <1>6. code = SubSeq(source, left + 1, left) \o b[0]
    BY <1>1, <1>3 DEF EndOf
  <1>7. code = b[0]
    BY <1>4, <1>5, <1>6, ConcatEmptySeq
  <1> QED
    BY <1>1, <1>2, <1>3, <1>7, ReferenceIsBehind

\* When the effects are nested or disjoint, no rewrite of an empty range is where
\* another begins, and no insertion has the text of a rewrite that it touches or of
\* an insertion at the other end of it, the text that is returned is the plain
\* reading of the effects: outer rewrites take precedence over inner ones, the last
\* of two for one range wins, each insertion follows its range.
THEOREM ResultAsIntendedAlways == Spec => []ResultAsIntended
  <1>1. Init => ResultInv
    BY InitResult
  <1>2. IInv /\ EditInv /\ ResultInv /\ [Next]_vars => ResultInv'
    BY StepResult
  <1>3. Spec => [](IInv /\ EditInv)
    BY WritingInvariance
  <1>4. IInv /\ EditInv /\ ResultInv => ResultAsIntended
    BY DoneIsIntended
  <1> QED
    BY <1>1, <1>2, <1>3, <1>4, PTL DEF Spec
=============================================================================

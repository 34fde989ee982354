------------------------------ MODULE LimitProof ------------------------------
(***************************************************************************)
(* For any number of executions and any N: the counter of `limit N` is     *)
(* exact, a refusal means the budget is spent, and the load /              *)
(* compare_exchange loop implements Budget.                                *)
(***************************************************************************)
EXTENDS Limit, FiniteSetTheorems, TLAPS

\* A result is there exactly when the call has returned.
ResultWhenReturned ==
    \A c \in Calls : (result[c] = "none") <=> (pc[c] # "returned")

\* The counter never passes N, and it counts the accepted calls.
CountExact ==
    ~ignore_limit_pattern =>
        /\ invocation_count = Cardinality(Accepted)
        /\ invocation_count <= limit

\* A call about to exchange has seen a free slot.
CasSawSlot == \A c \in Calls : pc[c] = "cas" => current_count[c] < limit

\* A refusal has seen a spent budget, which stays spent.
RefusalIsFinal ==
    \A c \in Calls : result[c] = "refused" =>
        ~ignore_limit_pattern /\ invocation_count >= limit

\* With the limit ignored no call gets past the first test.
IgnoredBypasses ==
    ignore_limit_pattern => \A c \in Calls : pc[c] \in {"enter", "returned"}

IInv ==
    /\ TypeOK
    /\ ResultWhenReturned
    /\ CountExact
    /\ CasSawSlot
    /\ RefusalIsFinal
    /\ IgnoredBypasses

-----------------------------------------------------------------------------
\* Accepting one more call adds one to the number of accepted calls.
LEMMA AcceptCounts ==
    ASSUME NEW S \in SUBSET Calls, NEW c \in Calls \ S
    PROVE  /\ Cardinality(S) \in Nat
           /\ Cardinality(S \union {c}) = Cardinality(S) + 1
<1>1. IsFiniteSet(S)
  BY CallsAssumption, FS_Subset
<1>2. Cardinality(S) \in Nat
  BY <1>1, FS_CardinalityType
<1>3. Cardinality(S \union {c}) = Cardinality(S) + 1
  BY <1>1, FS_AddElement
<1> QED BY <1>2, <1>3

LEMMA InitIInv == Init => IInv
<1> SUFFICES ASSUME Init PROVE IInv
  OBVIOUS
<1>1. Accepted = {}
  BY DEF Init, Accepted
<1>2. Cardinality(Accepted) = 0
  BY <1>1, FS_EmptySet
<1> QED
  BY <1>2, LimitAssumption
  DEF Init, IInv, TypeOK, ResultWhenReturned, CountExact, CasSawSlot,
      RefusalIsFinal, IgnoredBypasses, Places, Results

\* One step of one call keeps the invariant.
LEMMA StepIInv ==
    ASSUME IInv, NEW c \in Calls, Step(c)
    PROVE  IInv'
<1> USE DEF IInv
<1>1. CASE Bypass(c)
  <2>1. PICK r \in Inner : Return(c, IF r = "match" THEN "accepted" ELSE r)
    BY <1>1 DEF Bypass
  <2>2. ignore_limit_pattern' = ignore_limit_pattern /\ ignore_limit_pattern
    BY <1>1 DEF Bypass
  <2> QED
    BY <1>1, <2>1, <2>2
    DEF Bypass, Return, Inner, TypeOK, ResultWhenReturned, CountExact,
        CasSawSlot, RefusalIsFinal, IgnoredBypasses, Places, Results
<1>2. CASE Precheck(c)
  <2>1. Accepted' = Accepted
    BY <1>2 DEF Precheck, Return, Accepted, TypeOK, ResultWhenReturned, Results
  <2>2. PICK seen \in 0..invocation_count :
            IF seen >= limit
            THEN Return(c, "refused")
            ELSE pc' = [pc EXCEPT ![c] = "inner"] /\ UNCHANGED result
    BY <1>2 DEF Precheck
  <2>3. seen >= limit => invocation_count >= limit
    BY <2>2, LimitAssumption DEF TypeOK
  <2> QED
    BY <1>2, <2>1, <2>2, <2>3
    DEF Precheck, Return, TypeOK, ResultWhenReturned, CountExact,
        CasSawSlot, RefusalIsFinal, IgnoredBypasses, Places, Results
<1>3. CASE ExecuteInner(c)
  <2>1. Accepted' = Accepted
    BY <1>3 DEF ExecuteInner, Return, Inner, Accepted, TypeOK,
                ResultWhenReturned, Results
  <2> QED
    BY <1>3, <2>1
    DEF ExecuteInner, Return, Inner, TypeOK, ResultWhenReturned, CountExact,
        CasSawSlot, RefusalIsFinal, IgnoredBypasses, Places, Results
<1>4. CASE Load(c)
  <2>1. Accepted' = Accepted
    BY <1>4 DEF Load, Return, Accepted, TypeOK, ResultWhenReturned, Results
  <2>2. ~ignore_limit_pattern
    BY <1>4 DEF Load, IgnoredBypasses
  <2> QED
    BY <1>4, <2>1, <2>2, LimitAssumption
    DEF Load, Return, TypeOK, ResultWhenReturned, CountExact,
        CasSawSlot, RefusalIsFinal, IgnoredBypasses, Places, Results
<1>5. CASE CompareExchange(c)
  <2>1. ~ignore_limit_pattern
    BY <1>5 DEF CompareExchange, IgnoredBypasses
  <2>2. CASE invocation_count = current_count[c]
    <3>1. c \notin Accepted
      BY <1>5 DEF CompareExchange, Accepted, ResultWhenReturned
    <3>2. Accepted' = Accepted \union {c}
      BY <1>5, <2>2 DEF CompareExchange, Return, Accepted, TypeOK
    <3>3. Cardinality(Accepted') = Cardinality(Accepted) + 1
      BY <3>1, <3>2, AcceptCounts DEF Accepted
    <3>4. invocation_count' = invocation_count + 1 /\ invocation_count' <= limit
      BY <1>5, <2>2, LimitAssumption DEF CompareExchange, CasSawSlot, TypeOK
    <3>5. CountExact'
      BY <2>1, <3>3, <3>4 DEF CountExact
    <3> QED
      BY <1>5, <2>1, <2>2, <3>4, <3>5, LimitAssumption
      DEF CompareExchange, Return, TypeOK, ResultWhenReturned,
          CasSawSlot, RefusalIsFinal, IgnoredBypasses, Places, Results
  <2>3. CASE invocation_count # current_count[c]
    <3>1. Accepted' = Accepted
      BY <1>5, <2>3 DEF CompareExchange, Accepted
    <3> QED
      BY <1>5, <2>1, <2>3, <3>1
      DEF CompareExchange, TypeOK, ResultWhenReturned, CountExact,
          CasSawSlot, RefusalIsFinal, IgnoredBypasses, Places, Results
  <2> QED BY <2>2, <2>3
<1> QED BY <1>1, <1>2, <1>3, <1>4, <1>5 DEF Step

LEMMA NextIInv == IInv /\ [Next]_vars => IInv'
<1> SUFFICES ASSUME IInv, [Next]_vars PROVE IInv'
  OBVIOUS
<1>1. CASE \E c \in Calls : Step(c)
  BY <1>1, StepIInv
<1>2. CASE UNCHANGED vars
  BY <1>2
  DEF vars, IInv, TypeOK, ResultWhenReturned, CountExact, CasSawSlot,
      RefusalIsFinal, IgnoredBypasses, Accepted
<1> QED BY <1>1, <1>2 DEF Next, Finished

\* IInv is an inductive invariant of the specification.
THEOREM Invariance == Spec => []IInv
<1> QED BY InitIInv, NextIInv, PTL DEF Spec

\* Every reachable state is well typed.
THEOREM TypeCorrect == Spec => []TypeOK
<1>1. IInv => TypeOK
  BY DEF IInv
<1> QED BY <1>1, Invariance, PTL

\* For every N and any number of racing executions, exactly as many matches
\* are accepted as the counter says, and never more than N.
THEOREM SlotsExactAlways == Spec => []SlotsExact
<1>1. IInv => SlotsExact
  BY DEF IInv, CountExact, SlotsExact
<1> QED BY <1>1, Invariance, PTL

\* For every N, a match is refused only when N others were accepted.
THEOREM RefusedOnlyWhenSpentAlways == Spec => []RefusedOnlyWhenSpent
<1>1. IInv => RefusedOnlyWhenSpent
  <2> SUFFICES ASSUME IInv, NEW c \in Refused
               PROVE  ~ignore_limit_pattern /\ Cardinality(Accepted) = limit
    BY DEF RefusedOnlyWhenSpent
  <2>1. ~ignore_limit_pattern /\ invocation_count >= limit
    BY DEF IInv, RefusalIsFinal, Refused
  <2>2. invocation_count = Cardinality(Accepted) /\ invocation_count <= limit
    BY <2>1 DEF IInv, CountExact
  <2> QED
    BY <2>1, <2>2, LimitAssumption DEF IInv, TypeOK
<1> QED BY <1>1, Invariance, PTL

-----------------------------------------------------------------------------
\* The instance of FiniteSets inside ASpec counts as this module's does.
LEMMA SameCardinality == \A S : ASpec!Cardinality(S) = Cardinality(S)
  BY DEF ASpec!Cardinality, Cardinality, ASpec!IsFiniteSet, IsFiniteSet

LEMMA InitRefines == Init => ASpec!Init
  BY DEF Init, ASpec!Init, Accepted, Refused, Unmatched

\* Each step of a call is a step of the budget or leaves it alone.
LEMMA StepRefines ==
    ASSUME IInv, NEW c \in Calls, Step(c)
    PROVE  [ASpec!Next]_(ASpec!vars)
<1> USE DEF IInv
<1>1. CASE Bypass(c)
  <2>1. ignore_limit_pattern /\ ignore_limit_pattern'
    BY <1>1 DEF Bypass
  <2>2. Refused' = Refused
    BY <1>1 DEF Bypass, Return, Inner, Refused, TypeOK, ResultWhenReturned
  <2> QED BY <2>1, <2>2 DEF ASpec!vars
<1>2. CASE Precheck(c)
  <2>1. ~ignore_limit_pattern /\ ~ignore_limit_pattern' /\ result[c] = "none"
    BY <1>2 DEF Precheck, ResultWhenReturned, TypeOK
  <2>2. Accepted' = Accepted /\ Unmatched' = Unmatched
    BY <1>2, <2>1 DEF Precheck, Return, Accepted, Unmatched, TypeOK
  <2>3. CASE UNCHANGED result
    BY <2>1, <2>2, <2>3 DEF Refused, ASpec!vars
  <2>4. CASE Return(c, "refused")
    <3>1. Refused' = Refused \union {c}
      BY <2>4 DEF Return, Refused, TypeOK
    <3>2. invocation_count >= limit
      <4>1. PICK seen \in 0..invocation_count : seen >= limit
        BY <1>2, <2>1, <2>4 DEF Precheck, Return, TypeOK, Places
      <4> QED BY <4>1, LimitAssumption DEF TypeOK
    <3>3. Cardinality(Accepted) >= limit
      BY <2>1, <3>2 DEF CountExact
    <3>4. ASpec!Refuse(c)
      BY <2>1, <2>2, <3>1, <3>3, SameCardinality
      DEF ASpec!Refuse, ASpec!Pending, Accepted, Refused, Unmatched
    <3> QED BY <3>4 DEF ASpec!Next
  <2> QED BY <1>2, <2>3, <2>4 DEF Precheck
<1>3. CASE ExecuteInner(c)
  <2>1. ~ignore_limit_pattern /\ ~ignore_limit_pattern' /\ result[c] = "none"
    BY <1>3 DEF ExecuteInner, IgnoredBypasses, ResultWhenReturned
  <2>2. CASE UNCHANGED result
    BY <2>1, <2>2 DEF Accepted, Refused, Unmatched, ASpec!vars
  <2>3. ASSUME NEW r \in Inner \ {"match"}, Return(c, r)
        PROVE  ASpec!Miss(c)
    <3>1. /\ Accepted' = Accepted
          /\ Refused' = Refused
          /\ Unmatched' = Unmatched \union {c}
      BY <2>1, <2>3 DEF Return, Inner, Accepted, Refused, Unmatched, TypeOK
    <3> QED
      BY <2>1, <3>1
      DEF ASpec!Miss, ASpec!Pending, Accepted, Refused, Unmatched
  <2> QED BY <1>3, <2>2, <2>3 DEF ExecuteInner, ASpec!Next
<1>4. CASE Load(c)
  <2>1. ~ignore_limit_pattern /\ ~ignore_limit_pattern' /\ result[c] = "none"
    BY <1>4 DEF Load, IgnoredBypasses, ResultWhenReturned
  <2>2. CASE UNCHANGED result
    BY <2>1, <2>2 DEF Accepted, Refused, Unmatched, ASpec!vars
  <2>3. CASE invocation_count >= limit /\ Return(c, "refused")
    <3>1. /\ Accepted' = Accepted
          /\ Refused' = Refused \union {c}
          /\ Unmatched' = Unmatched
      BY <2>1, <2>3 DEF Return, Accepted, Refused, Unmatched, TypeOK
    <3>2. Cardinality(Accepted) >= limit
      BY <2>1, <2>3 DEF CountExact
    <3>3. ASpec!Refuse(c)
      BY <2>1, <3>1, <3>2, SameCardinality
      DEF ASpec!Refuse, ASpec!Pending, Accepted, Refused, Unmatched
    <3> QED BY <3>3 DEF ASpec!Next
  <2> QED BY <1>4, <2>2, <2>3 DEF Load
<1>5. CASE CompareExchange(c)
  <2>1. ~ignore_limit_pattern /\ ~ignore_limit_pattern' /\ result[c] = "none"
    BY <1>5 DEF CompareExchange, IgnoredBypasses, ResultWhenReturned
  <2>2. CASE UNCHANGED result
    BY <2>1, <2>2 DEF Accepted, Refused, Unmatched, ASpec!vars
  <2>3. CASE invocation_count = current_count[c] /\ Return(c, "accepted")
    <3>1. /\ Accepted' = Accepted \union {c}
          /\ Refused' = Refused
          /\ Unmatched' = Unmatched
      BY <2>1, <2>3 DEF Return, Accepted, Refused, Unmatched, TypeOK
    <3>2. Cardinality(Accepted) < limit
      BY <1>5, <2>1, <2>3 DEF CompareExchange, CasSawSlot, CountExact
    <3>3. ASpec!Accept(c)
      BY <2>1, <3>1, <3>2, SameCardinality
      DEF ASpec!Accept, ASpec!Pending, Accepted, Refused, Unmatched
    <3> QED BY <3>3 DEF ASpec!Next
  <2> QED BY <1>5, <2>2, <2>3 DEF CompareExchange
<1> QED BY <1>1, <1>2, <1>3, <1>4, <1>5 DEF Step

\* The relaxed check, the load and the compare_exchange of limit.rs implement
\* an atomically handed out budget of N.
THEOREM Refinement == Spec => ImplementsBudget
<1>1. IInv /\ [Next]_vars => [ASpec!Next]_(ASpec!vars)
  <2> SUFFICES ASSUME IInv, [Next]_vars PROVE [ASpec!Next]_(ASpec!vars)
    OBVIOUS
  <2>1. CASE \E c \in Calls : Step(c)
    BY <2>1, StepRefines
  <2>2. CASE UNCHANGED vars
    BY <2>2 DEF vars, ASpec!vars, Accepted, Refused, Unmatched
  <2> QED BY <2>1, <2>2 DEF Next, Finished
<1> QED
  BY <1>1, InitRefines, Invariance, PTL DEF Spec, ImplementsBudget, ASpec!Spec
=============================================================================

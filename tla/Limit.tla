-------------------------------- MODULE Limit --------------------------------
(***************************************************************************)
(* The `p limit N` pattern: Limit::execute of                              *)
(* grit-pattern-matcher/src/pattern/limit.rs.  One Limit is compiled per   *)
(* problem and shared by every worker thread of an apply; its              *)
(* invocation_count is an Arc<AtomicUsize>.  Each execution first reads    *)
(* the counter without ordering, then runs the inner pattern, and only     *)
(* after a match takes a slot with a load / compare_exchange loop.         *)
(*                                                                         *)
(* A call is one execution of Limit::execute.  Calls of different files    *)
(* run on different threads; here any two may interleave at every atomic   *)
(* access.                                                                 *)
(***************************************************************************)
EXTENDS Naturals, FiniteSets

CONSTANTS
    Calls,      \* executions of the limited pattern
    limit       \* the N of `p limit N`

ASSUME CallsAssumption == IsFiniteSet(Calls)
ASSUME LimitAssumption == limit \in Nat

VARIABLES
    ignore_limit_pattern,   \* runtime flag of the execution context
    invocation_count,       \* the shared atomic counter
    current_count,          \* per call: the value its last SeqCst load returned
    pc,                     \* per call: where in execute it is
    result                  \* per call: what execute returned

vars == <<ignore_limit_pattern, invocation_count, current_count, pc, result>>

Inner == {"match", "miss", "error"}     \* outcomes of self.pattern.execute
Results == {"none", "accepted", "refused", "miss", "error"}
Places == {"enter", "inner", "load", "cas", "returned"}

TypeOK ==
    /\ ignore_limit_pattern \in BOOLEAN
    /\ invocation_count \in Nat
    /\ current_count \in [Calls -> Nat]
    /\ pc \in [Calls -> Places]
    /\ result \in [Calls -> Results]

Init ==
    /\ ignore_limit_pattern \in BOOLEAN
    /\ invocation_count = 0
    /\ current_count = [c \in Calls |-> 0]
    /\ pc = [c \in Calls |-> "enter"]
    /\ result = [c \in Calls |-> "none"]

Return(c, r) ==
    /\ pc' = [pc EXCEPT ![c] = "returned"]
    /\ result' = [result EXCEPT ![c] = r]

\* ignore_limit_pattern(): the inner pattern decides alone.
Bypass(c) ==
    /\ pc[c] = "enter"
    /\ ignore_limit_pattern
    /\ \E r \in Inner : Return(c, IF r = "match" THEN "accepted" ELSE r)
    /\ UNCHANGED <<ignore_limit_pattern, invocation_count, current_count>>

\* Mutation: the check in front refuses one execution early.
PrecheckOffByOne(c) ==
    /\ pc[c] = "enter"
    /\ ~ignore_limit_pattern
    /\ \E seen \in 0..invocation_count :
          IF seen + 1 >= limit
          THEN Return(c, "refused")
          ELSE pc' = [pc EXCEPT ![c] = "inner"] /\ UNCHANGED result
    /\ UNCHANGED <<ignore_limit_pattern, invocation_count, current_count>>

\* load(Relaxed): the counter only grows, and a relaxed load may return any
\* value it has held.
Precheck(c) ==
    /\ pc[c] = "enter"
    /\ ~ignore_limit_pattern
    /\ \E seen \in 0..invocation_count :
          IF seen >= limit
          THEN Return(c, "refused")
          ELSE pc' = [pc EXCEPT ![c] = "inner"] /\ UNCHANGED result
    /\ UNCHANGED <<ignore_limit_pattern, invocation_count, current_count>>

\* self.pattern.execute(..)?, then `if !res { return Ok(false) }`.
ExecuteInner(c) ==
    /\ pc[c] = "inner"
    /\ \/ pc' = [pc EXCEPT ![c] = "load"] /\ UNCHANGED result
       \/ \E r \in Inner \ {"match"} : Return(c, r)
    /\ UNCHANGED <<ignore_limit_pattern, invocation_count, current_count>>

\* Mutation: the loop trusts the check made before the inner pattern ran.
LoadUnchecked(c) ==
    /\ pc[c] = "load"
    /\ current_count' = [current_count EXCEPT ![c] = invocation_count]
    /\ pc' = [pc EXCEPT ![c] = "cas"]
    /\ UNCHANGED <<ignore_limit_pattern, invocation_count, result>>

\* load(SeqCst) at the head of the loop.
Load(c) ==
    /\ pc[c] = "load"
    /\ current_count' = [current_count EXCEPT ![c] = invocation_count]
    /\ IF invocation_count >= limit
       THEN Return(c, "refused")
       ELSE pc' = [pc EXCEPT ![c] = "cas"] /\ UNCHANGED result
    /\ UNCHANGED <<ignore_limit_pattern, invocation_count>>

\* Mutation: a plain store in place of the compare_exchange.
StoreCount(c) ==
    /\ pc[c] = "cas"
    /\ invocation_count' = current_count[c] + 1
    /\ Return(c, "accepted")
    /\ UNCHANGED <<ignore_limit_pattern, current_count>>

\* Mutation: a failed exchange is retried without reading the counter again.
ExchangeWithoutReload(c) ==
    /\ pc[c] = "cas"
    /\ IF invocation_count = current_count[c]
       THEN /\ invocation_count' = current_count[c] + 1
            /\ Return(c, "accepted")
       ELSE UNCHANGED <<invocation_count, pc, result>>
    /\ UNCHANGED <<ignore_limit_pattern, current_count>>

\* Mutation: slots counted down from zero.
ExchangeDown(c) ==
    /\ pc[c] = "cas"
    /\ invocation_count = current_count[c]
    /\ invocation_count' = current_count[c] - 1
    /\ Return(c, "accepted")
    /\ UNCHANGED <<ignore_limit_pattern, current_count>>

\* compare_exchange(current_count, current_count + 1): a slot, or once more.
CompareExchange(c) ==
    /\ pc[c] = "cas"
    /\ IF invocation_count = current_count[c]
       THEN /\ invocation_count' = current_count[c] + 1
            /\ Return(c, "accepted")
       ELSE /\ pc' = [pc EXCEPT ![c] = "load"]
            /\ UNCHANGED <<invocation_count, result>>
    /\ UNCHANGED <<ignore_limit_pattern, current_count>>

Step(c) ==
    \/ Bypass(c)
    \/ Precheck(c)
    \/ ExecuteInner(c)
    \/ Load(c)
    \/ CompareExchange(c)

AllReturned == \A c \in Calls : pc[c] = "returned"

\* The process goes on once every execution has returned.
Finished == AllReturned /\ UNCHANGED vars

Next == (\E c \in Calls : Step(c)) \/ Finished

\* A running thread is scheduled again, so an execution that can step does.
Spec == Init /\ [][Next]_vars /\ \A c \in Calls : WF_vars(Step(c))

-----------------------------------------------------------------------------
Accepted == {c \in Calls : result[c] = "accepted"}
Refused == {c \in Calls : result[c] = "refused"}
Unmatched == {c \in Calls : result[c] \in {"miss", "error"}}

\* However the calls race between the load and the compare_exchange, no more
\* than N of them come back with a match, and the counter is exactly their
\* number: no slot is taken twice and none is lost.
SlotsExact ==
    ~ignore_limit_pattern =>
        /\ invocation_count = Cardinality(Accepted)
        /\ Cardinality(Accepted) <= limit

\* A match is turned away only when the budget really is spent, although the
\* first check is a relaxed load and the second read may be outrun.
RefusedOnlyWhenSpent ==
    Refused # {} => ~ignore_limit_pattern /\ Cardinality(Accepted) = limit

\* The retry loop ends: a compare_exchange fails only because another call
\* took a slot, and there are N slots.
EveryCallReturns == \A c \in Calls : <>(pc[c] = "returned")

\* With the limit honoured, the counter, the relaxed check and the retries
\* implement a budget of N handed out atomically.
ASpec == INSTANCE Budget
            WITH accepted <- IF ignore_limit_pattern THEN {} ELSE Accepted,
                 refused <- Refused,
                 unmatched <- IF ignore_limit_pattern THEN {} ELSE Unmatched
ImplementsBudget == ASpec!Spec
=============================================================================

------------------------------- MODULE Budget -------------------------------
(***************************************************************************)
(* What `p limit N` promises its caller, with no counter, no compare-and-  *)
(* swap and no retries: every execution of the limited pattern returns     *)
(* once, a match is accepted while fewer than N have been, and one is      *)
(* refused only when all N are gone.                                       *)
(***************************************************************************)
EXTENDS Naturals, FiniteSets

CONSTANTS
    Calls,      \* executions of one `limit` pattern, over all files and threads
    limit       \* the N of `p limit N`

VARIABLES
    accepted,   \* calls that returned Ok(true)
    refused,    \* calls turned away because the budget was spent
    unmatched   \* calls whose inner pattern did not match or failed

vars == <<accepted, refused, unmatched>>

Init ==
    /\ accepted = {}
    /\ refused = {}
    /\ unmatched = {}

Pending(c) == c \in Calls \ (accepted \union refused \union unmatched)

Accept(c) ==
    /\ Pending(c)
    /\ Cardinality(accepted) < limit
    /\ accepted' = accepted \union {c}
    /\ UNCHANGED <<refused, unmatched>>

Refuse(c) ==
    /\ Pending(c)
    /\ Cardinality(accepted) >= limit
    /\ refused' = refused \union {c}
    /\ UNCHANGED <<accepted, unmatched>>

Miss(c) ==
    /\ Pending(c)
    /\ unmatched' = unmatched \union {c}
    /\ UNCHANGED <<accepted, refused>>

Next == \E c \in Calls : Accept(c) \/ Refuse(c) \/ Miss(c)

Spec == Init /\ [][Next]_vars
=============================================================================

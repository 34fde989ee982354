------------------------------ MODULE MCLimit ------------------------------
(***************************************************************************)
(* Model values for Limit: four executions race for a budget of two, so    *)
(* that some are refused by the first check, some in the loop, and the     *)
(* compare_exchange both wins and fails.                                   *)
(***************************************************************************)
EXTENDS Limit

MCLimitOfTwo == 2
=============================================================================

------------------------------ MODULE MCSteps ------------------------------
(***************************************************************************)
(* Instances of Steps: one file of each kind, or two.  Of two, the first   *)
(* may be one that is too big, or have the same text as the second.        *)
(***************************************************************************)
EXTENDS Steps

File(t, l, s) == [text |-> t, load |-> l, suppresses |-> s]
Lone == {<<File(1, l, TRUE)>> : l \in {"ok", "too_big", "unreadable"}}
Pairs ==
    {<<File(1, "ok", FALSE), File(t, "ok", FALSE)>> : t \in {1, 2}}
    \union {<<File(1, "too_big", FALSE), File(2, "ok", TRUE)>>}
OneOrTwo == Lone \union Pairs

\* Three steps, so that an inner one may come between two.
ThreeSteps == <<1, 1, 1>>
=============================================================================

------------------------------ MODULE MCCheck ------------------------------
(***************************************************************************)
(* Two patterns on two files.                                              *)
(***************************************************************************)
EXTENDS Check

TwoFiles == {1, 2}

Free(fa, fb, fc) == [finds |-> [a |-> fa, b |-> fb, c |-> fc], limit |-> {}]
Once(fa, fb, fc) == [finds |-> [a |-> fa, b |-> fb, c |-> fc], limit |-> {1}]

Chosen == {
    \* One makes what the other rewrites,
    [p |-> Free("b", "none", "none"), q |-> Free("c", "c", "none")],
    \* one has a limit,
    [p |-> Once("b", "match", "b"), q |-> Free("c", "none", "none")],
    \* and one moves the file.
    [p |-> Free("move", "none", "none"), q |-> Free("b", "none", "match")]}
=============================================================================

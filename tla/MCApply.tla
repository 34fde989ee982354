------------------------------ MODULE MCApply ------------------------------
(***************************************************************************)
(* Instances of Apply: two files with different paths.                     *)
(***************************************************************************)
EXTENDS Apply

TwoFiles == 1..2
PathsOfTwo == <<"a.js", "b.js">>
=============================================================================

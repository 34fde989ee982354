---------------------------- MODULE MCDocuments ----------------------------
(* Instances of Documents for TLC. *)
EXTENDS Documents
=============================================================================

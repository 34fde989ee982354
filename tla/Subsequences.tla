---------------------------- MODULE Subsequences ----------------------------
(***************************************************************************)
(* What is left of a vector by retain, remove and filter_map.              *)
(***************************************************************************)
EXTENDS Naturals, FiniteSets

\* The elements of s at some of its places, in their order.
Subsequence(s, places) ==
    [i \in 1 .. Cardinality(places) |->
        s[CHOOSE k \in places : Cardinality({j \in places : j <= k}) = i]]
=============================================================================

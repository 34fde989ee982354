---------------------------- MODULE MCLinearize ----------------------------
(***************************************************************************)
(* Lists of up to three effects on a text of five tokens, of which all but *)
(* the first and the last are linearized: an effect may be inside of the   *)
(* range, in front of it, behind it, around it or across one of its ends.  *)
(***************************************************************************)
EXTENDS Linearize

FiveTokens == <<"a", "b", "c", "d", "e">>

EffectsOf(kinds, texts) ==
    {e \in [start: 0 .. 5, end: 0 .. 5, kind: kinds, text: texts] :
        e.start <= e.end}
UpTo(n, set) == UNION {[1 .. k -> set] : k \in 0 .. n}

\* Up to two effects of any text, or three of which the insertions repeat.
MixedLists ==
    UpTo(2, EffectsOf({"Rewrite", "Insert"}, {<<>>, <<"x">>, <<"x", "y">>}))
    \union [1 .. 3 -> EffectsOf({"Rewrite"}, {<<"x", "y">>})
                      \union EffectsOf({"Insert"}, {<<"z">>})]
=============================================================================

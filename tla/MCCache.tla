------------------------------ MODULE MCCache ------------------------------
(***************************************************************************)
(* Instances of Cache: a key is three bytes and a BufWriter holds four, so *)
(* that it is flushed while the cache is in use and has room for a part of *)
(* the next key.  Each file has a pattern that does not match it, so that  *)
(* a key made of parts of two of theirs is seen.                           *)
(***************************************************************************)
EXTENDS Cache

CONSTANTS f1, f2, q1, q2

OneKeyAndABit == 4
TwoKeys == 6
OnePatternEach == {<<f1, q1>>, <<f2, q2>>}
=============================================================================

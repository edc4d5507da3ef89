----------------------------- MODULE MCKvStore -----------------------------
(* Model-checking instance of KvStore: two keys, one string payload, a     *)
(* four-millisecond clock, ids over 0..2 and streams of up to 3 entries.   *)
EXTENDS KvStore, TLC

CONSTANTS k1, k2, s1

MCKeys == {k1, k2}
MCStrings == {s1}
(* PX 0 (no expiry), PX 1, and PX -2, which uint64() wraps to 2^64 - 2.    *)
MCPxArgs == {0, 1, -2}

(* A snapshot key may carry an expiry at any time the clock reaches.       *)
MCRdbExpiryTimes == 1..4

MCSymmetry == Permutations(MCKeys)
=============================================================================

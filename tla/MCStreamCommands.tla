------------------------- MODULE MCStreamCommands -------------------------
(* Model-checking instance of StreamCommands: two keys, one payload, a     *)
(* four-millisecond clock, ids over 0..2 and streams of up to 3 entries.   *)
EXTENDS StreamCommands, TLC

CONSTANTS k1, k2, s1

MCKeys == {k1, k2}
MCStrings == {s1}
MCPxArgs == {0, 1, -2}
MCRdbExpiryTimes == 1..4

Word == [kind |-> "word"]
K(k) == [kind |-> "key", key |-> k]
Id(t, s) == [kind |-> "id", id |-> <<t, s>>]
Bound(sym, t, s) == [sym |-> sym, id |-> <<t, s>>]

(* XRANGE - +, and a closed range inside the ids the model reaches.        *)
MCXRangeBounds ==
    {<<Bound("-", 0, 0), Bound("+", 0, 0)>>, <<Bound("id", 1, 0), Bound("id", 2, 0)>>}

(* XREAD streams k1 0-0; streams k1 k2 0-0 1-0; and streams k1 k2 0-0,     *)
(* whose odd count pairs k1 with the word "k2".                           *)
MCXReadArgs ==
    {<<Word, K(k1), Id(0, 0)>>, <<Word, K(k1), K(k2), Id(0, 0), Id(1, 0)>>,
     <<Word, K(k1), K(k2), Id(0, 0)>>}

MCSymmetry == Permutations(MCKeys)
=============================================================================

---------------------------- MODULE MCReplication ---------------------------
(* Model-checking instance of Replication: one key, a one-digit integer    *)
(* payload (INCR of 9 gives the two-digit 10) and a ten-byte payload (a    *)
(* two-digit bulk length).                                                 *)
EXTENDS Replication

MCKeys == {<<"k">>}
Ten == <<"a", "b", "c", "d", "e", "f", "g", "h", "i", "j">>
MCVals == {<<"9">>, Ten}
(* A client's SET k "" reaches the leader as $0 and is stored as "".       *)
MCValsWithEmpty == MCVals \cup {<<>>}
=============================================================================

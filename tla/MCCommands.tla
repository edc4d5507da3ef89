---------------------------- MODULE MCCommands -----------------------------
(* Model-checking instance of Commands.  Commands are built from small     *)
(* sets; each cfg picks the set of commands its question needs.            *)
EXTENDS Commands, TLC

CONSTANTS c1, c2, k1, k2, s1, nilc

MCConns1 == {c1}
MCConns2 == {c1, c2}
MCKeys1 == {k1}
MCKeys2 == {k1, k2}

(* Payloads: a non-numeric string and the decimal strings INCR reaches.    *)
MCStrings == {s1, 1, 2}
MCNoRdbExpiry == {}
MCPxArgs == {0, 1}
MCRdbExpiry == {1}

(* XADD ids: "*" and "1-*" (the clock and the sequence wildcard), and the  *)
(* explicit id 0-0 (rejected).                                              *)
MCXAddIds ==
    {[kind |-> "auto", t |-> 0, s |-> 0], [kind |-> "seqwild", t |-> 1, s |-> 0],
     [kind |-> "explicit", t |-> 0, s |-> 0]}

Basic(ks) ==
    {Cmd(n, Nil, Nil, "", 0, Nil) : n \in {"multi", "exec", "discard", "keys"}}
    \cup {Cmd(n, k, Nil, "", 0, Nil) : n \in {"get", "incr", "type"}, k \in ks}
    \cup {Cmd("xadd", k, Nil, "", 0, i) : k \in ks, i \in MCXAddIds}

Sets(ks, opts) == {Cmd("set", k, s, o[1], o[2], Nil) : k \in ks, s \in {s1, 1}, o \in opts}

(* The configuration server.go stores at start (the flag defaults).      *)
MCConfigStore == ("dir" :> "/tmp/redis-files/") @@ ("dbfilename" :> "dump.rdb")

(* CONFIG GET of a set key, with the operation in upper case.            *)
Admin ==
    {Cmd("config", "dir", Nil, "GET", 0, Nil)}

(* Every command, SET without options.                                     *)
MCCommandsPlain == Basic(MCKeys1) \cup Sets(MCKeys1, {<<"", 0>>}) \cup Admin
(* A transaction around a CONFIG GET that fails, with ECHO, INFO, PING    *)
(* and WAIT.                                                               *)
MCCommandsTxFail ==
    {Cmd(n, Nil, Nil, "", 0, Nil) : n \in {"multi", "exec", "info", "ping", "wait"}}
    \cup Sets(MCKeys1, {<<"", 0>>})
    \cup {Cmd("config", "maxmemory", Nil, "get", 0, Nil)}
    \cup {Cmd("echo", Nil, v, "", 0, Nil) : v \in {s1, Nil}}
(* SET of one key, without options.                                        *)
MCCommandsSet == Sets(MCKeys1, {<<"", 0>>})
(* KEYS beside SET with PX 1.                                              *)
MCCommandsKeys == {Cmd("keys", Nil, Nil, "", 0, Nil)} \cup Sets(MCKeys1, {<<"px", 1>>})
(* SET and GET of one key, with the PX options the cfg names.              *)
MCSetGet(opts) == {Cmd("get", k1, Nil, "", 0, Nil)} \cup Sets(MCKeys1, opts)
MCCommandsPx1 == MCSetGet({<<"", 0>>, <<"px", 1>>})
(* SET with PX 0, and with the option spelled in upper case.              *)
MCCommandsPxEdge == MCSetGet({<<"px", 0>>, <<"PX", 1>>})
(* SET with a negative PX, which uint64() wraps.                          *)
MCCommandsPxNeg == MCSetGet({<<"px", -3>>})
(* INCR and GET of one key.                                                *)
MCCommandsIncr == {Cmd(n, k1, Nil, "", 0, Nil) : n \in {"get", "incr"}}
(* Transactions: MULTI, EXEC, DISCARD and SET.                             *)
MCCommandsTx ==
    {Cmd(n, Nil, Nil, "", 0, Nil) : n \in {"multi", "exec", "discard"}}
    \cup Sets(MCKeys1, {<<"", 0>>})

MCSymmetry == Permutations(MCKeys2)
=============================================================================

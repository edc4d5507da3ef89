------------------------------ MODULE ServerArgs ------------------------------
(***************************************************************************)
(* The redis server's command line (parseArgs in src/redis-go/app/         *)
(* server.go) and the path ReadRdbFromFile opens from it (filepath.Join in *)
(* rdb/rdb.go), as operators.                                              *)
(*                                                                         *)
(* An argument is a sequence of pieces: a flag is <<"--port">>, a path is  *)
(* its names and its "/" separators (<<"/", "tmp", "/", "redis-files">>),  *)
(* a --replicaof value is <<"localhost", " ", "6379">>.  A piece is a      *)
(* string the model never looks inside; Numerals maps the pieces that      *)
(* strconv.Atoi accepts to their value.                                    *)
(***************************************************************************)
EXTENDS Integers, Sequences, SequencesExt

CONSTANT Numerals   \* [piece -> Int]: the pieces strconv.Atoi parses

PortFlag == <<"--port">>
ReplicaofFlag == <<"--replicaof">>
DebugFlag == <<"--debug">>
DbfilenameFlag == <<"--dbfilename">>
DirFlag == <<"--dir">>
Space == " "
Slash == "/"

(* The ServerConfig parseArgs returns; LeaderAddr is <<>> (the empty       *)
(* string, a leader) or <<host, port>> (fmt.Sprintf "%s:%d").              *)
Defaults ==
    [port |-> 6379, leaderAddr |-> <<>>, debug |-> FALSE,
     dbfilename |-> <<"dump.rdb">>, dir |-> <<Slash, "tmp", Slash, "redis-files", Slash>>]

ArgsExit == [exit |-> 1]   \* os.Exit(1) after a diagnostic

AtoiOk(v) == Len(v) = 1 /\ v[1] \in DOMAIN Numerals
Atoi(v) == Numerals[v[1]]

(* strings.Split(v, " "): n spaces give n + 1 parts, empty ones included.  *)
Split(v) ==
    FoldLeft(LAMBDA parts, x :
                IF x = Space THEN Append(parts, <<>>)
                ELSE [parts EXCEPT ![Len(parts)] = Append(@, x)],
             <<<<>>>>, v)

(* The --replicaof case: exactly two parts, the second a decimal port.     *)
ReplicaOf(v) ==
    LET parts == Split(v) IN
    IF Len(parts) # 2 \/ ~AtoiOk(parts[2]) THEN ArgsExit
    ELSE [leaderAddr |-> <<parts[1], Atoi(parts[2])>>]

(* One iteration of parseArgs' loop at os.Args[i] (args is os.Args[1:]):   *)
(* a flag with a value reads args[i+1] when i+1 < len(os.Args) and skips   *)
(* it; anything else is an unknown argument.                               *)
RECURSIVE ParseFrom(_, _, _)
ParseFrom(args, i, conf) ==
    IF i > Len(args) THEN conf
    ELSE LET a == args[i]
             hasValue == i + 1 <= Len(args)
             v == args[i + 1]
             Skip2(c) == ParseFrom(args, i + 2, c)
         IN CASE a = DebugFlag -> ParseFrom(args, i + 1, [conf EXCEPT !.debug = TRUE])
              [] ~hasValue \/ a \notin {PortFlag, ReplicaofFlag, DbfilenameFlag, DirFlag} ->
                    ArgsExit
              [] a = PortFlag ->
                    IF AtoiOk(v) THEN Skip2([conf EXCEPT !.port = Atoi(v)]) ELSE ArgsExit
              [] a = ReplicaofFlag ->
                    IF ReplicaOf(v) = ArgsExit THEN ArgsExit
                    ELSE Skip2([conf EXCEPT !.leaderAddr = ReplicaOf(v).leaderAddr])
              [] a = DbfilenameFlag -> Skip2([conf EXCEPT !.dbfilename = v])
              [] a = DirFlag -> Skip2([conf EXCEPT !.dir = v])

(* Fault: the --dbfilename case does not skip its value.                   *)
ParseArgsNoSkip(args) ==
    LET RECURSIVE From(_, _)
        From(i, conf) ==
            IF i > Len(args) THEN conf
            ELSE LET a == args[i]
                     hasValue == i + 1 <= Len(args)
                     v == args[i + 1]
                 IN CASE a = DebugFlag -> From(i + 1, [conf EXCEPT !.debug = TRUE])
                      [] ~hasValue \/ a \notin {PortFlag, ReplicaofFlag, DbfilenameFlag, DirFlag} ->
                            ArgsExit
                      [] a = PortFlag ->
                            IF AtoiOk(v) THEN From(i + 2, [conf EXCEPT !.port = Atoi(v)]) ELSE ArgsExit
                      [] a = ReplicaofFlag ->
                            IF ReplicaOf(v) = ArgsExit THEN ArgsExit
                            ELSE From(i + 2, [conf EXCEPT !.leaderAddr = ReplicaOf(v).leaderAddr])
                      [] a = DbfilenameFlag -> From(i + 1, [conf EXCEPT !.dbfilename = v])
                      [] a = DirFlag -> From(i + 2, [conf EXCEPT !.dir = v])
    IN From(1, Defaults)

ParseArgs(args) == ParseFrom(args, 1, Defaults)

(* filepath.Join(dir, name): the non-empty elements joined by "/", then    *)
(* Clean: runs of "/" become one and a trailing "/" goes (the model's      *)
(* paths hold no "." or ".." names).                                       *)
Clean(p) ==
    LET once == FoldLeft(LAMBDA acc, x :
                            IF x = Slash /\ acc # <<>> /\ Last(acc) = Slash THEN acc
                            ELSE Append(acc, x),
                         <<>>, p)
    IN IF Len(once) > 1 /\ Last(once) = Slash THEN Front(once) ELSE once

Join(dir, name) ==
    Clean(CASE dir = <<>> -> name
            [] name = <<>> -> dir
            [] OTHER -> dir \o <<Slash>> \o name)

-----------------------------------------------------------------------------
(* The command line spec section 8 documents, as a reference: options in   *)
(* any order, each valued flag followed by its value, a later option       *)
(* overriding an earlier one, --replicaof "<host> <port>" with one space   *)
(* and an integer port; anything else exits.                               *)
RECURSIVE Documented(_, _)
Documented(rest, conf) ==
    IF rest = <<>> THEN conf
    ELSE LET flag == Head(rest)
             val == rest[2]
             spaces == {n \in 1..Len(val) : val[n] = Space}
             host == SubSeq(val, 1, Min(spaces) - 1)
             port == SubSeq(val, Min(spaces) + 1, Len(val))
         IN IF flag = DebugFlag THEN Documented(Tail(rest), [conf EXCEPT !.debug = TRUE])
            ELSE IF Len(rest) < 2 THEN ArgsExit
            ELSE IF flag = DirFlag THEN Documented(Tail(Tail(rest)), [conf EXCEPT !.dir = val])
            ELSE IF flag = DbfilenameFlag
                 THEN Documented(Tail(Tail(rest)), [conf EXCEPT !.dbfilename = val])
            ELSE IF flag = PortFlag /\ AtoiOk(val)
                 THEN Documented(Tail(Tail(rest)), [conf EXCEPT !.port = Atoi(val)])
            ELSE IF flag = ReplicaofFlag /\ Cardinality(spaces) = 1 /\ AtoiOk(port)
                 THEN Documented(Tail(Tail(rest)),
                                 [conf EXCEPT !.leaderAddr = <<host, Atoi(port)>>])
            ELSE ArgsExit
=============================================================================

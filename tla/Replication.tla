----------------------------- MODULE Replication ----------------------------
(***************************************************************************)
(* A follower replicating from a leader (spec 4.6): the handshake and RDB  *)
(* transfer of replication/repl_client.go, then the replication listener  *)
(* of server.go (startReplicationListener), which parses commands from the *)
(* leader connection with the RESP codec, dispatches them through          *)
(* HandleCommand, answers REPLCONF GETACK with ProcessedBytes, and adds    *)
(* each command's lexer byte delta to ProcessedBytes.                      *)
(*                                                                         *)
(* The leader side is what its forwarder writes to this connection: the    *)
(* RESP form of each SET or INCR it applied (cmd/set.go, cmd/incr.go, only *)
(* on success), and REPLCONF GETACK * from the peer playing leader.        *)
(* Frames are written whole.                                               *)
(***************************************************************************)
EXTENDS Resp, TLC

CONSTANTS
    Keys,          \* keys, as byte sequences
    Vals,          \* SET payloads, as byte sequences
    MaxCmds        \* bound on the commands the leader sends

VARIABLES
    fpc,        \* follower: "handshake" | "rdb" | "listen" | "done" | "crashed"
    sent,       \* leader: the commands written to the connection, in order
    closed,     \* leader: the connection has been closed
    lx,         \* listener lexer: [pos |-> bytes drawn, count |-> ByteCounter]
    processed,  \* HostContext.ProcessedBytes
    store,      \* the follower's store: a function from the keys it holds
    acks        \* REPLCONF ACK offsets written back, in order

vars == <<fpc, sent, closed, lx, processed, store, acks>>

Word(s) == BulkString(s)
Cmd(words) == RespArray([i \in 1..Len(words) |-> Word(words[i])])
SET == <<"s", "e", "t">>
INCR == <<"i", "n", "c", "r">>
REPLCONF == <<"r", "e", "p", "l", "c", "o", "n", "f">>
GETACK == <<"g", "e", "t", "a", "c", "k">>
GetAck == Cmd(<<REPLCONF, GETACK, <<"*">>>>)

(* The bytes of a sequence of commands on the wire.                        *)
Wire(cmds) == FlattenSeq([i \in 1..Len(cmds) |-> AsRespString(cmds[i])])

-----------------------------------------------------------------------------
(* What the leader's store holds after applying cmds (spec 4.2): SET      *)
(* stores its value; INCR stores value+1, or 1 for a missing key.  This is *)
(* the reference the follower is compared with.                           *)
LeaderApply(st, c) ==
    LET k == c.elems[2].str IN
    CASE c.elems[1].str = SET -> (k :> c.elems[3].str) @@ st
      [] c.elems[1].str = INCR ->
            (k :> Itoa(IF k \in DOMAIN st THEN Atoi(st[k]) + 1 ELSE 1)) @@ st
      [] OTHER -> st

EmptyStore == [k \in {} |-> <<>>]
LeaderStore(cmds) == FoldLeft(LeaderApply, EmptyStore, cmds)

(* HandleIncr publishes only after a successful increment (incr.go:24).    *)
Publishable(c) ==
    LET st == LeaderStore(sent)
        k == c.elems[2].str
    IN c.elems[1].str = INCR /\ k \in DOMAIN st => AtoiOk(st[k])

LeaderCommands ==
    {Cmd(<<SET, k, v>>) : k \in Keys, v \in Vals}
    \cup {Cmd(<<INCR, k>>) : k \in Keys} \cup {GetAck}

-----------------------------------------------------------------------------
(* The leader's forwarder writes one more propagated command.              *)
LeaderSend(c) ==
    /\ fpc # "handshake"
    /\ ~closed
    /\ Len(sent) < MaxCmds
    /\ Publishable(c)
    /\ sent' = Append(sent, c)
    /\ UNCHANGED <<fpc, closed, lx, processed, store, acks>>

LeaderClose ==
    /\ fpc # "handshake"
    /\ ~closed
    /\ closed' = TRUE
    /\ UNCHANGED <<fpc, sent, lx, processed, store, acks>>

(* SendHandshake (PING, REPLCONF listening-port, REPLCONF capa, each      *)
(* answered as expected by the leader) and PSYNC ? -1 with its FULLRESYNC  *)
(* reply line.  From here on the leader forwards writes.                   *)
Handshake ==
    /\ fpc = "handshake"
    /\ fpc' = "rdb"
    /\ UNCHANGED <<sent, closed, lx, processed, store, acks>>

(* DeserializeRdb reads the RDB from the client's reader (bufio.NewReader *)
(* of a *bufio.Reader returns that reader, so nothing read past the RDB is *)
(* lost).  The listener's lexer then starts with ByteCounter 0.            *)
RdbRead ==
    /\ fpc = "rdb"
    /\ lx' = [pos |-> 0, count |-> 0]
    /\ fpc' = "listen"
    /\ UNCHANGED <<sent, closed, processed, store, acks>>

-----------------------------------------------------------------------------
(* ParseServerCommand: the value must be a non-empty array whose first     *)
(* element is a bulk string.                                               *)
IsCommand(v) ==
    /\ v.type = "array"
    /\ Len(v.elems) > 0
    /\ v.elems[1].type = "bulk"

Arg(a, i) == a.elems[i].str
HasBulk(a, i) == Len(a.elems) >= i /\ a.elems[i].type = "bulk"

(* The handlers index RespArr.Elements and assert *RespBulkString without  *)
(* checks, so a missing or non-bulk argument panics; a command name that   *)
(* HandleCommand does not know reaches panic(1).  Command names and        *)
(* arguments here are lower case, so strings.ToLower leaves them as they   *)
(* are.                                                                    *)
LISTENINGPORT == <<"l", "i", "s", "t", "e", "n", "i", "n", "g", "-", "p", "o", "r", "t">>
CAPA == <<"c", "a", "p", "a">>
Panics(a) ==
    CASE Arg(a, 1) = SET -> ~(HasBulk(a, 2) /\ HasBulk(a, 3))
      [] Arg(a, 1) \in {INCR, REPLCONF} -> ~HasBulk(a, 2)
      [] OTHER -> TRUE

(* HandleSet on the follower: Store.Set(key, val, no options).  The        *)
(* leader's stream carries SET k v only, so the PX branch is not reached;  *)
(* the send on the follower's own EventsChannel has no subscriber.         *)
FollowerSet(a) == store' = (Arg(a, 2) :> Arg(a, 3)) @@ store

(* HandleIncr on the follower: a stored non-integer gives an ERR reply     *)
(* with a nil error; otherwise Store.Set(key, Itoa(newval)).               *)
FollowerIncr(a) ==
    LET k == Arg(a, 2) IN
    IF k \in DOMAIN store /\ ~AtoiOk(store[k])
    THEN UNCHANGED store
    ELSE store' = (k :> Itoa(IF k \in DOMAIN store THEN Atoi(store[k]) + 1 ELSE 1)) @@ store

(* Fault: AppendProcessedBytes with the operands of the delta swapped.     *)
DispatchSwappedDelta(a, counter) ==
    LET p == processed
        delta == p - counter
    IN CASE Arg(a, 1) = SET -> FollowerSet(a) /\ processed' = p + delta /\ UNCHANGED acks
         [] Arg(a, 1) = INCR -> FollowerIncr(a) /\ processed' = p + delta /\ UNCHANGED acks
         [] Arg(a, 2) = GETACK ->
               acks' = Append(acks, p) /\ processed' = p + delta /\ UNCHANGED store
         [] Arg(a, 2) \in {LISTENINGPORT, CAPA} ->
               processed' = p + delta /\ UNCHANGED <<store, acks>>
         [] OTHER -> UNCHANGED <<store, processed, acks>>

(* Fault: ProcessedBytes is brought up to date before the command runs.    *)
DispatchAckAfterAppend(a, counter) ==
    LET p == processed
        delta == counter - p
    IN CASE Arg(a, 1) = SET -> FollowerSet(a) /\ processed' = p + delta /\ UNCHANGED acks
         [] Arg(a, 1) = INCR -> FollowerIncr(a) /\ processed' = p + delta /\ UNCHANGED acks
         [] Arg(a, 2) = GETACK ->
               acks' = Append(acks, p + delta) /\ processed' = p + delta /\ UNCHANGED store
         [] Arg(a, 2) \in {LISTENINGPORT, CAPA} ->
               processed' = p + delta /\ UNCHANGED <<store, acks>>
         [] OTHER -> UNCHANGED <<store, processed, acks>>

(* HostContext.AppendProcessedBytes, under h.mu.                         *)
AppendProcessedBytes(count) == processed' = processed + count

(* HandleCommand for a replicated command, then                           *)
(* AppendProcessedBytes(lexer.ByteCounter - p) where p is ProcessedBytes   *)
(* read at the top of the iteration.  HandleReplconf answers GETACK with   *)
(* the ProcessedBytes of before this command, and the listener writes that *)
(* answer back; an unknown REPLCONF subcommand is an error, and the loop   *)
(* continues without counting the command.                                 *)
Dispatch(a, counter) ==
    LET p == processed
        delta == counter - p
    IN CASE Arg(a, 1) = SET -> FollowerSet(a) /\ AppendProcessedBytes(delta) /\ UNCHANGED acks
         [] Arg(a, 1) = INCR -> FollowerIncr(a) /\ AppendProcessedBytes(delta) /\ UNCHANGED acks
         [] Arg(a, 2) = GETACK ->
               acks' = Append(acks, p) /\ AppendProcessedBytes(delta) /\ UNCHANGED store
         [] Arg(a, 2) \in {LISTENINGPORT, CAPA} ->
               AppendProcessedBytes(delta) /\ UNCHANGED <<store, acks>>
         [] OTHER -> UNCHANGED <<store, processed, acks>>

(* The parses the listener can complete now: on an open connection a read *)
(* that runs out of bytes waits for more.                                  *)
Receivable == {o \in Parse(Wire(sent), lx) : closed \/ ~o.starved}

(* One iteration of the replication listener's loop: io.EOF ends it, a     *)
(* parse error or a value that is not a command is logged and skipped, a  *)
(* panic anywhere ends the process.                                        *)
ListenerStep ==
    /\ fpc = "listen"
    /\ \E o \in Receivable :
          /\ lx' = o.lx
          /\ CASE o.kind = "eof" ->
                    fpc' = "done" /\ UNCHANGED <<store, processed, acks>>
               [] o.kind = "panic" ->
                    fpc' = "crashed" /\ UNCHANGED <<store, processed, acks>>
               [] o.kind = "err" \/ ~IsCommand(o.val) ->
                    UNCHANGED <<fpc, store, processed, acks>>
               [] Panics(o.val) ->
                    fpc' = "crashed" /\ UNCHANGED <<store, processed, acks>>
               [] OTHER ->
                    Dispatch(o.val, o.lx.count) /\ UNCHANGED fpc
    /\ UNCHANGED <<sent, closed>>

-----------------------------------------------------------------------------
Init ==
    /\ fpc = "handshake"
    /\ sent = <<>>
    /\ closed = FALSE
    /\ lx = [pos |-> 0, count |-> 0]
    /\ processed = 0
    /\ store = EmptyStore
    /\ acks = <<>>

Next ==
    \/ Handshake
    \/ RdbRead
    \/ ListenerStep
    \/ \E c \in LeaderCommands : LeaderSend(c)
    \/ LeaderClose

Spec == Init /\ [][Next]_vars

(* ListenerStep is enabled exactly when the listener is running and some *)
(* parse can complete (every arm of its CASE can be taken, and each step   *)
(* moves the lexer, so it never stutters).                                 *)
ListenerCanStep == fpc = "listen" /\ Receivable # {}

(* The follower's goroutine (the replication client, then the listener)   *)
(* runs whenever it is not blocked on the connection; the leader may stop *)
(* sending at any time.  The weak fairness of ListenerStep is written out  *)
(* with ListenerCanStep for its ENABLED, which TLC would otherwise compute *)
(* by re-running the recursive parse without sharing its LET results.      *)
FairSpec ==
    /\ Spec
    /\ WF_vars(Handshake)
    /\ WF_vars(RdbRead)
    /\ ([]<>~ListenerCanStep \/ []<><<ListenerStep>>_vars)

-----------------------------------------------------------------------------
TypeOK ==
    /\ fpc \in {"handshake", "rdb", "listen", "done", "crashed"}
    /\ sent \in Seq(LeaderCommands)
    /\ closed \in BOOLEAN
    /\ lx \in [pos : 0..Len(Wire(sent)), count : Nat]
    /\ processed \in Nat
    /\ DOMAIN store \subseteq Keys
    /\ acks \in Seq(Nat)

(* The offset a GETACK must report: the bytes of the commands before it.   *)
RECURSIVE AckOffsets(_)
AckOffsets(cmds) ==
    IF cmds = <<>> THEN <<>>
    ELSE AckOffsets(Front(cmds))
         \o (IF Last(cmds) = GetAck THEN <<Len(Wire(Front(cmds)))>> ELSE <<>>)

(* The follower tracks the leader (spec 4.6, 4.1, 8.2): the listener never *)
(* panics; between commands it has applied exactly a prefix of what the    *)
(* leader sent, its store is the leader's store after that prefix, its     *)
(* lexer has drawn and counted exactly those bytes and ProcessedBytes is   *)
(* their number; and every REPLCONF ACK it wrote reports the bytes of the  *)
(* commands before the GETACK it answers.                                  *)
ReplicaTracksLeader ==
    /\ fpc # "crashed"
    /\ fpc \in {"listen", "done"} =>
          \E i \in 0..Len(sent) :
             LET applied == SubSeq(sent, 1, i) IN
             /\ processed = Len(Wire(applied))
             /\ store = LeaderStore(applied)
             /\ fpc = "listen" => lx = [pos |-> processed, count |-> processed]
    /\ IsPrefix(acks, AckOffsets(sent))

(* Every command the leader writes is eventually applied, even if the    *)
(* leader then stays idle with the connection open: the listener never     *)
(* waits in Parse for bytes past the end of a complete command (readLine,  *)
(* ConsumeBytes and ConsumeCrlf's Peek(2) all block only inside a frame),  *)
(* so once the leader stops writing, ProcessedBytes reaches the bytes it   *)
(* wrote and stays there, and every GETACK has been answered.              *)
CommandsApplied == <>[](processed = Len(Wire(sent)))
=============================================================================

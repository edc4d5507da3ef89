------------------------------ MODULE Commands ------------------------------
(***************************************************************************)
(* The command dispatcher and the handlers that touch state               *)
(* (src/redis-go/app/cmd/*.go, handleConnection in server.go) over the     *)
(* shared KvStore.  Each connection is one goroutine running               *)
(* handleConnection: read a command, HandleCommand, write the reply.  A    *)
(* handler is one step per call that takes the store mutex, plus one step  *)
(* for its send on the pub/sub EventsChannel; the steps of other           *)
(* connections interleave between them.                                    *)
(*                                                                         *)
(* HandleCommand's transaction prologue (IsInTransaction, QueueCommand) is *)
(* folded into the handler's first step.  EXEC replays its queue by        *)
(* calling HandleCommand with a HandleContext whose ConnId is the zero     *)
(* uuid, NilConn here; that context is shared by every connection.         *)
(*                                                                         *)
(* The send on the unbuffered EventsChannel completes in the order the     *)
(* single fan-out goroutine receives; published is that order.  The        *)
(* fan-out itself is modelled in PubSub.                                   *)
(***************************************************************************)
EXTENDS KvStore

SeqsExt == INSTANCE SequencesExt

CONSTANTS
    Conns,         \* client connections (handleConnection goroutines)
    NilConn,       \* uuid.Nil, the ConnId of commands replayed by EXEC
    Commands,      \* the commands clients send (records built with Cmd)
    MaxInt,        \* INCR is not sent to a key already holding >= MaxInt
    MaxPublished,  \* no SET/INCR is sent once MaxPublished events are out
    MaxQueue,      \* no command is queued on a queue of MaxQueue commands
    StreamMark,    \* the value a key holds in intent once it is a stream
    ConfigStore,   \* HostContext.ConfigStore: [config key -> value], set at start
    LeaderAddr,    \* HostContext.LeaderAddr: "" on a leader
    LeaderReplId   \* HostContext.LeaderReplId: "" on a follower

ASSUME NilConn \notin Conns

VARIABLES
    pc,          \* [Conns -> step of the handler the goroutine is in]
    cur,         \* [Conns -> command being handled]
    ctxId,       \* [Conns -> ConnId of the running HandleCommand]
    newval,      \* [Conns -> INCR's newval between its Get and its Set]
    execQueue,   \* [Conns -> commands HandleExec has still to run]
    execReplies, \* [Conns -> replies HandleExec has collected]
    reply,       \* [Conns -> last reply written to the connection]
    txQueue,     \* HostContext.TxQueue: [Conns \cup {NilConn} -> Seq \cup {Nil}]
    published,   \* events sent on EventsChannel, in order
    intent,      \* history variable: the abstract store of spec.md
    queued       \* history: [Conns -> QUEUED replies c was sent since its
                 \*   last EXEC or DISCARD reply]

replyVars == <<reply, queued>>
connVars == <<pc, cur, ctxId, newval, execQueue, execReplies, replyVars>>
vars == <<storeVars, connVars, txQueue, published, intent>>

Cmd(name, key, val, opt, px, id) ==
    [name |-> name, key |-> key, val |-> val, opt |-> opt, px |-> px, id |-> id]

NoCmd == Cmd("", Nil, Nil, "", 0, Nil)

(* A reply, as the RESP value the handler serialises.                      *)
R(kind, v) == [kind |-> kind, v |-> v]

-----------------------------------------------------------------------------
(* intent: the store spec.md section 4.2 describes, updated in the same    *)
(* step as the store write it abstracts.  A key holds a value and an       *)
(* absolute deadline (Nil: none).  SET with PX p sets deadline ms + p, SET *)
(* without PX clears it; INCR increments a live integer atomically and     *)
(* keeps its deadline; a successful XADD makes the key a stream.           *)
IntentLive(k) ==
    intent[k].val # Nil /\ (intent[k].deadline = Nil \/ now <= intent[k].deadline)

IntentValue(k) == IF IntentLive(k) THEN intent[k].val ELSE Nil

-----------------------------------------------------------------------------
(* A handler returns res: back to HandleExec when it ran inside EXEC       *)
(* (ConnId NilConn), else handleConnection writes it to the connection.    *)
Finish(c, id, cmd, res) ==
    IF id = NilConn
    THEN /\ execReplies' = [execReplies EXCEPT ![c] = Append(@, res)]
         /\ pc' = [pc EXCEPT ![c] = "exec"]
         /\ UNCHANGED replyVars
    ELSE /\ reply' = [reply EXCEPT ![c] =
                        [cmd |-> cmd, res |-> res,
                         expect |-> IF cmd.name = "get" THEN IntentValue(cmd.key) ELSE Nil]]
         /\ queued' = [queued EXCEPT ![c] =
                         CASE res = R("simple", "QUEUED") -> @ + 1
                           [] cmd.name \in {"exec", "discard"} -> 0
                           [] OTHER -> @]
         /\ pc' = [pc EXCEPT ![c] = "idle"]
         /\ UNCHANGED execReplies

(* A handler returns an error: HandleExec passes it up, handleConnection   *)
(* returns and the connection is closed.  Its TxQueue entry stays.         *)
Fail(c) ==
    /\ pc' = [pc EXCEPT ![c] = "closed"]
    /\ UNCHANGED <<replyVars, execReplies>>

(* In a transaction: QueueCommand, reply QUEUED.                           *)
QueueCommand(c, id, cmd) ==
    /\ txQueue' = [txQueue EXCEPT ![id] = Append(@, cmd)]
    /\ Finish(c, id, cmd, R("simple", "QUEUED"))
    /\ UNCHANGED <<storeVars, published, intent, newval>>

HandleGet(c, id, cmd) ==
    LET g == GetResult(cmd.key) IN
    /\ Get(cmd.key)
    /\ IF g.ok /\ g.val.type # "string"
       THEN Fail(c)                                  \* "unexpected value type"
       ELSE Finish(c, id, cmd, R("bulk", IF g.ok THEN g.val.str ELSE Nil))
    /\ UNCHANGED <<txQueue, published, intent, newval>>

(* HandleSet: the PX option is read only when spelled "px"; ms is the      *)
(* clock reading Store.Set took before its lock.                           *)
HandleSet(c, id, cmd) ==
    \E ms \in 1..now :
    /\ Set(cmd.key, StringValue(cmd.val), IF cmd.opt = "px" THEN cmd.px ELSE 0, ms)
    /\ intent' = [intent EXCEPT ![cmd.key] =
                    [val |-> cmd.val,
                     deadline |-> IF cmd.opt # "" THEN ms + cmd.px ELSE Nil]]
    /\ pc' = [pc EXCEPT ![c] = "publish"]
    /\ UNCHANGED <<txQueue, published, newval, execReplies, replyVars>>

(* Fault: newval starts at 0 for an absent key.                            *)
HandleIncrGetFromZero(c, id, cmd) ==
    LET g == GetResult(cmd.key)
        ToSet(n) == /\ newval' = [newval EXCEPT ![c] = n]
                    /\ pc' = [pc EXCEPT ![c] = "incr_set"]
                    /\ UNCHANGED <<execReplies, replyVars>>
    IN
    /\ Get(cmd.key)
    /\ CASE ~g.ok -> ToSet(0)
         [] g.val.type = "string" /\ g.val.str \in Int -> ToSet(g.val.str + 1)
         [] g.val.type = "string" ->
              /\ Finish(c, id, cmd, R("error", "ERR value is not an integer or out of range"))
              /\ UNCHANGED newval
         [] OTHER -> Fail(c) /\ UNCHANGED newval     \* a stream
    /\ UNCHANGED <<txQueue, published, intent>>

(* HandleIncr, first step: Store.Get, then strconv.Atoi of a string.       *)
HandleIncrGet(c, id, cmd) ==
    LET g == GetResult(cmd.key)
        ToSet(n) == /\ newval' = [newval EXCEPT ![c] = n]
                    /\ pc' = [pc EXCEPT ![c] = "incr_set"]
                    /\ UNCHANGED <<execReplies, replyVars>>
    IN
    /\ Get(cmd.key)
    /\ CASE ~g.ok -> ToSet(1)
         [] g.val.type = "string" /\ g.val.str \in Int -> ToSet(g.val.str + 1)
         [] g.val.type = "string" ->
              /\ Finish(c, id, cmd, R("error", "ERR value is not an integer or out of range"))
              /\ UNCHANGED newval
         [] OTHER -> Fail(c) /\ UNCHANGED newval     \* a stream
    /\ UNCHANGED <<txQueue, published, intent>>

(* HandleIncr, second step: Store.Set(key, Itoa(newval), no options).      *)
HandleIncrSet(c) ==
    LET k == cur[c].key IN
    /\ pc[c] = "incr_set"
    /\ \E ms \in 1..now : Set(k, StringValue(newval[c]), 0, ms)
    /\ intent' = [intent EXCEPT ![k] =
                    IF IntentLive(k) /\ intent[k].val \in Int
                    THEN [@ EXCEPT !.val = @ + 1]
                    ELSE [val |-> 1, deadline |-> Nil]]
    /\ pc' = [pc EXCEPT ![c] = "publish"]
    /\ UNCHANGED <<txQueue, published, newval, execQueue, execReplies, replyVars,
                   cur, ctxId>>

(* SET and INCR: the send of the original command on EventsChannel, then  *)
(* the reply.                                                              *)
Publish(c) ==
    /\ pc[c] = "publish"
    /\ published' = Append(published, cur[c])
    /\ Finish(c, ctxId[c], cur[c],
              IF cur[c].name = "set" THEN R("simple", "OK")
              ELSE R("integer", newval[c]))
    /\ newval' = [newval EXCEPT ![c] = 0]
    /\ UNCHANGED <<storeVars, txQueue, intent, execQueue, cur, ctxId>>

(* HostContext's transaction methods, each under h.mu except              *)
(* IsInTransaction, which reads the map without it.                        *)
IsInTransaction(id) == txQueue[id] # Nil
BeginTransaction(id) == txQueue' = [txQueue EXCEPT ![id] = <<>>]
(* Fault: the queue is returned but not deleted from TxQueue.              *)
ConsumeTransactionQueueKeeps(id) == txQueue' = txQueue
ConsumeTransactionQueue(id) == txQueue' = [txQueue EXCEPT ![id] = Nil]

HandleMulti(c, id, cmd) ==
    /\ BeginTransaction(id)
    /\ Finish(c, id, cmd, R("simple", "OK"))
    /\ UNCHANGED <<storeVars, published, intent, newval>>

HandleDiscard(c, id, cmd) ==
    /\ IF ~IsInTransaction(id)
       THEN /\ Finish(c, id, cmd, R("error", "ERR DISCARD without MULTI"))
            /\ UNCHANGED txQueue
       ELSE /\ ConsumeTransactionQueue(id)
            /\ Finish(c, id, cmd, R("simple", "OK"))
    /\ UNCHANGED <<storeVars, published, intent, newval>>

(* HandleXAdd: Store.SetStream; its error is a RESP error reply.  XADD is  *)
(* not published.                                                          *)
HandleXAdd(c, id, cmd) ==
    \E ms \in 1..now :
    LET res == SetStreamResult(cmd.key, cmd.id, ms) IN
    /\ SetStream(cmd.key, cmd.id, ms)
    /\ intent' = IF res.ok
                 THEN [intent EXCEPT ![cmd.key] =
                        [val |-> StreamMark,
                         deadline |-> IF IntentLive(cmd.key) THEN @.deadline ELSE Nil]]
                 ELSE intent
    /\ Finish(c, id, cmd, IF res.ok THEN R("bulk", res.val) ELSE R("error", res.val))
    /\ UNCHANGED <<txQueue, published, newval>>

(* HandleType: Store.Get, then the dynamic type of the value.              *)
HandleType(c, id, cmd) ==
    LET g == GetResult(cmd.key) IN
    /\ Get(cmd.key)
    /\ Finish(c, id, cmd, R("simple", IF g.ok THEN g.val.type ELSE "none"))
    /\ UNCHANGED <<txQueue, published, intent, newval>>

(* HandleKeys: Store.List("*").                                            *)
HandleKeys(c, id, cmd) ==
    /\ Finish(c, id, cmd, R("array", ListResult))
    /\ UNCHANGED <<storeVars, txQueue, published, intent, newval>>

(* HandleConfig: only GET, in any case.  The value's type is asserted     *)
(* before exists is looked at: a missing key's nil value fails the string  *)
(* assertion.  Both errors end the connection.                             *)
HandleConfig(c, id, cmd) ==
    /\ IF cmd.opt \in {"get", "GET"} /\ cmd.key \in DOMAIN ConfigStore
       THEN Finish(c, id, cmd, R("array", <<R("bulk", cmd.key),
                                             R("bulk", ConfigStore[cmd.key])>>))
       ELSE Fail(c)
    /\ UNCHANGED <<storeVars, txQueue, published, intent, newval>>

(* HandleEcho: exactly one argument, returned with its RESP type; a        *)
(* command without one (val Nil) is an error.                              *)
HandleEcho(c, id, cmd) ==
    /\ IF cmd.val # Nil THEN Finish(c, id, cmd, R("bulk", cmd.val)) ELSE Fail(c)
    /\ UNCHANGED <<storeVars, txQueue, published, intent, newval>>

(* HandleInfo: role from LeaderAddr, then the replication id and offset 0 *)
(* when LeaderReplId is set.                                               *)
HandleInfo(c, id, cmd) ==
    LET role == IF LeaderAddr = "" THEN "master" ELSE "slave"
        repl == IF LeaderReplId = "" THEN <<>>
                ELSE <<<<"master_replid", LeaderReplId>>, <<"master_repl_offset", 0>>>>
    IN  /\ Finish(c, id, cmd, R("bulk", <<<<"role", role>>>> \o repl))
        /\ UNCHANGED <<storeVars, txQueue, published, intent, newval>>

(* PING and WAIT: HandlePing and HandleWait are called from HandleCommand *)
(* but defined in no file of the repository; modelled from spec 4.2.       *)
HandlePing(c, id, cmd) ==
    /\ Finish(c, id, cmd, R("simple", "PONG"))
    /\ UNCHANGED <<storeVars, txQueue, published, intent, newval>>

HandleWait(c, id, cmd) ==
    /\ Finish(c, id, cmd, R("integer", 0))
    /\ UNCHANGED <<storeVars, txQueue, published, intent, newval>>

(* HandleExec: EXEC without MULTI is an error reply; otherwise the queue   *)
(* is consumed (deleted from TxQueue) and replayed one command at a time.  *)
HandleExec(c, id, cmd) ==
    /\ IF ~IsInTransaction(id)
       THEN /\ Finish(c, id, cmd, R("error", "ERR EXEC without MULTI"))
            /\ UNCHANGED <<txQueue, execQueue>>
       ELSE /\ execQueue' = [execQueue EXCEPT ![c] = txQueue[id]]
            /\ execReplies' = [execReplies EXCEPT ![c] = <<>>]
            /\ ConsumeTransactionQueue(id)
            /\ pc' = [pc EXCEPT ![c] = "exec"]
            /\ UNCHANGED replyVars
    /\ UNCHANGED <<storeVars, published, intent, newval>>

(* HandleCommand(ctx, cmd) on connection c with ConnId id.  rest is what   *)
(* remains of the EXEC queue c is replaying after this command.            *)
HandleCommand(c, id, cmd, rest) ==
    /\ cur' = [cur EXCEPT ![c] = cmd]
    /\ ctxId' = [ctxId EXCEPT ![c] = id]
    /\ IF IsInTransaction(id) /\ cmd.name \notin {"exec", "discard"}
       THEN QueueCommand(c, id, cmd) /\ execQueue' = [execQueue EXCEPT ![c] = rest]
       ELSE IF cmd.name = "exec" THEN HandleExec(c, id, cmd)
       ELSE /\ execQueue' = [execQueue EXCEPT ![c] = rest]
            /\ CASE cmd.name = "get"     -> HandleGet(c, id, cmd)
                 [] cmd.name = "set"     -> HandleSet(c, id, cmd)
                 [] cmd.name = "incr"    -> HandleIncrGet(c, id, cmd)
                 [] cmd.name = "multi"   -> HandleMulti(c, id, cmd)
                 [] cmd.name = "discard" -> HandleDiscard(c, id, cmd)
                 [] cmd.name = "xadd"    -> HandleXAdd(c, id, cmd)
                 [] cmd.name = "type"    -> HandleType(c, id, cmd)
                 [] cmd.name = "keys"    -> HandleKeys(c, id, cmd)
                 [] cmd.name = "config"  -> HandleConfig(c, id, cmd)
                 [] cmd.name = "echo"    -> HandleEcho(c, id, cmd)
                 [] cmd.name = "info"    -> HandleInfo(c, id, cmd)
                 [] cmd.name = "ping"    -> HandlePing(c, id, cmd)
                 [] cmd.name = "wait"    -> HandleWait(c, id, cmd)

(* Bounds on what a client sends, each named by its constant.             *)
Sendable(c, cmd) ==
    /\ cmd.name \in {"set", "incr"} => Len(published) < MaxPublished
    /\ cmd.name = "incr" =>
          ~(values[cmd.key] # Nil /\ values[cmd.key].type = "string"
            /\ values[cmd.key].str \in Int /\ values[cmd.key].str >= MaxInt)
    /\ cmd.name = "xadd" => (IsStream(cmd.key) => Len(values[cmd.key].ids) < MaxStreamLen)
    /\ txQueue[c] # Nil /\ cmd.name \notin {"exec", "discard"} =>
          Len(txQueue[c]) < MaxQueue
    /\ cmd.name = "exec" /\ txQueue[NilConn] # Nil =>
          Len(txQueue[NilConn]) + (IF txQueue[c] = Nil THEN 0 ELSE Len(txQueue[c]))
            < MaxQueue

(* handleConnection: the next command arrives on an idle connection.      *)
Receive(c) ==
    /\ pc[c] = "idle"
    /\ \E cmd \in Commands :
          /\ Sendable(c, cmd)
          /\ HandleCommand(c, c, cmd, execQueue[c])

(* HandleExec's loop: replay the next queued command with ConnId NilConn. *)
ExecNext(c) ==
    /\ pc[c] = "exec"
    /\ execQueue[c] # <<>>
    /\ HandleCommand(c, NilConn, Head(execQueue[c]), Tail(execQueue[c]))

(* HandleExec returns the collected replies as one array.                  *)
ExecDone(c) ==
    /\ pc[c] = "exec"
    /\ execQueue[c] = <<>>
    /\ reply' = [reply EXCEPT ![c] =
                    [cmd |-> Cmd("exec", Nil, Nil, "", 0, Nil),
                     res |-> R("array", execReplies[c]), expect |-> queued[c]]]
    /\ queued' = [queued EXCEPT ![c] = 0]
    /\ pc' = [pc EXCEPT ![c] = "idle"]
    /\ execReplies' = [execReplies EXCEPT ![c] = <<>>]
    /\ UNCHANGED <<storeVars, cur, ctxId, newval, execQueue, txQueue, published,
                   intent>>

(* The client closes the connection: ParseServerCommand returns io.EOF.    *)
Disconnect(c) ==
    /\ pc[c] = "idle"
    /\ pc' = [pc EXCEPT ![c] = "closed"]
    /\ UNCHANGED <<storeVars, cur, ctxId, newval, execQueue, execReplies,
                   replyVars, txQueue, published, intent>>

ClockTick ==
    /\ Tick
    /\ UNCHANGED <<connVars, txQueue, published, intent>>

-----------------------------------------------------------------------------
Init ==
    /\ KvInit
    /\ pc = [c \in Conns |-> "idle"]
    /\ cur = [c \in Conns |-> NoCmd]
    /\ ctxId = [c \in Conns |-> c]
    /\ newval = [c \in Conns |-> 0]
    /\ execQueue = [c \in Conns |-> <<>>]
    /\ execReplies = [c \in Conns |-> <<>>]
    /\ reply = [c \in Conns |-> [cmd |-> NoCmd, res |-> R("none", Nil), expect |-> Nil]]
    /\ txQueue = [c \in Conns \cup {NilConn} |-> Nil]
    /\ published = <<>>
    /\ queued = [c \in Conns |-> 0]
    /\ intent = [k \in Keys |->
                   [val |-> IF values[k] = Nil THEN Nil ELSE values[k].str,
                    deadline |-> expiries[k]]]

Next ==
    \/ \E c \in Conns :
          \/ Receive(c)
          \/ HandleIncrSet(c)
          \/ Publish(c)
          \/ ExecNext(c)
          \/ ExecDone(c)
          \/ Disconnect(c)
    \/ ClockTick

Spec == Init /\ [][Next]_vars

-----------------------------------------------------------------------------
(* Strings stored are client payloads or the decimal strings INCR writes, *)
(* which start at 1.                                                       *)
TypeOK ==
    /\ StoreTypeOK(Strings \cup (Nat \ {0}))
    /\ pc \in [Conns -> {"idle", "incr_set", "publish", "exec", "closed"}]
    /\ cur \in [Conns -> Commands \cup {NoCmd}]
    /\ ctxId \in [Conns -> Conns \cup {NilConn}]
    /\ newval \in [Conns -> Int]
    /\ execQueue \in [Conns -> Seq(Commands)]
    /\ txQueue \in [Conns \cup {NilConn} -> Seq(Commands) \cup {Nil}]
    /\ published \in Seq(Commands)
    /\ \A k \in Keys : intent[k].val \in Strings \cup Int \cup {StreamMark, Nil}
    /\ queued \in [Conns -> Nat]

(* GET never returns a value whose expiry has passed (spec 3: "reads       *)
(* observe a key as absent when its expiry is set and has elapsed"; spec   *)
(* 8.3: after SET k v PX 0 a later GET returns null).  Store.Get deletes   *)
(* only the expiry of an expired key; HandleSet reads the option only when *)
(* it is spelled "px" and stores none for PX 0.                            *)
GetNeverReturnsExpired ==
    \A c \in Conns :
        (reply[c].cmd.name = "get" /\ reply[c].res.kind = "bulk" /\ reply[c].res.v # Nil)
            => reply[c].expect # Nil

(* GET returns the value of the last write to a live key (spec 8.3).      *)
(* Store.Set writes an expiry only when one is given and never clears an   *)
(* older one.                                                              *)
GetReturnsLiveValue ==
    \A c \in Conns :
        (/\ reply[c].cmd.name = "get" /\ reply[c].res.kind = "bulk"
         /\ reply[c].expect \notin {Nil, StreamMark})
            => reply[c].res.v = reply[c].expect

(* EXEC answers with one reply for each command the client was answered   *)
(* QUEUED for since its last EXEC or DISCARD (spec 4.2 and the reply-shape *)
(* rule of spec 8: "EXEC returns a RESP array of the queued commands'     *)
(* replies").  The queue lives in HostContext.TxQueue under the ConnId;    *)
(* ConsumeTransactionQueue must take it out whole, and HandleExec replays  *)
(* it through HandleCommand under the zero ConnId, where a replayed MULTI  *)
(* opens a second transaction.                                             *)
ExecAnswersEachQueued ==
    \A c \in Conns :
        reply[c].cmd.name = "exec" /\ reply[c].res.kind = "array" =>
            Len(reply[c].res.v) = reply[c].expect

(* The store holds what the abstract store holds for every live integer    *)
(* key: INCR is a read-modify-write of the key.  HandleIncr reads with     *)
(* Store.Get and writes with Store.Set under two separate lock sections.   *)
IncrIsAtomic ==
    \A k \in Keys : IntentLive(k) /\ intent[k].val \in Int =>
        values[k] = StringValue(intent[k].val)

(* EXEC replies with the replies of the queued commands (spec 4.2, 8.6):   *)
(* none of them is QUEUED.  HandleExec replays the queue under the shared  *)
(* zero ConnId, where a replayed MULTI opens a transaction.                *)
ExecRunsQueuedCommands ==
    \A c \in Conns :
        reply[c].cmd.name = "exec" /\ reply[c].res.kind = "array" =>
            \A i \in 1..Len(reply[c].res.v) : ~(reply[c].res.v[i].kind = "simple" /\ reply[c].res.v[i].v = "QUEUED")

(* A closed connection has no transaction queue (spec 9: the worker must   *)
(* delete it on disconnect even if no EXEC/DISCARD arrives).               *)
TxQueueDroppedOnClose ==
    \A c \in Conns : pc[c] = "closed" => txQueue[c] = Nil
(* A client error keeps the connection open (spec 7), so EXEC never ends  *)
(* with the connection closed after some queued commands have run: their  *)
(* writes applied, their replies lost.  HandleExec returns the first       *)
(* handler error and handleConnection closes the connection on it.         *)
ExecRepliesNotLost ==
    \A c \in Conns : pc[c] = "closed" => execReplies[c] = <<>>
(* KEYS lists only live keys: a key whose expiry has passed is absent     *)
(* (spec 3).  Store.List returns every key of k.values and never looks at *)
(* the expiries.                                                           *)
KeysListsOnlyLiveKeys ==
    [][\A c \in Conns :
          reply'[c] # reply[c] /\ reply'[c].cmd.name = "keys"
              => \A k \in reply'[c].res.v : IntentLive(k)]_vars
(* What a replica that applies the published events in order holds for k, *)
(* starting from v: SET replaces the value, INCR adds one to an integer    *)
(* and makes an absent key 1 (the follower runs the same handlers).        *)
ReplayValue(k, v) ==
    SeqsExt!FoldLeft(LAMBDA x, e :
                        IF e.key # k THEN x
                        ELSE IF e.name = "set" THEN e.val
                        ELSE IF x \in Int THEN x + 1 ELSE 1,
                     v, published)

(* When no SET or INCR is between its store write and its publish, the    *)
(* published events, applied in order, give every string key once written *)
(* by SET the value the leader's store holds (spec 5: subscribers observe  *)
(* events in the order they were enqueued, so the replica converges).     *)
(* HandleSet and HandleIncr write the store and send on EventsChannel in   *)
(* two steps, with no lock across them.                                    *)
PublishOrderMatchesStore ==
    (\A c \in Conns : pc[c] \notin {"incr_set", "publish"}) =>
        \A k \in Keys :
            (/\ \E i \in DOMAIN published : published[i].key = k /\ published[i].name = "set"
             /\ values[k] # Nil /\ values[k].type = "string")
                => ReplayValue(k, Nil) = values[k].str
====

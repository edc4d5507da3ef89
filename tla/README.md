# TLA+ models of the Redis-compatible server (`src/redis-go/app`)

This directory holds TLA+ specifications of the Go Redis server in
`src/redis-go/app` and the TLC configurations that check them.
`PROJECT.json` lists the following:
- the components;
- the runs, with the properties each checks;
- the mutants, which are faulty variants of mapped definitions that every
  passing property must detect;
- the map from each definition to the source lines it translates;
- the findings;
- the hazards of the code.

The HTTP server in `src/http-server-go` is a separate program that `spec.md`
leaves out of its scope. It shares nothing with the Redis server and is
modelled on its own in `HttpRouter.tla` and `HttpServer.tla`.

## 1. The system (inventory)

| Part | Source | Shared state | Operations | Concurrency |
|---|---|---|---|---|
| Key/value store | `store/kv_store.go` | `values`, `expiries` (Go maps) under one `sync.RWMutex` | `Get`, `Set`, `List`, `SetStream`, `GetStream`, `XReadStream`, `InitialiseFromRdbFile` | every method holds the mutex for its whole body; `Get` *writes* `expiries` under the read lock |
| Dispatcher and transactions | `cmd/main.go`, `cmd/exec.go`, `cmd/multi.go`, `cmd/discard.go` | `HostContext.TxQueue: map[ConnId][]QueuedCommand` under `h.mu` (`IsInTransaction` reads it without the lock) | `HandleCommand`, `BeginTransaction`, `QueueCommand`, `ConsumeTransactionQueue`, `HandleExec` | one goroutine per connection; `EXEC` replays its queue with `ConnId = uuid.Nil`, shared by every connection |
| Data command handlers | `cmd/get.go`, `set.go`, `incr.go`, `keys.go`, `type.go`, `xadd.go`, `xrange.go`, `xread.go` | the store; `EventsChannel` | one or two store calls, then (SET, INCR) a send of the original command on the unbuffered `EventsChannel` | INCR's `Get` and `Set` are separate lock sections |
| Connection loop | `server.go` `handleConnection` | a fresh `connId` per connection | parse, `HandleCommand`, write the reply; return on EOF or any error | — |
| Pub/sub fan-out | `replication/pubsub_manager.go`, `cmd/psync.go` | `subscribers` map under an `RWMutex`; unbuffered channels | subscription loop (Lock), fan-out loop (RLock, send to every subscriber), PSYNC forwarder (receive, write, on error Unsubscribe then `close`) | three kinds of goroutine and blocking channel sends |
| Follower replication | `replication/repl_client.go`, `server.go` `startReplicationListener`, `cmd/replconf.go` | `ProcessedBytes` under `h.mu` (read without it by GETACK) | handshake, PSYNC with RDB transfer, then apply each propagated command and add its byte count | one listener goroutine |
| RESP codec | `resp/lexer.go`, `parser.go`, `resp_types.go`, `resp_helpers.go` | the lexer's `ByteCounter` | `NextToken`, `ConsumeCrlf`, `ConsumeBytes`, `Parse`, `AsRespString` | per connection |
| Command line and start-up | `server.go` `main`, `parseArgs` | `ServerConfig`, `ConfigStore` | parse `os.Args`, store `dir` and `dbfilename`, load the snapshot at `filepath.Join(dir, dbfilename)`, then start as leader or follower | sequential, before anything is served |
| RDB reader | `rdb/rdb.go` | — | `ReadRdbFromFile`, `DeserializeRdb`, `SerializeB64RdbToString` | sequential, at start-up |
| CONFIG/INFO/ECHO/PING/WAIT | `cmd/config.go`, `info.go`, `echo.go`; `HandlePing` and `HandleWait` are called but defined in no file | `ConfigStore` (read), `LeaderAddr`, `LeaderReplId` | one reply each, or an error that closes the connection | — |
| HTTP server (separate program) | `http-server-go/app/server.go`, `lib/http/router.go`, `pipeline.go`, `serialization.go` | the files directory; the process | accept, then per connection: read the request, route it, run the handler, serialise the response, close | one goroutine per connection; `os.Exit` or a panic in any of them ends all |

How the parts interact:
1. A client's bytes go through the lexer and parser to `HandleCommand`.
2. `HandleCommand` either queues the command (inside `MULTI`) or runs the handler.
3. SET and INCR write the store and then publish the original command.
4. The fan-out copies each event to every PSYNC forwarder.
5. The forwarder writes the event to its replica.
6. The replica's listener parses the command and runs it through the same `HandleCommand`.

### Hard behaviours in this code

- **Lost update in INCR.** The read and the write of INCR are two lock
  sections, so INCRs on different connections interleave between them.
- **Expiry handling in `Get` and `Set`.**
  - `Get` of an expired key deletes only the expiry. The value stays, and the
    next `Get` returns it.
  - `Set` never removes an older expiry.
  - `PX 0` means "no expiry".
  - `PX` is honoured only in lower case.
  - A negative `PX` wraps around in `uint64`.
- **Transactions under `uuid.Nil`.** `EXEC` replays its queue under
  `uuid.Nil`. A queued `MULTI` therefore opens a transaction that belongs to
  no connection and that no `EXEC` can ever close.
- **Partial failure in XADD.** `SetStream` stores an empty stream for a
  missing key before it validates the id.
- **Range lookups in XRANGE and XREAD.**
  - The no-match fallbacks of `findl`, `findr` and `xreadfindl` return the
    wrong slice.
  - `cast[l:r]` panics.
- **Publishing.**
  - Publishing is a separate step from the store write.
  - The fan-out sends while holding the read lock.
  - A forwarder that stops reading sends `Unsubscribe`, which needs the write
    lock. The fan-out and the subscription loop can therefore deadlock.
- **Lost queue on close.** A closed connection never deletes its `TxQueue` entry.
  `Commands` states it as `TxQueueDroppedOnClose`; `MCCommands_TxLeak.cfg`
  reproduces it.
- **Codec and RDB edge cases.**
  - An empty bulk string is serialised as the null bulk string `$-1`. On a
    follower, that makes `ConsumeBytes(-1)` panic.
  - RDB expiries in seconds are not multiplied by 1000.
  - The RDB header is skipped unread, and the 8-byte checksum is read with
    one `Read` whose count is ignored.
  - `io.EOF` at a section separator ends the RDB loop as success, so a file
    cut off after a whole section loads as complete.

## 2. Modules

### `KvStore.tla`: the store

Each method of `KvStore` holds the mutex for its whole body, so it is one atomic step.

- **State.** `values` and `expiries` are the two maps. `now` is the wall clock.
- **Stored values.**
  - A string is `[type |-> "string", str |-> s]`.
  - A stream is `[type |-> "stream", ids |-> <<<<T, S>>, ...>>]`.
  - The field/value map of an entry is left out, because no operation reads it.
  - An entry id is kept as the pair `<<T, S>>`. On the ids the code produces,
    the `Sprintf("%d-%d")` / `Atoi` round trip returns the same pair.
- **Method results.** A method's `(result, error)` is `Ok(v)` or `Err(e)`.
  - `GetResult`, `SetStreamResult`, `GetStreamResult` and `XReadStreamResult`
    are the values the methods return.
  - `Get`, `Set` and `SetStream` are their state changes.
  - `ListResult` is what `List` returns.
  - `FindL`, `FindR` and `XReadFindL` are the 0-based index searches,
    including their fallbacks.
- **The clock.** `currentMillis` is read before the lock is taken, so `Set`
  and `SetStream` take `ms` as any reading `1..now`.
- **Expiry arithmetic.** It is `uint64`, scaled to `ExpiryWidth` bits:
  `(ms + px) % 2^ExpiryWidth`.
- **Initial state.** `KvInit` is `NewKvStore` followed by
  `InitialiseFromRdbFile`: any snapshot of string keys, with expiries drawn
  from `RdbExpiryTimes`. `Rdb` checks the reader that produces it.
- **`KvNext`.** Any client may call `Get`, `Set` or `SetStream` with any
  argument, and the clock may tick.

### `StreamCommands.tla`: XADD, XRANGE and XREAD

`StreamCommands.tla` EXTENDS `KvStore` with the stream handlers
(`cmd/xadd.go`, `xrange.go`, `xread.go`). Each handler makes one store
call, which holds the mutex for its whole body, so each handler is one
step. Other clients' SET (`StoreSet`) and GET (`StoreGet`) and the clock
interleave with them. Variables:
- `reply`: the last reply's command and whether it was an error.
- `acked`: a history variable, the ids XADD replied with for each key
  since its last SET.
- `up`: FALSE once `GetStream`'s slice panic has ended the process.

Actions:
- **`HandleXAdd`.** `SetStream`; an error is a RESP error reply.
- **`HandleXRange`.** `GetStream` for a pair of bounds from `XRangeBounds`.
- **`HandleXRead`.** `XReadResult` translates `HandleXRead`'s argument
  split. `count` is `(len(Elements) - 2) / 2`, in Go's truncating
  division (`GoDiv`). Key `i` is read from range `i` through `SplitSeqKey`,
  and the first store error is returned. An XREAD argument is a record:
  a word, a key name, or an id `T-S`.

, handlers, transactions and connections

`Commands.tla` EXTENDS `KvStore`. Each connection is a `handleConnection`
goroutine with a program counter `pc`:
- `idle`
- `incr_set`: between INCR's two store calls
- `publish`: before the `EventsChannel` send
- `exec`: inside `HandleExec`'s loop
- `closed`

Actions:
- **`Receive(c)`.** A command arrives and `HandleCommand` runs. If the
  connection is in a transaction and the command is neither `exec` nor
  `discard`, the command is queued (`QueueCommand`). Otherwise the handler's
  first step runs:
  - `HandleGet`
  - `HandleSet`
  - `HandleIncrGet`
  - `HandleMulti`
  - `HandleDiscard`
  - `HandleXAdd`
  - `HandleType`
  - `HandleKeys`
  - `HandleConfig`, `HandleEcho`, `HandleInfo`
  - `HandlePing`, `HandleWait` (from spec 4.2: their Go definitions are
    missing from the repository)
  - `HandleExec`
- **`HandleIncrSet(c)`.** INCR's `Store.Set`.
- **`Publish(c)`.** The send of a SET or INCR on `EventsChannel`, followed by
  the reply. `published` is the order of those sends.
- **`ExecNext(c)` and `ExecDone(c)`.** `HandleExec`'s loop: each queued
  command is replayed through `HandleCommand` with ConnId `NilConn`
  (`uuid.Nil`), and the collected replies are returned as one array.
- **`Disconnect(c)`.** EOF on the connection.
- **Handler errors.** A handler that returns an error (`Fail`) closes the
  connection. This covers GET or INCR of a stream, CONFIG with an
  operation other than GET or a key that is not set (the string assertion
  on the nil value comes before the `exists` test), ECHO without its
  argument, and any of these inside EXEC, where the commands before it
  have already run.

The configuration store and the host's `LeaderAddr` and `LeaderReplId` are
constants: `server.go` sets them before the listener starts and nothing
writes them afterwards.

`intent` is a history variable holding the abstract store that `spec.md`
describes. It is updated in the same step as the store write it abstracts:
- SET sets the value and a deadline `ms + px`. Without PX there is no deadline.
- INCR adds one to a live integer.
- A successful XADD marks the key as a stream.

`queued` is a second history variable: for each connection, the number of
`QUEUED` replies written to it since its last EXEC or DISCARD reply. The
EXEC reply records it, and `ExecAnswersEachQueued` compares it with the
length of the array.

The other properties compare replies and the store against `intent`.

### `PubSub.tla` and `Broadcast.tla`: the replication bus

`PubSub` models `replication/pubsub_manager.go` and the forwarder half of
`cmd/psync.go`. Every channel is unbuffered, so each send and its receive
are one step that needs both goroutines ready.

| Goroutine | State | Actions |
|---|---|---|
| SET/INCR handler at its `EventsChannel <-` | `pubPc[p]` | `PublisherSend` |
| fan-out loop (`Start`, lines 60-68) | `fPc`, `fEvent`, `todo`, `rlocked` | `PublisherSend` (its receive), `FanoutRLock` (takes `RLock` and picks a map order), `FanoutSend` (one `channel <- event`), `FanoutRUnlock` |
| subscription loop (`Start`, lines 41-57) | `sPc`, `sEvent`, `subscribers` | `SubRecv` (its receive), `SubLockCall` (the call of `Lock`, from which a writer is pending), `SubApply` (`Lock` returning, add or delete, `Unlock` as one step) |
| PSYNC forwarder, one per replica | `rPc[r]`, `closed[r]` | `PSync` (the FULLRESYNC and RDB writes and the Subscribe send begin), `ForwarderWrite` (`conn.Write`), `ForwarderClose` (the deferred `close`) |
| the replica's TCP peer | `alive[r]` | `ReplicaDrop` |

Go's `RWMutex` admits no new reader while a writer waits in `Lock`, so
`FanoutRLock` is disabled while `sPc = "waitlock"`. Between the loop's
receive and its call of `Lock` (`sPc = "lock"`) the fan-out may still take
`RLock`. A send on a closed channel
panics the process: `crashed` becomes true and `Next` is disabled.

`fanned`, `got` and `start` are history variables. They record the order in
which the fan-out took events, what each forwarder received, and where in
`fanned` each subscription took effect.

`Broadcast` is the abstract promise of spec 4.5, with no goroutine or lock:
- one total `log` of events;
- subscribe and unsubscribe;
- `Deliver(s)` hands subscriber `s` the next event of `log` after its
  subscription point.

`PubSub` refines it under the mapping `log <- fanned`,
`subscribed <- subscribers`, `from <- start`, `got <- got`.

### `Resp.tla`: the RESP codec

`Resp` translates `resp/resp_types.go`, `resp/lexer.go` and `resp/parser.go`
into operators; it has no variables. A byte is a one-character string, and
`CR` and `LF` are bytes of their own.
- `AsRespString` (RECURSIVE) serialises every `RespType`. An empty bulk
  string is written as the null bulk string `$-1`, as the code does.
- `Itoa` and `Atoi` are `strconv` over digit sequences.
- The lexer state is `[pos, count]`: `pos` is the bytes drawn from the
  reader, `count` is the lexer's `ByteCounter`. The code updates them
  separately, and the model keeps both so that a read the counter misses
  shows.
- `NextToken`, `ConsumeBytes`, `ConsumeCrlf`, `ParseBulkString`, `ParseArray`
  and `Parse` return a set of outcomes `[kind, val, lx, starved]` with
  `kind` one of `ok`, `eof`, `err`, `panic`. An outcome is a set because a
  bufio `Read` may return fewer bytes than asked (`ShortReads`). `starved`
  marks an outcome that ran into the end of the bytes received so far; on an
  open connection the code blocks there instead.

### `Replication.tla`: the follower

`Replication` composes `Resp` with one follower:
- `Handshake` and `RdbRead`: `repl_client.go`. `DeserializeRdb` wraps the
  client's reader in `bufio.NewReader`, which returns the same
  `*bufio.Reader`, so no byte of the command stream is lost to it; its
  possibly short `Read(data)` (`rdb.go:343`) is not modelled.
- `ListenerStep`: one turn of `startReplicationListener` in `server.go`. It
  parses the next command from the bytes received, ends on EOF, crashes on a
  panic, skips a parse error or a value that is not a command, and otherwise
  calls `Dispatch`. `Dispatch` is the follower side of `HandleCommand` for
  SET, INCR and REPLCONF (GETACK answers `ProcessedBytes`, then the lexer
  delta is added).
- The leader is what its forwarder writes: `LeaderSend(c)` appends the RESP
  form of a SET or INCR that succeeded on the leader, or REPLCONF GETACK;
  `LeaderClose` closes the connection. `LeaderStore` folds the commands
  into the leader's store.

### `ServerArgs.tla` and `Rdb.tla`: start-up from the command line and an RDB snapshot

`ServerArgs` holds `parseArgs` and `filepath.Join` as operators:
- An argument is a sequence of pieces. A flag is `<<"--port">>`. A path is
  its names and `"/"` separators. A `--replicaof` value is
  `<<"localhost", " ", "6379">>`. `Numerals` lists the pieces
  `strconv.Atoi` accepts.
- `ParseFrom` is one iteration of the loop at `os.Args[i]`. A valued flag
  needs `i+1 < len(os.Args)` and skips its value. `ReplicaOf` is the
  `strings.Split`, two-part and `Atoi` checks. Anything else is `ArgsExit`,
  which stands for `os.Exit(1)`.
- `Join` joins the non-empty elements with `"/"` and then cleans the
  result: runs of `"/"` collapse and a trailing `"/"` goes.
- `Documented` is a reference definition of the command line of spec
  section 8. It is written from the spec text, not from the code.

`Rdb` starts at `pc = "args"`. `StartServer` is `main` up to
`InitialiseFromRdbFile`: `parseArgs`, which may exit, then
`ConfigStore.Set` of `dir` and `dbfilename`. The file system holds one file,
the snapshot, at `SnapshotPath`; `file` is that file when
`Join(dir, dbfilename)` is `SnapshotPath`, and no file otherwise.

`Rdb` then models `rdb.ReadRdbFromFile` and `KvStore.InitialiseFromRdbFile`,
which `main` calls on the empty store before it serves anything. A byte is a natural
`0..255` and a file is a byte sequence. The files are far smaller than
bufio's 4096-byte buffer, so a `Read` returns what it asks for or what is
left, and `io.EOF` when nothing is left.

| Code | Model |
|---|---|
| `os.Open` and `reader.Discard(9)` | `Open` (a missing file gives `readErr = "notexist"`) |
| one iteration of `outerLoop` | `SectionEof`, `ReadMetadata`, `ReadDatabase`, `ReadEofMarker`, `UnexpectedSeparator` |
| the metadata case | `MetadataSection` |
| the database case and its key loop | `DatabaseSection`, `Entries`, `ReadEntry` |
| `readStringValue`, `readUint64Value`, `readUint32Value` | `readStringValue`, `readUintValue` (with `LittleEndian`) |
| `InitialiseFromRdbFile` | `InitialiseFromRdbFile`: empty store, `Fatal` exit, or the one database copied in |
| `main`: `parseArgs`, `ConfigStore.Set` | `StartServer` |

Each operator returns `[ok, val, pos]`: the value read and the reader
position after it. A failure anywhere in a section ends the loop with an
error. `rdbCase` holds the file and what was written into it, and stays the
same for the whole behaviour.

`MCRdb` writes its files with `WriteRdb`. `WriteRdb` follows the grammar of
spec section 6, not the server's code. The files are:
- every combination of three metadata lists, no database or one database,
  and zero to two keys (values `"v"` and `""`, expiries none, 7 ms and
  300 ms; 300 needs two little-endian bytes);
- the same files cut off before the EOF marker;
- one file for each failure spec 4.8 lists (unknown metadata key,
  redis-bits not 64, unexpected separator, a non-string type, a missing
  hash-table marker, a short ctime, expiry or value, no checksum), and one
  with two databases;
- a missing file.

Each file is combined with each of thirteen command lines:
- none;
- the snapshot's directory spelt with a trailing `/`, without one, and
  with a doubled `/`;
- another directory, and a later `--dir` that overrides it;
- another `--dbfilename`, and the snapshot's name with `--port 6380`;
- `--port x` and a `--dir` with no value;
- `--replicaof "localhost 6379"` with one space and with two;
- an unknown flag;
- `--dir --debug`, which takes the flag as the directory.

### `MapAccess.tla`: the lock discipline around shared Go maps

`MapAccess` models the lock calls and map accesses of the methods that
connection goroutines share:
- `KvStore.Get`, `List` and `Set`, on `values` and `expiries` under the
  `RWMutex` `KvStore.mu`;
- `HostContext`'s transaction methods, on `TxQueue` under the `Mutex`
  `h.mu`.

Each method is its program, in code order. `Get` has two programs: with an
expired key it deletes the expiry under the read lock. `IsInTransaction`
takes no lock. An access takes two steps, its start and its end, so the
accesses of two goroutines can overlap. What the maps hold is left out.
`MapAccessesExclusive` is Go's rule: a map write never overlaps another
access of the same map. The runtime aborts the process when it sees one.

### `HttpRouter.tla` and `HttpServer.tla`: the HTTP server

`HttpRouter` holds the route matcher of `lib/http/router.go` as operators.
A path or pattern is a sequence of one-character strings. Literal names are
abstracted to one letter each ("echo" is `e`, "files" is `f`), while `/`,
`{` and `}` keep their roles. `getPathSegments` and `match` follow the code
loop for loop. Each iteration does a `Peek(1)`, discards one leading `/`,
calls `ReadString('/')` (`ReadString`) and trims the slash (`TrimSlash`).
`Dispatch` is `Handle`'s loop over the handler table: the first handler
whose method and segments fit wins, else `NotFoundHandlerFunc`.

`HttpServer` runs one `Handle` goroutine per accepted connection (`Conns`).
Each connection carries a request from `Requests`, fixed when it is
accepted. The goroutines share the files directory (`files`) and the
process (`up`).

| Code | Model |
|---|---|
| `readRequestLine`, `readHeaderLines`, `readBody` | `ReadOk`, `Body`; a failure is `ReadFails` (`Fatal`, `os.Exit`, or the index panic of `Peek(2)`) |
| the handler table in `main` | `Handlers`, `Route` |
| root, echo and user-agent handlers, `NotFoundHandlerFunc` | `ServeRoot`, `ServeEcho`, `ServeUserAgent`, `ServeNotFound` |
| file read handler: `os.Open`, `Stat`, then `SendFileStream` | `OpenFile`, `StreamFile` |
| file write handler: `os.Create`, then `file.Write` and 201 | `CreateFile`, `WriteFile` (with `WriteAt0`) |
| `Send`, `SendPlain`, `serializeResponse` | `Send`, `SendPlain`, `Reply`, `serializeResponse`, `GzipChosen` |

Reading, routing and the handlers that touch no file are one step, because
nothing in them is shared. The file handlers are split at their system
calls. Open and Stat are one step: files are never removed, so nothing a
writer does between them changes the outcome. A request body reaches the
server in TCP segments, and `firstRead` is the number of body bytes the
first `Read` returns. `readBody` accepts the body only when that first read
returns all of it.

### Compositions not built

- **Leader with follower.** `Commands`, `PubSub` and `Replication` are not
  composed. The publish-order race is checked on the leader side:
  `PublishOrderMatchesStore` replays `published` the way a follower
  applies it. The writes before Subscribe and the unpublished XADD are
  listed as hazards.
- **Start-up with the store.** `Rdb`'s loaded store is not fed into
  `KvStore`'s initial state. `KvInit` allows any snapshot of string keys
  with expiries (`RdbLoaded`), and that includes what `Rdb` loads.

## 3. Runs

| Run | Config | Expect | What it shows |
|---|---|---|---|
| `stream_commands` | `MCStreamCommands.cfg` | pass | Any interleaving of XADD, XRANGE, XREAD, SET and GET keeps every stream strictly increasing and free of `0-0` (`StreamIdsIncreasing`). `ReadFromStartReturnsAcked`: XRANGE `k - +` and XREAD `streams k 0-0` return exactly the ids XADD acknowledged, in order. The type invariant holds with `uint64` wrap-around of negative PX. |
| `stream_reads` | `MCKvStore_StreamReads.cfg` | violation | `StreamReadsExact` (XRANGE returns exactly the entries in `[start, end]`, XREAD exactly those after start) fails. `GetStream` panics on `cast[l:r]` for the empty stream a rejected XADD leaves, and the `findl`/`findr`/`xreadfindl` fallbacks return entries outside the interval. |
| `commands_single` | `MCCommands.cfg` | pass | On one connection, over every command including nested MULTI/EXEC and the poisoned `uuid.Nil` queue, each EXEC array has one reply per command the client was answered `QUEUED` for since its last EXEC or DISCARD (`ExecAnswersEachQueued`). The nested MULTI corrupts the replies' contents (`nested_multi`), never their number. |
| `get_resurrect` | `MCCommands_Resurrect.cfg` | violation | An expired key comes back on the second GET (`GetNeverReturnsExpired`). |
| `incr_race` | `MCCommands_IncrRace.cfg` | violation | Two INCRs of an absent key both find it absent before either writes, both write 1: the key holds 1 where two INCRs must leave 2 (`IncrIsAtomic`). |
| `nested_multi` | `MCCommands_NestedMulti.cfg` | violation | A queued MULTI poisons the shared `uuid.Nil` context, and EXEC replies `QUEUED`. |
| `pubsub_fanout` | `MCPubSub.cfg` | pass | The fan-out sends only on channels that are in the map (`FanoutTargetsSubscribed`), and the bus refines `Broadcast` (`BusSpec`). Every replica receives a gap-free, in-order stretch of one total order of events. While no replica's connection fails, every publish completes (`PublishCompletesWhileReplicasLive`): the stall below needs a failed write. |
| `pubsub_send_closed` | `MCPubSub_SendClosed.cfg` | violation | The fan-out takes `RLock` for a SET while a failed replica is still in the map and its forwarder is about to send Unsubscribe. The loop receives the Unsubscribe, the forwarder closes its channel at once, and the fan-out's send on it panics the leader before the loop can take `Lock` (`NoSendOnClosedChannel`). |
| `pubsub_stall` | `MCPubSub_Stall.cfg` | violation | The fan-out is blocked under `RLock` on a forwarder, and that forwarder is blocked sending Unsubscribe. The subscription loop holds another replica's Subscribe and waits for `Lock`, so every later SET/INCR blocks on `EventsChannel` (`PublishCompletes`). |

| `replication` | `MCReplication.cfg` | pass | A follower fed any sequence of SET, INCR and GETACK, with payloads of one and of ten bytes, keeps its store equal to the leader's after the same prefix, its `ProcessedBytes` equal to the RESP length of that prefix, and answers each GETACK with the byte offset before it (`ReplicaTracksLeader`). Under `FairSpec`, every command written is eventually applied even if the leader then stays idle (`CommandsApplied`). |

| `http_server` | `MCHttpServer.cfg` | pass | Three connections, each sending one of thirteen requests, run interleaved over the shared files directory. Every connection is eventually answered and closed by the server, unless the process has exited (`ConnectionsAnswered`). |
| `rdb_startup` | `MCRdb.cfg` | pass | `parseArgs` yields the configuration the documented command line calls for, or exits (`StartupFollowsCommandLine`). Start-up loads exactly the keys, values and millisecond expiries written into the file that `--dir`/`--dbfilename` name, however the directory is spelt, or starts empty when there is no file (`RdbLoadFaithful`). Each failure spec 4.8 lists, and a second database, stops the server. |

Further violations are kept as reproduction configs beside the runs and
recorded as hazards. The
properties they break are defined in the modules, and each comes with a
comment. TLC reports each of them violated:

| Config | Property | What TLC reports |
|---|---|---|
| `MCReplication_EmptyValue.cfg` | `ReplicaTracksLeader` | `SET k ""` is forwarded as `$-1`; the follower's parser calls `make` with length -1 and panics. |
| `MCCommands_TxFail.cfg` | `ExecRepliesNotLost` | MULTI, SET, CONFIG GET of an unset key, EXEC: the SET is applied and published, the CONFIG error closes the connection, and the SET's reply is never sent. |
| `MCStreamCommands_XReadArgs.cfg` | `XReadRejectsUnpaired` | After one XADD to `k1`, `XREAD streams k1 k2 0-0` is answered with all of `k1`: `count` is 1, and the range read for `k1` is the word `k2`, which `SplitSeqKey` turns into `0-0`. |
| `MCStreamCommands_ExpiredXAdd.cfg` | `XAddTreatsExpiredAsAbsent` | Once a snapshot key's expiry has passed, XADD to it fails with the wrong-type error: `SetStream` ignores expiries. |
| `MCStreamCommands_EmptyStream.cfg` | `StreamsHoldAnEntry` | One XADD `0-0` to a missing key is rejected but leaves an empty stream behind. |
| `MCCommands_TxLeak.cfg` | `TxQueueDroppedOnClose` | MULTI, then the client disconnects: `handleConnection` returns without deleting the connection's `TxQueue` entry. |
| `MCCommands_Keys.cfg` | `KeysListsOnlyLiveKeys` | `SET k v PX 1`, the clock passes the deadline, and KEYS still lists `k`: `List` ignores expiries. |
| `MCMapAccess_Store.cfg` | `MapAccessesExclusive` | Two connections' `Get`s of an expired key hold the read lock together, and both delete from `expiries`. Without `GetExpired`, the store methods keep the rule. |
| `MCMapAccess_Host.cfg` | `MapAccessesExclusive` | `IsInTransaction` reads `TxQueue` while another connection's `BeginTransaction` writes it under `h.mu`. |
| `MCCommands_PublishOrder.cfg` | `PublishOrderMatchesStore` | Two connections SET `k1` to `1` and to `s1`. The store writes happen in one order and the sends on EventsChannel in the other, so a replica replaying `published` ends at `1` while the leader holds `s1`. `HandleSet` has no lock across its write and its publish. |
| `MCCommands_PxEdge.cfg` | `GetNeverReturnsExpired` | `SET k v PX 0`, and `SET k v PX 1` spelled in upper case, store no expiry; a later GET returns `v`. Each option alone is a counterexample. |
| `MCHttpServer_Crash.cfg` | `ServerStaysUp` | One request ends the process. This happens for a request cut short, for a body whose first read returns only part of it, and for `Accept-Encoding: gzip` on a response without a body (a nil `*bufio.Reader` in `io.Copy`). |
| `MCHttpServer_TornWrite.cfg` | `FilesHoldWholeBodies` | Two POSTs to one file both truncate, then both write at offset 0. The file ends up as `"32"` from bodies `"12"` and `"3"`, and both clients get 201. |
| `MCHttpServer_Framing.cfg` | `ResponseFramed` | A GET stats the file (1 byte). A POST then truncates it, and the GET sends `Content-Length: 1` with no body. |
| `MCHttpServer_Echo.cfg` | `EchoesPath` | `GET /E/X` is answered with `x`: the path is lowered before the variable is bound. |

`MCCommands_PxNegative.cfg` sends `SET k v PX -3` at ms 1. In the model's
3-bit expiry arithmetic `uint64` wraps the deadline to 6, in the future,
so a GET at ms 1 returns `v` although the deadline `1 - 3` has passed
(`GetNeverReturnsExpired`). With a real clock the wrap lands in the future
only for a PX below minus the clock reading; above it, the deadline is in
the past and the key reads as absent at once.

`MCCommands_StaleExpiry.cfg` is also a reproduction config.
It sends `SET` with and without `PX 1`, and TLC finds `GetReturnsLiveValue`
violated: `SET k v PX 1`, a plain `SET k v`, the clock passes the first
deadline, and GET returns null, because the plain `SET` kept the old deadline. It is recorded as a
hazard.

The RDB divergences are recorded as hazards, not runs. These are the
seconds expiry, the short checksum and the unchecked header. For each one,
`RdbLoadFaithful` was checked with `Cases` holding only a file of that kind,
and TLC reports the invariant violated at the load step.

`PROJECT.json` records each violation as a finding, with its trace in words.

### Bounds and why they are enough

**`MCKvStore` and `MCStreamCommands`.**
- Two keys, with symmetry over keys.
- One payload.
- PX in `{0, 1, -2}`. `-2` wraps around at `ms = 1` and not later.
- Clock `1..4`.
- Id parts `0..2`, and streams of up to 3 entries.

These bounds reach every branch of `SetStream`:
- zero id;
- an id not greater than the top item;
- `T-*` on an equal and on a newer time;
- `0-*`;
- `*` from every clock reading.

They also reach every fallback of `findl`/`findr`/`xreadfindl`: a start past
the end, an end before the start, and an empty stream.

`MCStreamCommands` sends XRANGE with `- +` and with `1-0 2-0`, and three
XREAD argument lists: one key from `0-0`, two keys with two ids, and two
keys with one id (the unpaired list).

**`MCCommands`, pass run.**
- One connection and one key.
- Payloads `{s1, 1, 2}`: a non-integer string and the integers INCR reaches.
- SET without options.
- Of the administrative commands, only `CONFIG GET dir`. Each further
  command roughly doubles the run, through the two transaction queues it
  can sit in; ECHO, INFO, PING, WAIT and the CONFIG errors are exercised by
  `MCCommands_TxFail.cfg`.
- XADD ids `*`, `1-*` and `0-0`.
- `MaxQueue = 2`, `MaxPublished = 2`, `MaxInt = 2`, clock `1..2`.

That is enough for MULTI inside MULTI, EXEC of a queue holding INCR/XADD,
DISCARD, and the `uuid.Nil` queue filling up. The run has 182,747 distinct
states and finishes in about 80 s.

**`MCPubSub`.** Three publishers and two replicas, with symmetry over
replicas left off because the refinement's history is per replica. With these
bounds two replicas are subscribed when an event is fanned out. A replica can
subscribe between two events and drop in the middle of a fan-out, and a
Subscribe can wait on the lock behind a blocked fan-out. The pass run has
44,004 distinct states and takes about 10 s with its liveness property.

**`MCReplication`.** One key, payloads `"9"` (an integer, so INCR
succeeds and then carries) and a ten-byte string (its length `10` has two
digits, so the `$` line length differs from the single-digit case),
up to 5 commands. `ShortReads` is off in the pass run: it breaks
`ReplicaTracksLeader` within a few steps (listed as a hazard), so
the pass run checks the framing and counting the code gets right when reads
are whole. The pass run has 14,249 distinct states and takes about 12 s with its
liveness check.

**`MCRdb`.** 278 files, of up to about 70 bytes. Between them they reach
every branch of the reader:
- each metadata key;
- each way a section can fail;
- an entry with and without an expiry, and two entries with distinct keys;
- `io.EOF` at a separator;
- the `Fatal` exit for a second database.

Two keys suffice: a later entry's key can only overwrite an earlier one, and
the grammar writes distinct keys. The thirteen command lines reach every
case of `parseArgs`, every exit, and the three spellings of the snapshot's
directory that `Join` must clean to one path. The run has 19,234 distinct
states and takes a few seconds.

**`MCHttpServer`.** Three connections and thirteen requests:
- every route, and a 404;
- a lower-case method and an upper-case path;
- `Accept-Encoding: gzip` on a bodiless and on a file response;
- two POSTs to one file with bodies of different lengths, and a POST that
  creates a second file;
- a body whose first read is short;
- a client that hangs up before the blank line.

Three connections are the fewest for two writers and a reader of one file.
The file `a` starts with one byte, so a GET can stat a non-empty file before
a writer truncates it. `MaxFile = 2` is the longest body. The run has 34,392
distinct states and takes about a minute, most of it in the liveness check.

**Violation runs.** Each uses the smallest command set that contains its
scenario: SET with PX, INCR, or transactions. The counterexamples are 4–7
steps long.

The model bounds are named constants (`MaxTime`, `MaxStreamLen`, `MaxQueue`,
`MaxPublished`, `MaxInt`) and are used only as guards on what a client
sends, in `Sendable`. A command already queued is replayed whatever the
bounds, as the code does.

### Fairness

`replication`, `pubsub_fanout`, `pubsub_stall` and `http_server` check
liveness.

`replication` uses `Replication!FairSpec`. It gives weak fairness to the
follower's goroutine: `Handshake`, `RdbRead` and `ListenerStep`. That
goroutine runs whenever it is not blocked reading the connection, and the
leader may stop writing at any time, so the leader gets no fairness.
`ListenerStep`'s weak fairness is written out as
`[]<>~ListenerCanStep \/ []<><<ListenerStep>>_vars`.
`ListenerCanStep` (`fpc = "listen" /\ Receivable # {}`) is exactly when the
step is enabled: every CASE arm can be taken, and every step moves the
lexer. TLC's own `ENABLED` would run the recursive parse without sharing its
`LET` results, and it does not finish.

`pubsub_fanout` and `pubsub_stall` use `PubSub!FairSpec`, which gives weak
fairness to each publisher's send, the fan-out loop, the subscription loop
and each forwarder. Go's scheduler eventually runs every runnable goroutine.
A goroutine blocked on a channel or a lock is not runnable, so the deadlock
that is found is real, not starvation. A replica connecting (`PSync`) or
dropping (`ReplicaDrop`) is up to the environment and gets no fairness.

`http_server` gives weak fairness to each connection's `Handle` goroutine:
it runs until it returns, and a blocking read only waits for bytes the
client has already sent. This is written out with `CanHandle`
(`up /\ pc[c] # "done"`). A parsed request always routes to some handler,
so that predicate is exactly when `Handle(c)` is enabled. TLC's own
`ENABLED` evaluates the recursive matcher in every state and does not
finish.

### Deadlock checking

The `MCCommands` configurations set `CHECK_DEADLOCK FALSE`. A state where
every connection has closed is terminal, and so is a state where the clients
can send nothing more within the bounds. A real server waits in `Accept`
there; that wait is not a deadlock.

`MCRdb` sets `CHECK_DEADLOCK FALSE`. Start-up ends in `running` (the server
goes on to serve, as the other modules model) or in `exited`.

The `MCReplication` configurations set `CHECK_DEADLOCK FALSE`: the
follower stops after EOF or a panic, and the leader stops at `MaxCmds`.

The `MCPubSub` configurations also set `CHECK_DEADLOCK FALSE`. They stop
when every publisher is done and every replica has left, and after a panic.
The stall they can reach is checked as the liveness property
`PublishCompletes` instead of as a deadlock.

`MCHttpServer` configurations set `CHECK_DEADLOCK FALSE`. The model stops
when every goroutine has returned or the process has exited; the real
server then waits in `Accept`.

`MCKvStore` checks deadlock. A client may always call `Get`.
`MCStreamCommands` sets `CHECK_DEADLOCK FALSE`: after an XRANGE panic the
process is gone and nothing can happen.

## 4. Mutants

Each property of a passing run is broken by a plausible fault, defined just
before the definition it replaces:

| Fault | Definition it replaces | Breaks |
|---|---|---|
| `SetSignedExpiry`: no `uint64` wrap-around | `Set` | `TypeOK` of `StreamCommands` |
| `NewStreamIdAcceptsEqual`: `>` for `>=` in the top-item check | `NewStreamId` | `StreamIdsIncreasing` |
| `XReadResultKeysFromFirst`: keys taken from `Elements[1]`, the word `streams` included | `XReadResult` | `ReadFromStartReturnsAcked` |
| `HandleIncrGetFromZero`: `newval := 0` | `HandleIncrGet` | `TypeOK` |
| `ConsumeTransactionQueueKeeps`: the queue is returned but not deleted from `TxQueue` | `ConsumeTransactionQueue` | `ExecAnswersEachQueued` |
| `FanoutSendRepeats`: the range loop does not advance | `FanoutSend` | `TypeOK` |
| `SubApplyUnlocked`: the map is changed without `mu.Lock` | `SubApply` | `FanoutTargetsSubscribed` |
| `DispatchSwappedDelta`: the byte delta computed as `p - counter`, reversed | `Dispatch` | `TypeOK` |
| `DispatchAckAfterAppend`: GETACK answers with the delta already added | `Dispatch` | `ReplicaTracksLeader` |
| `readStringValueUnchecked`: the `n != len` check dropped | `readStringValue` | `TypeOK` |
| `ReadEntrySwappedWidths`: 4 bytes read for a ms expiry and 8 for a seconds one | `ReadEntry` | `RdbLoadFaithful` |
| `ParseArgsNoSkip`: the `--dbfilename` case does not skip its value (`i++` missing) | `ParseArgs` | `StartupFollowsCommandLine` |
| `CrlfStarvedOffByOne`: `ConsumeCrlf` waits for three bytes | `CrlfStarved` (`Resp`) | `CommandsApplied` |
| `FanoutSendNonBlocking`: `select` with `default` skips a busy subscriber | `FanoutSend` | `BusSpec` |
| `FanoutRUnlockKeepsLock`: the fan-out never calls `mu.RUnlock` | `FanoutRUnlock` | `PublishCompletesWhileReplicasLive` |
| `AppendAt0`: the file opened for appending rather than truncated | `WriteAt0` | `TypeOK` (`HttpServer`) |
| `StreamFileUnclosed`: `SendFileStream` without `r.conn.Close()` | `StreamFile` | `ConnectionsAnswered` |

## 5. Not modelled, and why

- **Go data races in the functional models.** In `Commands` and `KvStore`,
  store and `HostContext` methods are single steps. The two map races are
  modelled in `MapAccess` instead, and reproduced there. The unlocked read
  of `ProcessedBytes` in REPLCONF GETACK is an integer read, not a map
  access, and is not modelled.
- **XRANGE/XREAD inside transactions.** The stream handlers are modelled
  in `StreamCommands`, not dispatched by `Commands`: `Commands`' pass run
  already needs most of its time budget. Inside MULTI they would be queued
  like any other command.
- **Unknown commands and short argument lists.** An unknown command
  panics, and so does CONFIG or CONFIG GET without enough arguments (an
  index out of range); both end the process. The unknown command is
  listed as a hazard. Reply formatting (`role:master\r\n...`) is kept as
  the list of fields.
- **Server set-up after the load.** `GenerateReplId` is a random id, and
  `Commands` takes `LeaderReplId` as a constant. `PubSubManager.Start` and
  the follower's handshake happen before `PubSub` and `Replication` begin.
  `net.Listen` and the accept loop are sockets, and the connections are
  `Commands`' fixed set. `Join`'s handling of `.` and `..` is not modelled:
  no modelled path contains them.
- **HTTP server details.** Errors from `os.Create`, `file.Write` and
  `Stat` are not modelled; these are the 500 branches of the file handlers
  and `SendFileStream`'s early return. Bodies and files longer than one
  4096-byte read are not modelled either. Gzip compression is kept
  symbolic: the `Content-Length` it writes is the compressed size of the
  bytes it sends.

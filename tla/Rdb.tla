-------------------------------- MODULE Rdb ---------------------------------
(***************************************************************************)
(* Start-up from an RDB snapshot: main (server.go) parses the command line *)
(* and stores dir and dbfilename in the config store, then                 *)
(* KvStore.InitialiseFromRdbFile (store/kv_store.go) reads                 *)
(* rdb.ReadRdbFromFile (rdb/rdb.go) of filepath.Join(dir, dbfilename) into *)
(* the empty store main has just made.  The file system holds one file,    *)
(* the snapshot, at SnapshotPath.                                          *)
(*                                                                         *)
(* A byte is a natural 0..255 and a file a sequence of bytes read through  *)
(* one bufio.Reader.  The files are a few dozen bytes, so the first fill  *)
(* of the reader's 4096-byte buffer holds all of it: Read returns what is  *)
(* asked for or what is left, whichever is less, and io.EOF when nothing  *)
(* is left.                                                                *)
(*                                                                         *)
(* One iteration of the reader's outer loop (one section of the file) is   *)
(* one step; what a section reads is computed by the operators below, each *)
(* of which returns [ok, val, pos]: the value read and the reader position *)
(* after it.                                                               *)
(***************************************************************************)
EXTENDS Integers, Sequences, SequencesExt, TLC, ServerArgs

CONSTANTS
    Cases,     \* files the server may start from: [file, fault, keys, exps]
    Absent,    \* the file does not exist
    ArgLists,  \* command lines the server may be started with
    SnapshotPath, \* where the snapshot file is, as Join writes a path
    SnapshotDirs, \* the --dir values that name the snapshot's directory
    SnapshotName  \* the --dbfilename value that names the snapshot

VARIABLES
    rdbCase,   \* the file of this start-up, with what was written into it
    pc,        \* "args" | "open" | "section" | "load" | "running" | "exited"
    pos,       \* bytes consumed from the bufio.Reader
    dbs,       \* RdbContents.Databases: [keys, exps] per database section
    readErr,   \* the error ReadRdbFromFile returns: "none" | "notexist" | "error"
    values,    \* KvStore.values after start-up (key bytes -> value bytes)
    expiries,  \* KvStore.expiries after start-up (key bytes -> ms)
    args,      \* os.Args[1:]
    conf,      \* the ServerConfig parseArgs returned
    configStore \* hostctx.ConfigStore: "dir" and "dbfilename"

startVars == <<args, conf, configStore>>
vars == <<rdbCase, pc, pos, dbs, readErr, values, expiries, startVars>>

NoConf == [parsed |-> FALSE]   \* before parseArgs has returned

(* The file os.Open finds at filepath.Join(dir, dbfilename).               *)
file == IF Join(conf.dir, conf.dbfilename) = SnapshotPath THEN rdbCase.file ELSE Absent

RdbMetadataSeperator == 250
RdbHashTableInfoSeperator == 251
RdbKeyExpiryMs == 252
RdbKeyExpiryS == 253
RdbDatabaseSeperator == 254
RdbEofSeperator == 255

(* The metadata keys, as bytes.                                            *)
RedisVer == <<114, 101, 100, 105, 115, 45, 118, 101, 114>>       \* redis-ver
Ctime == <<99, 116, 105, 109, 101>>                              \* ctime
RedisBits == <<114, 101, 100, 105, 115, 45, 98, 105, 116, 115>>  \* redis-bits
UsedMem == <<117, 115, 101, 100, 45, 109, 101, 109>>             \* used-mem
AofBase == <<97, 111, 102, 45, 98, 97, 115, 101>>                \* aof-base

EmptyMap == [b \in {} |-> 0]
EmptyDb == [keys |-> EmptyMap, exps |-> EmptyMap]

-----------------------------------------------------------------------------
(* bufio.Reader over the file.                                             *)
Avail(f, p) == Len(f) - p
Read(v, p) == [ok |-> TRUE, val |-> v, pos |-> p]
Fail == [ok |-> FALSE, val |-> 0, pos |-> 0]

Discard(f, p, n) == IF n < Avail(f, p) THEN p + n ELSE Len(f)

ReadByte(f, p) == IF Avail(f, p) <= 0 THEN Fail ELSE Read(f[p + 1], p + 1)

(* Read into a buffer of n bytes: n = 0 reads nothing and succeeds.        *)
ReadN(f, p, n) ==
    CASE n = 0 -> Read(<<>>, p)
      [] Avail(f, p) <= 0 -> Fail
      [] n <= Avail(f, p) -> Read(SubSeq(f, p + 1, p + n), p + n)
      [] OTHER -> Read(SubSeq(f, p + 1, Len(f)), Len(f))

(* binary.LittleEndian.Uint64 / Uint32.                                    *)
LittleEndian(bs) == FoldRight(LAMBDA b, acc : b + 256 * acc, bs, 0)

(* Fault: the n != len check dropped, as if Read always filled the buffer. *)
readStringValueUnchecked(f, p) ==
    LET l == ReadByte(f, p)
        r == ReadN(f, l.pos, l.val)
    IN IF l.ok /\ r.ok THEN Read(r.val, l.pos + l.val) ELSE Fail

(* readStringValue: a length byte, then one Read of that many bytes; fewer *)
(* bytes than the length is an error.                                      *)
readStringValue(f, p) ==
    LET l == ReadByte(f, p)
        r == ReadN(f, l.pos, l.val)
    IN IF l.ok /\ r.ok /\ Len(r.val) = l.val THEN r ELSE Fail

(* readUint64Value (w = 8) and readUint32Value (w = 4).                    *)
readUintValue(f, p, w) ==
    LET r == ReadN(f, p, w)
    IN IF r.ok /\ Len(r.val) = w THEN Read(LittleEndian(r.val), r.pos) ELSE Fail

-----------------------------------------------------------------------------
(* The body of the RdbMetadataSeperator case, from after the separator.   *)
(* The byte before ctime, used-mem and redis-bits is discarded unread, and *)
(* aof-base discards two bytes.                                            *)
MetadataSection(f, p) ==
    LET key == readStringValue(f, p)
        q == key.pos
        bits == ReadByte(f, Discard(f, q, 1))
    IN CASE ~key.ok -> Fail
         [] key.val = RedisVer -> readStringValue(f, q)
         [] key.val \in {Ctime, UsedMem} -> readUintValue(f, Discard(f, q, 1), 4)
         [] key.val = RedisBits -> IF bits.ok /\ bits.val = 64 THEN bits ELSE Fail
         [] key.val = AofBase -> Read(0, Discard(f, q, 2))
         [] OTHER -> Fail

(* Fault: the widths of the millisecond and the second expiry swapped.    *)
ReadEntrySwappedWidths(f, p, db) ==
    LET c == IF Avail(f, p) <= 0 THEN -1 ELSE f[p + 1]
        hasExpiry == c \in {RdbKeyExpiryMs, RdbKeyExpiryS}
        e == CASE c = RdbKeyExpiryMs -> readUintValue(f, p + 1, 4)
               [] c = RdbKeyExpiryS -> readUintValue(f, p + 1, 8)
               [] OTHER -> Read(0, p)
        t == ReadByte(f, e.pos)
        key == readStringValue(f, t.pos)
        val == readStringValue(f, key.pos)
    IN IF c # -1 /\ e.ok /\ t.ok /\ key.ok /\ t.val = 0 /\ val.ok
       THEN Read([keys |-> (key.val :> val.val) @@ db.keys,
                  exps |-> IF hasExpiry THEN (key.val :> e.val) @@ db.exps
                           ELSE db.exps],
                 val.pos)
       ELSE Fail

(* One iteration of the key loop: Peek(1) for an expiry marker, the        *)
(* expiry, the type byte, the key (its expiry recorded as soon as it is    *)
(* read), and a string value; any other type is an error.  An expiry in    *)
(* seconds is stored as read, without scaling to milliseconds.             *)
ReadEntry(f, p, db) ==
    LET c == IF Avail(f, p) <= 0 THEN -1 ELSE f[p + 1]
        hasExpiry == c \in {RdbKeyExpiryMs, RdbKeyExpiryS}
        e == CASE c = RdbKeyExpiryMs -> readUintValue(f, p + 1, 8)
               [] c = RdbKeyExpiryS -> readUintValue(f, p + 1, 4)
               [] OTHER -> Read(0, p)
        t == ReadByte(f, e.pos)
        key == readStringValue(f, t.pos)
        val == readStringValue(f, key.pos)
    IN IF c # -1 /\ e.ok /\ t.ok /\ key.ok /\ t.val = 0 /\ val.ok
       THEN Read([keys |-> (key.val :> val.val) @@ db.keys,
                  exps |-> IF hasExpiry THEN (key.val :> e.val) @@ db.exps
                           ELSE db.exps],
                 val.pos)
       ELSE Fail

RECURSIVE Entries(_, _, _, _)
Entries(f, p, n, db) ==
    IF n = 0 THEN Read(db, p)
    ELSE LET r == ReadEntry(f, p, db)
         IN IF r.ok THEN Entries(f, r.pos, n - 1, r.val) ELSE Fail

(* The body of the RdbDatabaseSeperator case: the index byte (ignored),    *)
(* the hash-table marker, ksize and expsize (ignored), then ksize entries. *)
DatabaseSection(f, p) ==
    LET idx == ReadByte(f, p)
        b == ReadByte(f, idx.pos)
        ksize == ReadByte(f, b.pos)
        expsize == ReadByte(f, ksize.pos)
    IN IF idx.ok /\ b.ok /\ b.val = RdbHashTableInfoSeperator /\ ksize.ok /\ expsize.ok
       THEN Entries(f, expsize.pos, ksize.val, EmptyDb)
       ELSE Fail

-----------------------------------------------------------------------------
(* main up to InitialiseFromRdbFile: parseArgs, which exits on a bad       *)
(* command line, then ConfigStore.Set of dir and dbfilename.               *)
StartServer ==
    /\ pc = "args"
    /\ conf' = ParseArgs(args)
    /\ IF conf' = ArgsExit
       THEN pc' = "exited" /\ UNCHANGED configStore
       ELSE /\ configStore' = ("dir" :> conf'.dir) @@ ("dbfilename" :> conf'.dbfilename)
            /\ pc' = "open"
    /\ UNCHANGED <<rdbCase, pos, dbs, readErr, values, expiries, args>>

(* ReadRdbFromFile opens the file (a missing file is os.IsNotExist) and    *)
(* discards the 9-byte header without looking at it.                       *)
Open ==
    /\ pc = "open"
    /\ IF file = Absent
       THEN /\ readErr' = "notexist"
            /\ pc' = "load"
            /\ UNCHANGED pos
       ELSE /\ pos' = Discard(file, 0, 9)
            /\ pc' = "section"
            /\ UNCHANGED readErr
    /\ UNCHANGED <<rdbCase, dbs, values, expiries>>

Separator == file[pos + 1]

(* A step of the outer loop that ends ReadRdbFromFile with an error.      *)
ReadFails ==
    /\ readErr' = "error"
    /\ pc' = "load"
    /\ UNCHANGED <<pos, dbs>>

(* ReadByte returns io.EOF at a separator: break, the file is read.        *)
SectionEof ==
    /\ pc = "section"
    /\ Avail(file, pos) = 0
    /\ pc' = "load"
    /\ UNCHANGED <<rdbCase, pos, dbs, readErr, values, expiries>>

ReadMetadata ==
    /\ pc = "section"
    /\ Avail(file, pos) > 0
    /\ Separator = RdbMetadataSeperator
    /\ LET r == MetadataSection(file, pos + 1)
       IN IF r.ok THEN pos' = r.pos /\ UNCHANGED <<pc, dbs, readErr>>
          ELSE ReadFails
    /\ UNCHANGED <<rdbCase, values, expiries>>

ReadDatabase ==
    /\ pc = "section"
    /\ Avail(file, pos) > 0
    /\ Separator = RdbDatabaseSeperator
    /\ LET r == DatabaseSection(file, pos + 1)
       IN IF r.ok THEN /\ pos' = r.pos
                       /\ dbs' = Append(dbs, r.val)
                       /\ UNCHANGED <<pc, readErr>>
          ELSE ReadFails
    /\ UNCHANGED <<rdbCase, values, expiries>>

(* The EOF marker: one Read of the 8-byte checksum, which fails only when  *)
(* no byte is left, then break outerLoop.                                  *)
ReadEofMarker ==
    /\ pc = "section"
    /\ Avail(file, pos) > 0
    /\ Separator = RdbEofSeperator
    /\ LET r == ReadN(file, pos + 1, 8)
       IN IF r.ok THEN pos' = r.pos /\ pc' = "load" /\ UNCHANGED <<dbs, readErr>>
          ELSE ReadFails
    /\ UNCHANGED <<rdbCase, values, expiries>>

UnexpectedSeparator ==
    /\ pc = "section"
    /\ Avail(file, pos) > 0
    /\ Separator \notin {RdbMetadataSeperator, RdbDatabaseSeperator, RdbEofSeperator}
    /\ ReadFails
    /\ UNCHANGED <<rdbCase, values, expiries>>

(* InitialiseFromRdbFile: no file, or a file with no database, leaves the *)
(* store empty; any other error, or more than one database, is logged as  *)
(* Fatal and exits; otherwise the keys and then the expiries of the one   *)
(* database are copied into the store.                                     *)
InitialiseFromRdbFile ==
    /\ pc = "load"
    /\ CASE readErr = "notexist" -> pc' = "running" /\ UNCHANGED <<values, expiries>>
         [] readErr = "error" -> pc' = "exited" /\ UNCHANGED <<values, expiries>>
         [] Len(dbs) = 0 -> pc' = "running" /\ UNCHANGED <<values, expiries>>
         [] Len(dbs) > 1 -> pc' = "exited" /\ UNCHANGED <<values, expiries>>
         [] OTHER -> /\ pc' = "running"
                     /\ values' = dbs[1].keys @@ values
                     /\ expiries' = dbs[1].exps @@ expiries
    /\ UNCHANGED <<rdbCase, pos, dbs, readErr>>

Init ==
    /\ rdbCase \in Cases
    /\ args \in ArgLists
    /\ conf = NoConf
    /\ configStore = EmptyMap
    /\ pc = "args"
    /\ pos = 0
    /\ dbs = <<>>
    /\ readErr = "none"
    /\ values = EmptyMap
    /\ expiries = EmptyMap

Next ==
    \/ StartServer
    \/ /\ \/ Open
          \/ SectionEof \/ ReadMetadata \/ ReadDatabase \/ ReadEofMarker \/ UnexpectedSeparator
          \/ InitialiseFromRdbFile
       /\ UNCHANGED startVars

Spec == Init /\ [][Next]_vars

-----------------------------------------------------------------------------
Bytes == 0..255

TypeOK ==
    /\ pc \in {"args", "open", "section", "load", "running", "exited"}
    /\ pc \notin {"args", "exited"} /\ file # Absent => pos \in 0..Len(file)
    /\ args \in Seq(Seq(STRING))
    /\ DOMAIN configStore \subseteq {"dir", "dbfilename"}
    /\ readErr \in {"none", "notexist", "error"}
    /\ \A i \in 1..Len(dbs) : DOMAIN dbs[i].exps \subseteq DOMAIN dbs[i].keys
    /\ \A k \in DOMAIN values : values[k] \in Seq(Bytes)
    /\ DOMAIN expiries \subseteq DOMAIN values

(* The case start-up should load: the snapshot when --dir names its      *)
(* directory (however it is spelt) and --dbfilename its name, otherwise no *)
(* file at all.                                                            *)
NoFile == [file |-> Absent, fault |-> "none", keys |-> EmptyMap, exps |-> EmptyMap]
Expected ==
    IF conf.dir \in SnapshotDirs /\ conf.dbfilename = SnapshotName THEN rdbCase ELSE NoFile

(* The start-up outcome the command line and the file call for (spec 4.8,  *)
(* 6, 7, 8): the server runs with exactly the keys, values and millisecond *)
(* expiries written into the file its --dir and --dbfilename name, or an   *)
(* empty store when there is none; a file that breaks the grammar in a way *)
(* spec 4.8 lists (unknown metadata key, unexpected separator, non-string  *)
(* type, short fixed-width field) stops start-up, and so does a second     *)
(* database.  It is about the whole path: parseArgs, filepath.Join, the    *)
(* reader's separator loop, every section's reads and the positions they   *)
(* leave, the little-endian decoding, and the copy into the store.         *)
RdbLoadFaithful ==
    /\ pc = "running" => /\ Expected.fault = "none"
                         /\ values = Expected.keys
                         /\ expiries = Expected.exps
    /\ pc = "exited" => conf = ArgsExit \/ Expected.fault # "none"

(* parseArgs accepts exactly the command line spec section 8 documents and *)
(* yields its configuration: the loop over os.Args with its                *)
(* i+1 < len(os.Args) checks and i++ skips, strings.Split of --replicaof  *)
(* and strconv.Atoi of the ports.                                          *)
StartupFollowsCommandLine ==
    pc # "args" => conf = Documented(args, Defaults)
=============================================================================

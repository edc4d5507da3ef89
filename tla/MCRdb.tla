------------------------------- MODULE MCRdb --------------------------------
(***************************************************************************)
(* Model-checking instance of Rdb.  The files are written by WriteRdb,     *)
(* the snapshot grammar of spec section 6 (not the server's code): a       *)
(* header, metadata attributes, database sections, the EOF marker and an   *)
(* 8-byte checksum.  Each case records what was written into its file.     *)
(***************************************************************************)
EXTENDS Rdb, FiniteSets

Header == <<82, 69, 68, 73, 83, 48, 48, 49, 49>>     \* REDIS0011
Checksum == <<137, 59, 183, 78, 248, 15, 119, 25>>

Lp(s) == <<Len(s)>> \o s

(* An unsigned integer in w little-endian bytes.                           *)
RECURSIVE Le(_, _)
Le(n, w) == IF w = 0 THEN <<>> ELSE <<n % 256>> \o Le(n \div 256, w - 1)

Meta(a) ==
    <<RdbMetadataSeperator>> \o
    CASE a = "redis-ver" -> Lp(RedisVer) \o Lp(<<55, 46, 50, 46, 48>>)
      [] a = "ctime" -> Lp(Ctime) \o <<194>> \o Le(1729939775, 4)
      [] a = "redis-bits" -> Lp(RedisBits) \o <<192, 64>>
      [] a = "used-mem" -> Lp(UsedMem) \o <<194>> \o Le(1098928, 4)
      [] a = "aof-base" -> Lp(AofBase) \o <<192, 0>>
      [] a = "redis-bits-32" -> Lp(RedisBits) \o <<192, 32>>
      [] a = "unknown" -> Lp(<<120>>) \o Lp(<<49>>)

NoExpiry == -1

(* An entry of type t: an optional 0xFC expiry, the type, key and value.   *)
EntryOfType(e, t) ==
    (IF e.exp = NoExpiry THEN <<>> ELSE <<RdbKeyExpiryMs>> \o Le(e.exp, 8))
    \o <<t>> \o Lp(e.key) \o Lp(e.val)

Db(es) ==
    <<RdbDatabaseSeperator, 0, RdbHashTableInfoSeperator, Len(es),
      Cardinality({i \in 1..Len(es) : es[i].exp # NoExpiry})>>
    \o FlattenSeq([i \in 1..Len(es) |-> EntryOfType(es[i], 0)])

WriteRdb(meta, sections) ==
    Header \o FlattenSeq([i \in 1..Len(meta) |-> Meta(meta[i])])
    \o FlattenSeq(sections) \o <<RdbEofSeperator>> \o Checksum

-----------------------------------------------------------------------------
KeyNames == {<<107>>, <<109>>}        \* "k", "m"
ValueNames == {<<118>>, <<>>}         \* "v", ""
(* No expiry, one byte, and two bytes (300 = 0x2C 0x01).                   *)
ExpiryTimes == {NoExpiry, 7, 300}

EntryRecs == [key : KeyNames, val : ValueNames, exp : ExpiryTimes]
Databases ==
    {<<>>} \cup {<<e>> : e \in EntryRecs}
    \cup {<<e1, e2>> : e1, e2 \in EntryRecs}
DistinctKeys(es) == \A i, j \in DOMAIN es : i # j => es[i].key # es[j].key

Metas == {<<>>, <<"redis-ver", "redis-bits">>,
          <<"redis-ver", "redis-bits", "ctime", "used-mem", "aof-base">>}

KeysOf(es) == [k \in {es[i].key : i \in DOMAIN es} |->
                  es[CHOOSE i \in DOMAIN es : es[i].key = k].val]
ExpsOf(es) == [k \in {es[i].key : i \in {j \in DOMAIN es : es[j].exp # NoExpiry}} |->
                  es[CHOOSE i \in DOMAIN es : es[i].key = k].exp]

Case(f, fault, es) == [file |-> f, fault |-> fault, keys |-> KeysOf(es), exps |-> ExpsOf(es)]

Sample == [key |-> <<107>>, val |-> <<118>>, exp |-> 300]
Other == [key |-> <<109>>, val |-> <<118>>, exp |-> NoExpiry]

WholeFiles ==
    {Case(WriteRdb(m, <<>>), "none", <<>>) : m \in Metas}
    \cup {Case(WriteRdb(m, <<Db(es)>>), "none", es) :
            m \in Metas, es \in {d \in Databases : DistinctKeys(d)}}

(* A file cut after its last section, before the EOF marker: the reader  *)
(* meets io.EOF at a separator and returns what it has read.               *)
CutFiles ==
    {Case(Header \o FlattenSeq([i \in 1..Len(m) |-> Meta(m[i])]) \o Db(es), "none", es) :
        m \in Metas, es \in {<<>>, <<Sample>>, <<Sample, Other>>}}

(* One file for each failure spec 4.8 lists, and a second database.        *)
FaultyFiles ==
    { Case(WriteRdb(<<"unknown">>, <<Db(<<Sample>>)>>), "unknown_meta", <<>>),
      Case(WriteRdb(<<"redis-bits-32">>, <<>>), "redis_bits", <<>>),
      Case(WriteRdb(<<>>, <<<<1>>>>), "separator", <<>>),
      Case(WriteRdb(<<>>, <<<<RdbDatabaseSeperator, 0, RdbHashTableInfoSeperator, 1, 1>>
                             \o EntryOfType(Sample, 1)>>), "value_type", <<>>),
      Case(WriteRdb(<<>>, <<<<RdbDatabaseSeperator, 0, 0, 1, 1>>
                             \o EntryOfType(Sample, 0)>>), "table_marker", <<>>),
      Case(WriteRdb(<<>>, <<Db(<<Sample>>), Db(<<Other>>)>>), "two_databases", <<>>),
      Case(Header \o <<RdbMetadataSeperator>> \o Lp(Ctime), "short_ctime", <<>>),
      Case(Header \o Db(<<Sample>>) \o <<RdbEofSeperator>>, "no_checksum", <<>>),
      Case(Header \o <<RdbDatabaseSeperator, 0, RdbHashTableInfoSeperator, 1, 1,
                       RdbKeyExpiryMs, 44, 1, 0>>, "short_expiry", <<>>),
      Case(Header \o <<RdbDatabaseSeperator, 0, RdbHashTableInfoSeperator, 1, 0, 0>>
                  \o Lp(<<107>>) \o <<3, 118>>, "short_value", <<>>) }

MCCases ==
    {Case(Absent, "none", <<>>)} \cup WholeFiles \cup CutFiles \cup FaultyFiles
-----------------------------------------------------------------------------
(* Command lines: the snapshot's directory spelt three ways, another       *)
(* directory, a later --dir overriding an earlier one, another file name,  *)
(* ports, --replicaof with one and with two spaces, a missing value, an    *)
(* unknown flag, and a flag taken as the value of --dir.                   *)
MCNumerals == ("6379" :> 6379) @@ ("6380" :> 6380)
SnapDir == <<Slash, "tmp", Slash, "redis-files", Slash>>
SnapDirBare == <<Slash, "tmp", Slash, "redis-files">>
SnapDirDouble == <<Slash, "tmp", Slash, Slash, "redis-files">>
OtherDir == <<Slash, "data">>
MCSnapshotDirs == {SnapDir, SnapDirBare, SnapDirDouble}
MCSnapshotName == <<"dump.rdb">>
MCSnapshotPath == <<Slash, "tmp", Slash, "redis-files", Slash, "dump.rdb">>
MCArgLists ==
    { <<>>,
      <<DirFlag, SnapDirBare>>,
      <<DirFlag, SnapDirDouble, DebugFlag>>,
      <<DirFlag, OtherDir>>,
      <<DirFlag, OtherDir, DirFlag, SnapDir>>,
      <<DbfilenameFlag, <<"other.rdb">>>>,
      <<DbfilenameFlag, MCSnapshotName, PortFlag, <<"6380">>>>,
      <<PortFlag, <<"x">>>>,
      <<DirFlag>>,
      <<ReplicaofFlag, <<"localhost", Space, "6379">>>>,
      <<ReplicaofFlag, <<"localhost", Space, Space, "6379">>>>,
      <<<<"--bogus">>>>,
      <<DirFlag, DebugFlag>> }
=============================================================================

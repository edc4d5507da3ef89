------------------------------ MODULE KvStore ------------------------------
(***************************************************************************)
(* The key/value store of the Redis server: src/redis-go/app/store/        *)
(* kv_store.go.  One KvStore holds two Go maps, values and expiries,       *)
(* guarded by one sync.RWMutex.  Every exported method takes the mutex for *)
(* its whole body, so each method is one atomic step here.  A method that  *)
(* returns something is split in two definitions: <Method>Result, the      *)
(* value it returns (computed from the state before the step), and         *)
(* <Method>, the state change.  Modules that compose the store (the        *)
(* command handlers) use both.                                             *)
(*                                                                         *)
(* Stored values: a string  [type |-> "string", str |-> s]  or a stream    *)
(* [type |-> "stream", ids |-> <<id1, id2, ...>>]  whose entry ids are     *)
(* pairs <<T, S>>.  The field/value map of an entry is left out: no        *)
(* operation reads it except to echo it back.  An entry's id is stored as  *)
(* the string fmt.Sprintf("%d-%d", T, S) and read back with strconv.Atoi;  *)
(* on the non-negative integers the code produces that round trip returns  *)
(* the pair it was given, so the pair is kept directly.                    *)
(***************************************************************************)
EXTENDS Integers, Sequences, FiniteSets, FiniteSetsExt

CONSTANTS
    Keys,          \* keys clients use (model values)
    Strings,       \* string payloads clients store
    Nil,           \* absent entry of a map
    MaxTime,       \* the wall clock runs over 1..MaxTime milliseconds
    MaxIdPart,     \* explicit XADD ids and range bounds use T, S in 0..MaxIdPart
    MaxStreamLen,  \* bound on the number of entries of one stream
    PxArgs,        \* integers a client passes as SET ... PX <ms>
    RdbExpiryTimes,\* expiries (ms) a loaded snapshot may carry
    ExpiryWidth    \* width of the uint64 expiry arithmetic, scaled down

ASSUME MaxTime \in Nat \ {0}
ASSUME PxArgs \subseteq Int
ASSUME RdbExpiryTimes \subseteq 1..MaxTime
ASSUME ExpiryWidth \in Nat /\ 2^ExpiryWidth > MaxTime + MaxTime

VARIABLES
    values,    \* k.values   : map[string]interface{}
    expiries,  \* k.expiries : map[string]uint64, absolute ms
    now        \* currentMillis(), the wall clock

storeVars == <<values, expiries, now>>

Modulus == 2^ExpiryWidth

StringValue(s) == [type |-> "string", str |-> s]
StreamValue(ids) == [type |-> "stream", ids |-> ids]
IsStream(k) == values[k] # Nil /\ values[k].type = "stream"

IdParts == 0..MaxIdPart

(* XADD id arguments after strings.Split(seqkey, "-"): "T-S" (explicit),  *)
(* "T-*" (sequence wildcard: Atoi fails on "*"), and an argument with no  *)
(* "-" such as "*" (auto: T is the clock).                                *)
IdSpecs ==
    [kind : {"explicit"}, t : IdParts, s : IdParts]
    \cup [kind : {"seqwild"}, t : IdParts, s : {0}]
    \cup [kind : {"auto"}, t : {0}, s : {0}]

(* XRANGE/XREAD bounds as SplitSeqKey returns them: "-" and "+" are kept  *)
(* symbolic by findl/findr, every other bound becomes a pair (T, S) with   *)
(* S = 0 when "-S" is missing and (0,0) for "*".                          *)
RangeStarts == {[sym |-> "-", id |-> <<0, 0>>]}
                \cup {[sym |-> "id", id |-> i] : i \in IdParts \X IdParts}
RangeEnds   == {[sym |-> "+", id |-> <<0, 0>>]}
                \cup {[sym |-> "id", id |-> i] : i \in IdParts \X IdParts}

-----------------------------------------------------------------------------
(* Errors and results of the methods.                                      *)
ErrInvalidStream   == "expected stream to be a stream"
ErrStreamNotExists == "stream doesn't exist"
ErrZeroId          == "ERR The ID specified in XADD must be greater than 0-0"
ErrNotGreater      == "ERR The ID specified in XADD is equal or smaller than the target stream top item"
Panic              == "runtime error: slice bounds out of range"

(* A method's (result, error) pair.                                        *)
Ok(v)  == [ok |-> TRUE, val |-> v]
Err(e) == [ok |-> FALSE, val |-> e]

(* compare(ltime, lseq, rtime, rseq): 0 same, -1 left bigger, 1 right bigger *)
Compare(l, r) ==
    IF l = r THEN 0
    ELSE IF l[1] > r[1] \/ (l[1] = r[1] /\ l[2] >= r[2]) THEN -1
    ELSE 1

Expired(k) == expiries[k] # Nil /\ now > expiries[k]

(* Get: an expired key's expiry is deleted and ("", false) returned; the   *)
(* value itself stays in k.values.                                         *)
GetResult(k) ==
    IF Expired(k) THEN [ok |-> FALSE, val |-> Nil]
    ELSE [ok |-> values[k] # Nil, val |-> values[k]]

Get(k) ==
    /\ expiries' = IF Expired(k) THEN [expiries EXCEPT ![k] = Nil] ELSE expiries
    /\ UNCHANGED <<values, now>>

(* List ignores the pattern and the expiries: every key of k.values.       *)
ListResult == {k \in Keys : values[k] # Nil}

(* Set: ms is read before the lock is taken, so it may be any earlier      *)
(* clock reading.  An expiry is written only when options.Expiry != 0; it  *)
(* is uint64(px) added to ms in uint64 arithmetic.                         *)
(* Fault: the expiry computed in signed arithmetic, without the uint64    *)
(* wrap-around.                                                            *)
SetSignedExpiry(k, v, px, ms) ==
    /\ expiries' = IF px # 0 THEN [expiries EXCEPT ![k] = ms + px] ELSE expiries
    /\ values' = [values EXCEPT ![k] = v]
    /\ UNCHANGED now

Set(k, v, px, ms) ==
    /\ expiries' = IF px # 0 THEN [expiries EXCEPT ![k] = (ms + px) % Modulus]
                   ELSE expiries
    /\ values' = [values EXCEPT ![k] = v]
    /\ UNCHANGED now

(* The (T, S, wildcard) that SetStream parses out of an XADD id.           *)
ParseSeqKey(spec, ms) ==
    CASE spec.kind = "auto"     -> <<ms, 0, FALSE>>
      [] spec.kind = "explicit" -> <<spec.t, spec.s, FALSE>>
      [] spec.kind = "seqwild"  -> <<spec.t, IF spec.t = 0 THEN 1 ELSE 0, TRUE>>

(* Fault: the top-item check accepts an id equal to the last one.          *)
NewStreamIdAcceptsEqual(ids, spec, ms) ==
    LET p     == ParseSeqKey(spec, ms)
        last  == ids[Len(ids)]
        rseq  == IF Len(ids) # 0 /\ p[3] /\ p[1] = last[1] THEN last[2] + 1
                 ELSE p[2]
    IN  IF p[1] <= 0 /\ p[2] <= 0 THEN Err(ErrZeroId)
        ELSE IF Len(ids) # 0
                /\ (last[1] > p[1] \/ (last[1] = p[1] /\ last[2] > rseq))
             THEN Err(ErrNotGreater)
        ELSE Ok(<<p[1], rseq>>)

(* The id SetStream appends to stream ids, or the error it returns.        *)
NewStreamId(ids, spec, ms) ==
    LET p     == ParseSeqKey(spec, ms)
        rtime == p[1]
        last  == ids[Len(ids)]
        rseq  == IF Len(ids) # 0 /\ p[3] /\ rtime = last[1] THEN last[2] + 1
                 ELSE p[2]
    IN  IF rtime <= 0 /\ p[2] <= 0 THEN Err(ErrZeroId)
        ELSE IF Len(ids) # 0
                /\ (last[1] > rtime \/ (last[1] = rtime /\ last[2] >= rseq))
             THEN Err(ErrNotGreater)
        ELSE Ok(<<rtime, rseq>>)

(* The stream SetStream sees: a missing key is first stored as an empty   *)
(* stream, before any check.                                              *)
StreamAt(k) == IF values[k] = Nil THEN StreamValue(<<>>) ELSE values[k]

SetStreamResult(k, spec, ms) ==
    IF StreamAt(k).type # "stream" THEN Err(ErrInvalidStream)
    ELSE NewStreamId(StreamAt(k).ids, spec, ms)

SetStream(k, spec, ms) ==
    LET res == SetStreamResult(k, spec, ms)
    IN  /\ values' = [values EXCEPT ![k] =
                        IF res.ok
                        THEN StreamValue(Append(StreamAt(k).ids, res.val))
                        ELSE StreamAt(k)]
        /\ UNCHANGED <<expiries, now>>

(* findl: 0-based index of the first entry >= start, else 0.               *)
FindL(start, ids) ==
    LET hits == {i \in 1..Len(ids) : Compare(ids[i], start.id) <= 0}
    IN  IF start.sym = "-" THEN 0
        ELSE IF hits = {} THEN 0 ELSE Min(hits) - 1

(* findr: one past the 0-based index of the last entry <= end,             *)
(* else len(stream) - 1.                                                   *)
FindR(end, ids) ==
    LET hits == {i \in 1..Len(ids) : Compare(ids[i], end.id) >= 0}
    IN  IF end.sym = "+" THEN Len(ids)
        ELSE IF hits = {} THEN Len(ids) - 1 ELSE Max(hits)

(* GetStream returns cast[l:r]; Go panics when l > r or r < 0.            *)
GetStreamResult(k, start, end) ==
    LET l == FindL(start, values[k].ids)
        r == FindR(end, values[k].ids)
    IN  IF values[k] = Nil THEN Err(ErrStreamNotExists)
        ELSE IF values[k].type # "stream" THEN Err(ErrInvalidStream)
        ELSE IF l > r \/ r < 0 THEN Err(Panic)
        ELSE Ok(SubSeq(values[k].ids, l + 1, r))

(* xreadfindl: 0-based index of the first entry > start, else 0.           *)
XReadFindL(start, ids) ==
    LET hits == {i \in 1..Len(ids) : Compare(ids[i], start) < 0}
    IN  IF hits = {} THEN 0 ELSE Min(hits) - 1

XReadStreamResult(k, start) ==
    IF values[k] = Nil THEN Err(ErrStreamNotExists)
    ELSE IF values[k].type # "stream" THEN Err(ErrInvalidStream)
    ELSE Ok(SubSeq(values[k].ids, XReadFindL(start, values[k].ids) + 1,
                   Len(values[k].ids)))

(* The wall clock advances by one millisecond.                             *)
Tick ==
    /\ now < MaxTime
    /\ now' = now + 1
    /\ UNCHANGED <<values, expiries>>

-----------------------------------------------------------------------------
(* Init: NewKvStore followed by InitialiseFromRdbFile, which copies the    *)
(* keys and expiries of the snapshot's single database (strings only; an   *)
(* expiry is only read together with its key).  No file: empty maps.       *)
RdbLoaded ==
    /\ values \in [Keys -> {Nil} \cup {StringValue(s) : s \in Strings}]
    /\ expiries \in [Keys -> {Nil} \cup RdbExpiryTimes]
    /\ \A k \in Keys : expiries[k] # Nil => values[k] # Nil

KvInit ==
    /\ now = 1
    /\ RdbLoaded

(* The store on its own: any client may call any method at any time.      *)
KvNext ==
    \/ \E k \in Keys : Get(k)
    \/ \E k \in Keys, s \in Strings, px \in PxArgs, ms \in 1..now :
          Set(k, StringValue(s), px, ms)
    \/ \E k \in Keys, spec \in IdSpecs, ms \in 1..now :
          /\ IsStream(k) => Len(values[k].ids) < MaxStreamLen
          /\ SetStream(k, spec, ms)
    \/ Tick

KvSpec == KvInit /\ [][KvNext]_storeVars

-----------------------------------------------------------------------------
(* The store's type when the strings it holds are strs.                   *)
StoreTypeOK(strs) ==
    /\ DOMAIN values = Keys
    /\ \A k \in Keys :
          \/ values[k] = Nil
          \/ values[k] \in [type : {"string"}, str : strs]
          \/ values[k] \in [type : {"stream"}, ids : Seq(Nat \X Nat)]
    /\ expiries \in [Keys -> {Nil} \cup 0..(Modulus - 1)]
    /\ now \in 1..MaxTime

KvTypeOK == StoreTypeOK(Strings)

(* Stream order (spec 3, 4.3): whatever mix of explicit, "T-*" and "*"    *)
(* XADDs SetStream has accepted, the ids of every stream are strictly     *)
(* increasing in (T, S) order and none is 0-0.                             *)
StreamIdsIncreasing ==
    \A k \in Keys : IsStream(k) =>
        LET ids == values[k].ids IN
        /\ \A i \in 1..Len(ids) : ids[i] # <<0, 0>>
        /\ \A i \in 1..Len(ids) - 1 :
              \/ ids[i][1] < ids[i + 1][1]
              \/ ids[i][1] = ids[i + 1][1] /\ ids[i][2] < ids[i + 1][2]

(* Lexicographic order on ids, as spec 4.3 defines the comparison.         *)
IdLeq(a, b) == a[1] < b[1] \/ (a[1] = b[1] /\ a[2] <= b[2])

(* XRANGE k start end (spec 4.3, 8.5) returns exactly the entries whose id *)
(* lies in the closed interval [start, end]; "-" and "+" are unbounded.    *)
XRangeInclusive ==
    \A k \in Keys, start \in RangeStarts, end \in RangeEnds : IsStream(k) =>
        LET res == GetStreamResult(k, start, end) IN
        res.ok /\ res.val =
            SelectSeq(values[k].ids,
                LAMBDA id : /\ start.sym = "-" \/ IdLeq(start.id, id)
                            /\ end.sym = "+" \/ IdLeq(id, end.id))

(* XREAD streams k start (spec 4.3, 8.5) returns exactly the entries whose *)
(* id is strictly greater than start.                                      *)
XReadExclusive ==
    \A k \in Keys, start \in IdParts \X IdParts : IsStream(k) =>
        LET res == XReadStreamResult(k, start) IN
        res.ok /\ res.val =
            SelectSeq(values[k].ids, LAMBDA id : ~IdLeq(id, start))

(* The stream reads return exactly the entries of their interval: XRANGE  *)
(* (GetStream with findl/findr) the closed one, XREAD (XReadStream with    *)
(* xreadfindl) the one open at start, on every stream SetStream can build. *)
StreamReadsExact == XRangeInclusive /\ XReadExclusive
=============================================================================

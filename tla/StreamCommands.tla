--------------------------- MODULE StreamCommands ---------------------------
(***************************************************************************)
(* The stream commands (src/redis-go/app/cmd/xadd.go, xrange.go, xread.go) *)
(* over the KvStore, beside the SETs of other clients.  XADD and XRANGE   *)
(* make one store call, which holds the store mutex for its whole body;    *)
(* XREAD locks once per key (XReadStream) and is taken here as one step,   *)
(* which ReadFromStartReturnsAcked, reading one key, does not rely on.  A *)
(* handler is one step, and the order of the steps of different clients *)
(* is all that interleaving adds.  reply is the last reply written; a    *)
(* handler error closes only that client's connection, a slice panic in *)
(* GetStream ends the process.                                             *)
(*                                                                         *)
(* An XREAD argument is a record: [kind |-> "word"] for a word such as     *)
(* "streams", [kind |-> "key", key |-> k] for a key name and               *)
(* [kind |-> "id", id |-> <<T, S>>] for an id "T-S".                       *)
(***************************************************************************)
EXTENDS KvStore

CONSTANTS
    XRangeBounds,  \* the <<start, end>> pairs clients send to XRANGE
    XReadArgs      \* the argument lists clients send after XREAD

VARIABLES
    reply,   \* the last reply: its command and whether it was an error
    acked,   \* history: [Keys -> ids XADD replied with since k was last SET]
    up       \* FALSE once a handler has panicked and the process is gone

vars == <<storeVars, reply, acked, up>>

NoKey == "NoKey"   \* an argument in a key position that names no key

-----------------------------------------------------------------------------
(* HandleXAdd: Store.SetStream; an error becomes a RESP error reply and   *)
(* the connection stays open.                                              *)
HandleXAdd(k, spec) ==
    \E ms \in 1..now :
    LET res == SetStreamResult(k, spec, ms) IN
    /\ up
    /\ IsStream(k) => Len(values[k].ids) < MaxStreamLen
    /\ SetStream(k, spec, ms)
    /\ acked' = IF res.ok THEN [acked EXCEPT ![k] = Append(@, res.val)] ELSE acked
    /\ reply' = [cmd |-> "xadd", ok |-> res.ok]
    /\ UNCHANGED up

(* HandleXRange: Store.GetStream(key, start, end); its error is returned  *)
(* to handleConnection, the slice panic ends the process.                  *)
HandleXRange(k, bounds) ==
    LET res == GetStreamResult(k, bounds[1], bounds[2]) IN
    /\ up
    /\ reply' = [cmd |-> "xrange", ok |-> res.ok]
    /\ up' = (res # Err(Panic))
    /\ UNCHANGED <<storeVars, acked>>

(* Go's integer division, which truncates toward zero.                     *)
GoDiv(a, b) == IF a >= 0 THEN a \div b ELSE -((-a) \div b)

(* SplitSeqKey on an XREAD range: "T-S" is (T, S), anything Atoi rejects  *)
(* is (0, 0).                                                              *)
SplitSeqKey(a) == IF a.kind = "id" THEN a.id ELSE <<0, 0>>

KeyOf(a) == IF a.kind = "key" THEN a.key ELSE NoKey

(* Store.XReadStream(key, start) for an argument in a key position.        *)
XReadOne(a, start) ==
    IF KeyOf(a) = NoKey THEN Err(ErrStreamNotExists)
    ELSE XReadStreamResult(KeyOf(a), start)

(* Fault: the keys taken from Elements[1], the word "streams" included.  *)
XReadResultKeysFromFirst(args) ==
    LET count  == GoDiv(Len(args) + 1 - 2, 2)
        keys   == SubSeq(args, 1, count)
        ranges == SubSeq(args, count + 2, Len(args))
        read(i) == XReadOne(keys[i], SplitSeqKey(ranges[i]))
        errs   == {i \in 1..count : ~read(i).ok}
    IN  IF errs = {} THEN Ok([i \in 1..count |->
                                [key |-> KeyOf(keys[i]), ids |-> read(i).val]])
        ELSE read(Min(errs))

(* HandleXRead on Elements = <<"XREAD">> \o args: count is                 *)
(* (len(Elements) - 2) / 2, the keys are Elements[2 .. count+1] and the    *)
(* ranges Elements[count+2 ..]; key i is read from range i, and the first  *)
(* error is returned.                                                      *)
XReadResult(args) ==
    LET count  == GoDiv(Len(args) + 1 - 2, 2)
        keys   == SubSeq(args, 2, count + 1)
        ranges == SubSeq(args, count + 2, Len(args))
        read(i) == XReadOne(keys[i], SplitSeqKey(ranges[i]))
        errs   == {i \in 1..count : ~read(i).ok}
    IN  IF errs = {} THEN Ok([i \in 1..count |->
                                [key |-> KeyOf(keys[i]), ids |-> read(i).val]])
        ELSE read(Min(errs))

HandleXRead(args) ==
    /\ up
    /\ reply' = [cmd |-> "xread", ok |-> XReadResult(args).ok]
    /\ UNCHANGED <<storeVars, acked, up>>

(* Another client's SET (Store.Set), which replaces whatever k held.       *)
StoreSet(k, s, px) ==
    \E ms \in 1..now :
    /\ up
    /\ Set(k, StringValue(s), px, ms)
    /\ acked' = [acked EXCEPT ![k] = <<>>]
    /\ reply' = [cmd |-> "set", ok |-> TRUE]
    /\ UNCHANGED up

(* Another client's GET or TYPE (Store.Get), which may delete an expiry.  *)
StoreGet(k) ==
    /\ up
    /\ Get(k)
    /\ UNCHANGED <<reply, acked, up>>

ClockTick ==
    /\ Tick
    /\ UNCHANGED <<reply, acked, up>>

-----------------------------------------------------------------------------
Init ==
    /\ KvInit
    /\ acked = [k \in Keys |-> <<>>]
    /\ reply = [cmd |-> "none", ok |-> TRUE]
    /\ up = TRUE

Next ==
    \/ \E k \in Keys, spec \in IdSpecs : HandleXAdd(k, spec)
    \/ \E k \in Keys, b \in XRangeBounds : HandleXRange(k, b)
    \/ \E args \in XReadArgs : HandleXRead(args)
    \/ \E k \in Keys, s \in Strings, px \in PxArgs : StoreSet(k, s, px)
    \/ \E k \in Keys : StoreGet(k)
    \/ ClockTick

Spec == Init /\ [][Next]_vars

-----------------------------------------------------------------------------
TypeOK ==
    /\ KvTypeOK
    /\ acked \in [Keys -> Seq(Nat \X Nat)]
    /\ up \in BOOLEAN

FullRange == <<[sym |-> "-", id |-> <<0, 0>>], [sym |-> "+", id |-> <<0, 0>>]>>

FromStart(k) == <<[kind |-> "word"], [kind |-> "key", key |-> k],
                  [kind |-> "id", id |-> <<0, 0>>]>>

(* Reading a stream from its beginning returns exactly the entries XADD   *)
(* acknowledged, in the order it acknowledged them (spec 8.4: a rejected   *)
(* XADD leaves the stream unchanged; 8.5: XRANGE k - + returns the full    *)
(* stream; XREAD is exclusive of its start, and every id is above 0-0).    *)
(* The reads are pure and atomic, so what XRANGE k - + and XREAD streams k *)
(* 0-0 would answer is evaluated in every state: through findl/findr,      *)
(* xreadfindl and HandleXRead's split of its arguments.                    *)
ReadFromStartReturnsAcked ==
    \A k \in Keys : IsStream(k) =>
        /\ GetStreamResult(k, FullRange[1], FullRange[2]) = Ok(acked[k])
        /\ XReadResult(FromStart(k)) = Ok(<<[key |-> k, ids |-> acked[k]]>>)

(* XREAD streams k1..kn r1..rn with keys and ranges that do not pair up is *)
(* a bad argument count, a client error (spec 7).  HandleXRead computes    *)
(* count = (len - 2) / 2 and reads key i from range i: with an odd count   *)
(* the first range is the next key's name, which SplitSeqKey reads as 0-0. *)
XReadRejectsUnpaired ==
    \A args \in XReadArgs : Len(args) % 2 = 0 => ~XReadResult(args).ok

(* A key whose expiry has passed is absent (spec 3), so XADD to an expired *)
(* string key creates a stream.  SetStream looks only at k.values and      *)
(* rejects the stale string as not a stream.                               *)
XAddTreatsExpiredAsAbsent ==
    \A k \in Keys, spec \in IdSpecs :
        Expired(k) => SetStreamResult(k, spec, now) # Err(ErrInvalidStream)

(* A rejected XADD leaves the key as it was (spec 8.4), so every stream    *)
(* holds at least one entry.  SetStream stores an empty stream for a       *)
(* missing key before it validates the id, and keeps it when it rejects.   *)
StreamsHoldAnEntry ==
    \A k \in Keys : IsStream(k) => values[k].ids # <<>>
=============================================================================

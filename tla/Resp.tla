-------------------------------- MODULE Resp --------------------------------
(***************************************************************************)
(* The RESP codec of src/redis-go/app/resp: serialisation (AsRespString of *)
(* resp_types.go), the lexer with its ByteCounter (lexer.go) and the       *)
(* recursive parser (parser.go).                                           *)
(*                                                                         *)
(* A byte is a one-character string, except CR and LF.  The input is a     *)
(* byte sequence `in` and the lexer state a record [pos, count]: pos is    *)
(* how many bytes have been drawn from the underlying reader and count is  *)
(* the lexer's ByteCounter, which the code updates on its own.             *)
(*                                                                         *)
(* A parse yields a SET of outcomes, because bufio.Reader.Read may return  *)
(* fewer bytes than asked for (ShortReads).  An outcome is "starved" when  *)
(* it ran into the end of the bytes received so far; on an open connection *)
(* the Go code would block there instead.                                  *)
(***************************************************************************)
EXTENDS Integers, Sequences, SequencesExt

CONSTANT ShortReads   \* a Read into a bulk payload may come back short

CR == "CR"
LF == "LF"
CRLF == <<CR, LF>>
DigitBytes == <<"0", "1", "2", "3", "4", "5", "6", "7", "8", "9">>
Tags == {"+", "-", "$", "*", ":", "_", "#"}

SimpleString(s) == [type |-> "simple", str |-> s]
RespError(s) == [type |-> "error", str |-> s]
BulkString(s) == [type |-> "bulk", str |-> s]
RespArray(es) == [type |-> "array", elems |-> es]
RespInteger(n) == [type |-> "integer", n |-> n]
NoValue == [type |-> "none"]

-----------------------------------------------------------------------------
(* strconv.Itoa.                                                           *)
RECURSIVE Itoa(_)
Itoa(n) ==
    IF n < 0 THEN <<"-">> \o Itoa(-n)
    ELSE IF n < 10 THEN <<DigitBytes[n + 1]>>
    ELSE Itoa(n \div 10) \o <<DigitBytes[(n % 10) + 1]>>

IsDigit(b) == \E d \in 1..10 : DigitBytes[d] = b
DigitOf(b) == CHOOSE d \in 0..9 : DigitBytes[d + 1] = b

RECURSIVE Unsigned(_)
Unsigned(s) == IF s = <<>> THEN 0 ELSE 10 * Unsigned(Front(s)) + DigitOf(Last(s))

(* strconv.Atoi: an optional sign, then at least one decimal digit.        *)
Magnitude(s) == IF s # <<>> /\ s[1] \in {"+", "-"} THEN Tail(s) ELSE s
AtoiOk(s) ==
    /\ Magnitude(s) # <<>>
    /\ \A i \in 1..Len(Magnitude(s)) : IsDigit(Magnitude(s)[i])
Atoi(s) == IF s[1] = "-" THEN -Unsigned(Magnitude(s)) ELSE Unsigned(Magnitude(s))

(* AsRespString of each RespType.  An empty bulk string is written as the  *)
(* null bulk string $-1.                                                   *)
RECURSIVE AsRespString(_)
AsRespString(v) ==
    CASE v.type = "simple" -> <<"+">> \o v.str \o CRLF
      [] v.type = "error" -> <<"-">> \o v.str \o CRLF
      [] v.type = "bulk" /\ v.str = <<>> -> <<"$", "-", "1">> \o CRLF
      [] v.type = "bulk" -> <<"$">> \o Itoa(Len(v.str)) \o CRLF \o v.str \o CRLF
      [] v.type = "array" ->
            <<"*">> \o Itoa(Len(v.elems)) \o CRLF
            \o FlattenSeq([i \in 1..Len(v.elems) |-> AsRespString(v.elems[i])])
      [] v.type = "integer" -> <<":">> \o Itoa(v.n) \o CRLF

-----------------------------------------------------------------------------
Out(kind, val, lx, starved) ==
    [kind |-> kind, val |-> val, lx |-> lx, starved |-> starved]

Avail(in, lx) == Len(in) - lx.pos

(* bufio ReadString('\n'): through the first LF, or all that is left.      *)
LineAt(in, lx) ==
    LET rest == SubSeq(in, lx.pos + 1, Len(in))
        i == SelectInSeq(rest, LAMBDA b : b = LF)
    IN IF i = 0 THEN rest ELSE SubSeq(rest, 1, i)

(* Lexer.NextToken with readLine: ByteCounter counts the tag byte even at  *)
(* EOF, then the whole line; line[:len(line)-2] panics on a line shorter   *)
(* than two bytes.  The token's tag travels in val.                        *)
NextToken(in, lx) ==
    LET lx1 == [pos |-> lx.pos + 1, count |-> lx.count + 1] IN
    IF Avail(in, lx) = 0 THEN Out("eof", NoValue, [lx EXCEPT !.count = @ + 1], TRUE)
    ELSE LET b == in[lx.pos + 1]
             line == LineAt(in, lx1)
         IN CASE b \notin Tags -> Out("err", NoValue, lx1, FALSE)
              [] b = "_" -> Out("ok", [tag |-> b, value |-> <<>>], lx1, FALSE)
              [] Len(line) < 2 -> Out("panic", NoValue, lx1, TRUE)
              [] OTHER -> Out("ok", [tag |-> b, value |-> SubSeq(line, 1, Len(line) - 2)],
                              [pos |-> lx1.pos + Len(line), count |-> lx1.count + Len(line)],
                              Last(line) # LF)

(* Lexer.ConsumeBytes: make([]byte, count) panics for a negative count; a  *)
(* Read that returns fewer bytes than count is an error and the bytes it   *)
(* did draw are not counted.                                               *)
ConsumeBytes(in, lx, n) ==
    LET full == IF n < Avail(in, lx) THEN n ELSE Avail(in, lx)
        reads == IF ShortReads THEN 1..full ELSE {full}
    IN CASE n < 0 -> {Out("panic", NoValue, lx, FALSE)}
         [] n = 0 -> {Out("ok", <<>>, lx, FALSE)}
         [] Avail(in, lx) = 0 -> {Out("err", NoValue, lx, TRUE)}
         [] OTHER ->
              {IF k = n
               THEN Out("ok", SubSeq(in, lx.pos + 1, lx.pos + n),
                        [pos |-> lx.pos + n, count |-> lx.count + n], FALSE)
               ELSE Out("err", NoValue, [lx EXCEPT !.pos = @ + k], k = Avail(in, lx))
               : k \in reads}

(* Lexer.ConsumeCrlf: Peek(2) and discard a CRLF; anything else is left in *)
(* place (the parser ignores the error).                                   *)
ConsumeCrlf(in, lx) ==
    IF Avail(in, lx) >= 2 /\ SubSeq(in, lx.pos + 1, lx.pos + 2) = CRLF
    THEN [pos |-> lx.pos + 2, count |-> lx.count + 2]
    ELSE lx

(* Fault: ConsumeCrlf peeks one byte too many.                            *)
CrlfStarvedOffByOne(in, lx) == Avail(in, lx) < 3

(* ConsumeCrlf's Peek(2) blocks until two bytes are buffered.              *)
CrlfStarved(in, lx) == Avail(in, lx) < 2

RECURSIVE Parse(_, _)

(* Parser.parseBulkString.                                                 *)
ParseBulkString(in, t) ==
    IF ~AtoiOk(t.val.value) THEN {Out("err", NoValue, t.lx, t.starved)}
    ELSE {IF o.kind = "ok"
          THEN Out("ok", BulkString(o.val), ConsumeCrlf(in, o.lx),
                   t.starved \/ CrlfStarved(in, o.lx))
          ELSE [o EXCEPT !.starved = @ \/ t.starved]
          : o \in ConsumeBytes(in, t.lx, Atoi(t.val.value))}

(* The element loop of Parser.parseArray; an error ends it.                *)
RECURSIVE Elements(_, _, _, _, _)
Elements(in, lx, k, acc, starved) ==
    IF k = 0 THEN {Out("ok", RespArray(acc), lx, starved)}
    ELSE UNION {IF o.kind = "ok"
                THEN Elements(in, o.lx, k - 1, Append(acc, o.val), starved \/ o.starved)
                ELSE {[o EXCEPT !.starved = @ \/ starved]}
                : o \in Parse(in, lx)}

(* Parser.parseArray: make([]RespType, 0, count) panics for count < 0.     *)
ParseArray(in, t) ==
    CASE ~AtoiOk(t.val.value) -> {Out("err", NoValue, t.lx, t.starved)}
      [] Atoi(t.val.value) < 0 -> {Out("panic", NoValue, t.lx, t.starved)}
      [] OTHER -> Elements(in, t.lx, Atoi(t.val.value), <<>>, t.starved)

(* Parser.Parse: only simple strings, bulk strings and arrays are read.    *)
Parse(in, lx) ==
    LET t == NextToken(in, lx) IN
    CASE t.kind # "ok" -> {t}
      [] t.val.tag = "+" -> {Out("ok", SimpleString(t.val.value), t.lx, t.starved)}
      [] t.val.tag = "$" -> ParseBulkString(in, t)
      [] t.val.tag = "*" -> ParseArray(in, t)
      [] OTHER -> {Out("err", NoValue, t.lx, t.starved)}
=============================================================================

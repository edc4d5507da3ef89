---------------------------- MODULE HttpRouter ----------------------------
(***************************************************************************)
(* The route matcher of the companion HTTP server                          *)
(* (src/http-server-go/app/lib/http/router.go).  A route pattern and a     *)
(* request path are sequences of one-character strings; literal names     *)
(* such as "echo" are abstracted to single characters, while "/", "{" and  *)
(* "}" keep their role.  getPathSegments and match are translated loop for *)
(* loop over a bufio.Reader on the string: Peek(1), Discard(1) of a        *)
(* leading "/", ReadString('/') and TrimSuffix.                            *)
(***************************************************************************)
EXTENDS Integers, Sequences, SequencesExt

CONSTANT Upper    \* strings.ToLower on one character: upper -> lower

LowerChar(ch) == IF ch \in DOMAIN Upper THEN Upper[ch] ELSE ch

ToLower(s) == [i \in DOMAIN s |-> LowerChar(s[i])]

EmptyMap == [x \in {} |-> x]

(* reader.ReadString('/'): the bytes up to and including the first "/",   *)
(* or all of them (with io.EOF) when there is none.                        *)
ReadString(s) ==
    LET i == SelectInSeq(s, LAMBDA ch : ch = "/")
    IN  IF i = 0 THEN [got |-> s, rest |-> <<>>]
                 ELSE [got |-> SubSeq(s, 1, i), rest |-> SubSeq(s, i + 1, Len(s))]

(* strings.TrimSuffix(got, "/") *)
TrimSlash(g) == IF g # <<>> /\ Last(g) = "/" THEN Front(g) ELSE g

(* if c[0] == '/' { reader.Discard(1) } *)
DiscardSlash(s) == IF s # <<>> /\ Head(s) = "/" THEN Tail(s) ELSE s

(* One part of a pattern: {name} is a variable whose name keeps its case; *)
(* a literal part is lowered.                                              *)
Segment(part) ==
    IF part # <<>> /\ Head(part) = "{" /\ Last(part) = "}"
    THEN [part |-> SubSeq(part, 2, Len(part) - 1), isVar |-> TRUE]
    ELSE [part |-> ToLower(part), isVar |-> FALSE]

(* getPathSegments: until Peek(1) reports EOF, discard one leading "/",   *)
(* read to the next "/" and make a segment of what was read.               *)
RECURSIVE getPathSegments(_)
getPathSegments(route) ==
    IF route = <<>> THEN <<>>
    ELSE LET r == ReadString(DiscardSlash(route))
         IN  <<Segment(TrimSlash(r.got))>> \o getPathSegments(r.rest)

NoMatch == [ok |-> FALSE, vars |-> EmptyMap]

(* The loop of match from segment n on: s is what is left to read.  With  *)
(* every segment used the route matches iff nothing is left; with input    *)
(* left over, or none left while segments remain, it does not.             *)
RECURSIVE MatchFrom(_, _, _)
MatchFrom(s, segs, params) ==
    CASE segs = <<>> -> IF s = <<>> THEN [ok |-> TRUE, vars |-> params]
                                   ELSE NoMatch
      [] s = <<>>    -> NoMatch
      [] OTHER ->
           LET r        == ReadString(DiscardSlash(s))
               got      == TrimSlash(r.got)
               expected == Head(segs)
           IN  IF expected.isVar
               THEN MatchFrom(r.rest, Tail(segs), (expected.part :> got) @@ params)
               ELSE IF got # expected.part THEN NoMatch
                    ELSE MatchFrom(r.rest, Tail(segs), params)

(* match(route, segments): the route is lowered first, so variables bind  *)
(* the lowered text.                                                       *)
match(route, segments) == MatchFrom(ToLower(route), segments, EmptyMap)

(* NewRouteHandler: the pattern's segments and the lowered method. *)
NewRouteHandler(method, pattern, handle) ==
    [method |-> ToLower(method), segments |-> getPathSegments(pattern),
     handle |-> handle]

(* HttpPipeline.Handle's loop: the first handler whose method equals the  *)
(* request's and whose segments match the path, else NotFoundHandlerFunc. *)
Dispatch(handlers, method, path) ==
    LET Fits(h) == h.method = method /\ match(path, h.segments).ok
        i == SelectInSeq(handlers, Fits)
    IN  IF i = 0 THEN [handle |-> "notfound", vars |-> EmptyMap]
                 ELSE [handle |-> handlers[i].handle,
                       vars |-> match(path, handlers[i].segments).vars]
=============================================================================

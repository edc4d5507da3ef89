--------------------------- MODULE MCHttpServer ---------------------------
EXTENDS HttpServer

MCUpper == ("G" :> "g") @@ ("P" :> "p") @@ ("E" :> "e") @@ ("X" :> "x") @@
           ("A" :> "a")

(* A request: method, path, User-Agent value, Accept-Encoding tokens,     *)
(* body, whether Content-Type and Content-Length were sent, how many body  *)
(* bytes the first read returns, and whether the client hung up early.    *)
Req(m, p, ua, enc, body, framed, first, cut) ==
    [method |-> m, path |-> p, ua |-> ua, enc |-> enc, body |-> body,
     framed |-> framed, firstRead |-> first, cut |-> cut]

Get(p) == Req(<<"G">>, p, Absent, <<>>, <<>>, FALSE, 0, FALSE)
Post(p, body, first) == Req(<<"P">>, p, Absent, <<>>, body, TRUE, first, FALSE)

FileA == <<"/", "f", "/", "a">>
FileB == <<"/", "f", "/", "b">>

(* Every route, 404, the lowered method and path, a gzip client, two      *)
(* writers of one file with bodies of different lengths, a body split     *)
(* over two reads, and a client that hangs up early.                       *)
MCRequests ==
    { Get(<<"/">>),
      Req(<<"g">>, <<"/">>, Absent, <<"x", ", ", "gzip">>, <<>>, FALSE, 0, FALSE),
      Get(<<"/", "E", "/", "X">>),
      Req(<<"G">>, <<"/", "u">>, <<"A">>, <<>>, <<>>, FALSE, 0, FALSE),
      Get(<<"/", "u">>),
      Get(<<"/", "x">>),
      Get(FileA),
      Get(FileB),
      Req(<<"G">>, FileA, Absent, <<"gzip">>, <<>>, FALSE, 0, FALSE),
      Post(FileA, <<"1", "2">>, 2),
      Post(FileA, <<"3">>, 1),
      Post(FileB, <<"1", "2">>, 1),
      Req(<<"G">>, <<"/">>, Absent, <<>>, <<>>, FALSE, 0, TRUE) }

MCFileNames == {<<"a">>, <<"b">>}

MCInitFiles == (<<"a">> :> <<"0">>) @@ (<<"b">> :> Absent)
=============================================================================

---------------------------- MODULE HttpServer ----------------------------
(***************************************************************************)
(* The companion HTTP/1.1 server (src/http-server-go/app).  main accepts   *)
(* connections and runs HttpPipeline.Handle on each in its own goroutine;  *)
(* the goroutines share only the files directory and the process, which    *)
(* os.Exit or a panic in any of them ends.                                 *)
(*                                                                         *)
(* A connection's request is fixed when it is accepted.  Reading it,      *)
(* routing it and the handlers that touch no file are one step, since     *)
(* nothing in them is shared; the file handlers are split at their system  *)
(* calls: GET opens (and stats) the file and later streams it, POST        *)
(* creates (truncates) the file and later writes the body.                 *)
(***************************************************************************)
EXTENDS HttpRouter, FiniteSets

CONSTANTS
    Conns,        \* accepted connections
    Requests,     \* the requests a client may send, as records
    FileNames,    \* the names a request may address in the directory
    InitFiles,    \* the directory's contents at start
    Absent,       \* no such file
    MaxFile       \* bound on a file's length

VARIABLES
    req,      \* req[c]: the request sent on connection c
    pc,       \* pc[c]: where c's Handle goroutine is
    open,     \* open[c]: c not yet closed by the server
    resp,     \* resp[c]: what was written on c, or NoResponse
    stat,     \* stat[c]: the size fileInfo.Size() returned to a GET
    files,    \* the files directory
    up        \* the process is running

vars == <<req, pc, open, resp, stat, files, up>>

NoResponse == [status |-> "none"]
NoBody == <<"nil">>               \* res.Body left nil by Send
Compressed == -1                  \* Content-Length of a gzipped body
NoLength == 0                     \* no Content-Length header
ErrText == <<"!">>                \* "expected user-agent header to be sent"
Crash == [status |-> "crash"]

(* main's handler table, patterns abstracted: "echo" is "e",             *)
(* "user-agent" is "u", "files" is "f", {command} is {c}, {fileName}      *)
(* is {N}; "GET" and "POST" are "G" and "P".                               *)
Handlers ==
    << NewRouteHandler(<<"G">>, <<"/">>, "root"),
       NewRouteHandler(<<"G">>, <<"/", "e", "/", "{", "c", "}">>, "echo"),
       NewRouteHandler(<<"G">>, <<"/", "u">>, "uagent"),
       NewRouteHandler(<<"G">>, <<"/", "f", "/", "{", "N", "}">>, "fileread"),
       NewRouteHandler(<<"P">>, <<"/", "f", "/", "{", "N", "}">>, "filewrite") >>

(* readRequestLine lowers the method; Handle dispatches on it and on the  *)
(* path.                                                                   *)
Route(q) == Dispatch(Handlers, ToLower(q.method), q.path)

FileOf(c) == Route(req[c]).vars["N"]

(* Handle's reads: a request cut short before the blank line fails        *)
(* readRequestLine or panics indexing Peek(2)'s result; with Content-Type *)
(* and Content-Length, readBody's single reader.Read must return the      *)
(* whole body, and returns only what the first segment carried.           *)
ReadOk(q) ==
    /\ ~q.cut
    /\ q.framed => (q.body = <<>> \/ q.firstRead = Len(q.body))

Body(q) == IF q.framed THEN q.body ELSE <<>>

(* strings.Split(res.Encoding, ", ") has an element "gzip" (the only key  *)
(* of validencodings).  A header value is a sequence of tokens.           *)
GzipChosen(enc) ==
    \E i \in 1..Len(enc) :
        /\ enc[i] = "gzip"
        /\ i = 1 \/ enc[i - 1] = ", "
        /\ i = Len(enc) \/ enc[i + 1] = ", "

(* serializeResponse: with gzip chosen the body is read to its end and    *)
(* compressed, and the nil reader left by Send makes io.Copy dereference   *)
(* nil (a panic, Crash); otherwise Content-Length is written only when  *)
(* positive and the body is copied as it is.                              *)
serializeResponse(status, ctype, body, length, enc) ==
    CASE GzipChosen(enc) /\ body = NoBody -> Crash
      [] GzipChosen(enc) ->
           [status |-> status, ctype |-> ctype, gzip |-> TRUE,
            clen |-> Compressed, data |-> body]
      [] OTHER ->
           [status |-> status, ctype |-> ctype, gzip |-> FALSE,
            clen |-> IF length > 0 THEN length ELSE NoLength,
            data |-> IF body = NoBody THEN <<>> ELSE body]

(* Send / SendPlain / SendFileStream: serialize, then conn.Close.  A      *)
(* panic ends the process.                                                 *)
Reply(c, r) ==
    IF r = Crash
    THEN /\ up' = FALSE
         /\ UNCHANGED <<pc, open, resp>>
    ELSE /\ resp' = [resp EXCEPT ![c] = r]
         /\ open' = [open EXCEPT ![c] = FALSE]
         /\ pc' = [pc EXCEPT ![c] = "done"]
         /\ UNCHANGED up

Send(c, status) == Reply(c, serializeResponse(status, "", NoBody, 0, req[c].enc))

SendPlain(c, status, text) ==
    Reply(c, serializeResponse(status, "text/plain", text, Len(text), req[c].enc))

Serving(c, handle) ==
    /\ up
    /\ pc[c] = "read"
    /\ ReadOk(req[c])
    /\ Route(req[c]).handle = handle
-----------------------------------------------------------------------------
Init ==
    /\ req \in [Conns -> Requests]
    /\ pc = [c \in Conns |-> "read"]
    /\ open = [c \in Conns |-> TRUE]
    /\ resp = [c \in Conns |-> NoResponse]
    /\ stat = [c \in Conns |-> 0]
    /\ files = InitFiles
    /\ up = TRUE

(* A read error is logged with Fatal and os.Exit(1); a short header panics. *)
ReadFails(c) ==
    /\ up
    /\ pc[c] = "read"
    /\ ~ReadOk(req[c])
    /\ up' = FALSE
    /\ UNCHANGED <<req, pc, open, resp, stat, files>>

ServeRoot(c) ==
    /\ Serving(c, "root")
    /\ Send(c, "200 OK")
    /\ UNCHANGED <<req, stat, files>>

(* The route always binds command, so the 500 branch is never taken. *)
ServeEcho(c) ==
    /\ Serving(c, "echo")
    /\ SendPlain(c, "200 OK", Route(req[c]).vars["c"])
    /\ UNCHANGED <<req, stat, files>>

(* readHeaderLines lowers header values, the User-Agent included. *)
ServeUserAgent(c) ==
    /\ Serving(c, "uagent")
    /\ IF req[c].ua = Absent
       THEN SendPlain(c, "500 Internal Server Error", ErrText)
       ELSE SendPlain(c, "200 OK", ToLower(req[c].ua))
    /\ UNCHANGED <<req, stat, files>>

ServeNotFound(c) ==
    /\ Serving(c, "notfound")
    /\ Send(c, "404 Not Found")
    /\ UNCHANGED <<req, stat, files>>

(* GET /files/{fileName}: os.Open, and for a missing file 404.  An open    *)
(* file is then stat'ed; files are never removed, so opening and stat'ing  *)
(* in one step loses no outcome.                                           *)
OpenFile(c) ==
    /\ Serving(c, "fileread")
    /\ IF files[FileOf(c)] = Absent
       THEN /\ Send(c, "404 Not Found")
            /\ UNCHANGED stat
       ELSE /\ stat' = [stat EXCEPT ![c] = Len(files[FileOf(c)])]
            /\ pc' = [pc EXCEPT ![c] = "stream"]
            /\ UNCHANGED <<open, resp, up>>
    /\ UNCHANGED <<req, files>>

(* Fault: SendFileStream returns without r.conn.Close(). *)
StreamFileUnclosed(c) ==
    /\ up
    /\ pc[c] = "stream"
    /\ resp' = [resp EXCEPT ![c] = serializeResponse("200 OK",
                   "application/octet-stream", files[FileOf(c)], stat[c], req[c].enc)]
    /\ pc' = [pc EXCEPT ![c] = "done"]
    /\ UNCHANGED <<req, open, stat, files, up>>

(* SendFileStream: Content-Length is the size stat returned, the body is  *)
(* what reading the file returns now.                                      *)
StreamFile(c) ==
    /\ up
    /\ pc[c] = "stream"
    /\ Reply(c, serializeResponse("200 OK", "application/octet-stream",
                                  files[FileOf(c)], stat[c], req[c].enc))
    /\ UNCHANGED <<req, stat, files>>

(* POST /files/{fileName}: os.Create creates the file or truncates it. *)
CreateFile(c) ==
    /\ Serving(c, "filewrite")
    /\ files' = [files EXCEPT ![FileOf(c)] = <<>>]
    /\ pc' = [pc EXCEPT ![c] = "write"]
    /\ UNCHANGED <<req, open, resp, stat, up>>

(* Fault: the file opened for appending rather than truncated. *)
AppendAt0(cur, body) == cur \o body

(* file.Write writes the body at the descriptor's offset 0, over what     *)
(* another writer may have put there since the truncation.                 *)
WriteAt0(cur, body) == body \o SubSeq(cur, Len(body) + 1, Len(cur))

(* file.Write, then 201 Created. *)
WriteFile(c) ==
    /\ up
    /\ pc[c] = "write"
    /\ files' = [files EXCEPT ![FileOf(c)] = WriteAt0(@, Body(req[c]))]
    /\ Send(c, "201 Created")
    /\ UNCHANGED <<req, stat>>

Handle(c) ==
    \/ ReadFails(c)
    \/ ServeRoot(c)
    \/ ServeEcho(c)
    \/ ServeUserAgent(c)
    \/ ServeNotFound(c)
    \/ OpenFile(c)
    \/ StreamFile(c)
    \/ CreateFile(c)
    \/ WriteFile(c)

Next == \E c \in Conns : Handle(c)

(* Handle(c) is enabled exactly when c's goroutine has not returned and  *)
(* the process runs: a parsed request always routes to some handler.       *)
CanHandle(c) == up /\ pc[c] # "done"

(* Each connection's goroutine is runnable until it returns: weak         *)
(* fairness of Handle(c), written with CanHandle for its enabledness.     *)
Spec ==
    /\ Init
    /\ [][Next]_vars
    /\ \A c \in Conns : []<>~CanHandle(c) \/ []<><<Handle(c)>>_vars
-----------------------------------------------------------------------------
PcStates == {"read", "stream", "write", "done"}

Response ==
    [status : {"200 OK", "201 Created", "404 Not Found",
               "500 Internal Server Error"},
     ctype : {"", "text/plain", "application/octet-stream"},
     gzip : BOOLEAN, clen : Int, data : Seq(STRING)]

TypeOK ==
    /\ req \in [Conns -> Requests]
    /\ pc \in [Conns -> PcStates]
    /\ open \in [Conns -> BOOLEAN]
    /\ resp \in [Conns -> Response \cup {NoResponse}]
    /\ stat \in [Conns -> 0..MaxFile]
    /\ \A n \in FileNames : files[n] = Absent \/ Len(files[n]) <= MaxFile
    /\ up \in BOOLEAN

(* Every connection is eventually answered and closed by the server, or  *)
(* the process has exited: no Handle goroutine returns leaving its        *)
(* connection open, and none blocks for good.                              *)
ConnectionsAnswered == \A c \in Conns : <>(~open[c] \/ ~up)

(* The following hold of the server's contract but not of the code; TLC *)
(* reports each violated under MCHttpServer with its own configuration.   *)

(* One client's request never stops the server for the others: no read  *)
(* error, short read of the body or gzip of an empty response is fatal.   *)
ServerStaysUp == up

(* A file holds what it held at start, nothing, or the whole body of one *)
(* POST to it: two writers' os.Create and file.Write never interleave into *)
(* a mix of their bodies.                                                  *)
FilesHoldWholeBodies ==
    \A n \in FileNames :
        files[n] \in {InitFiles[n], <<>>}
                     \cup {Body(req[c]) : c \in {d \in Conns :
                            Route(req[d]).handle = "filewrite" /\ FileOf(d) = n}}

(* A Content-Length header states the number of body bytes that follow: *)
(* SendFileStream's stat and its read of the file agree.                   *)
ResponseFramed ==
    \A c \in Conns :
        resp[c] # NoResponse /\ ~resp[c].gzip /\ resp[c].clen # NoLength
            => resp[c].clen = Len(resp[c].data)

(* GET /echo/{command} answers with the command as it appeared in the    *)
(* path: the text after "/echo/", less a trailing "/".                     *)
EchoesPath ==
    \A c \in Conns :
        resp[c] # NoResponse /\ Route(req[c]).handle = "echo"
            => resp[c].data = TrimSlash(SubSeq(req[c].path, 4, Len(req[c].path)))
=============================================================================

----------------------------- MODULE HttpServer -----------------------------
(***************************************************************************)
(* The HTTP server (src/GUI/HTTP_Server.cpp, Connection.cpp,               *)
(* RequestHandler.cpp, StreamDirectory::handleValidStream): the accept     *)
(* loop, and for each connection the reads that feed the parser, the       *)
(* answer, and the write or the hand-over to a stream (module Stream).     *)
(* The handlers of one connection run on its strand, one at a time.        *)
(***************************************************************************)
EXTENDS RequestParser, Reply

CONSTANTS
    Clients,      \* the clients that connect, each once
    Messages,     \* Messages[c]: what c may send
    BufferSize,   \* bytes a read delivers at most: the size of Connection::buffer_
    Files,        \* the files that can be opened under doc_root_: contents by path
    Streams,      \* the stream ids of the directory, each a sequence of digits
    MaxErrors     \* bound: accepts that fail

ASSUME BufferSizeAssumption == BufferSize \in Nat \ {0}
ASSUME BlockSizeAssumption == BlockSize \in Nat \ {0}
ASSUME MaxErrorsAssumption == MaxErrors \in Nat
ASSUME MessagesAssumption == \A c \in Clients : Messages[c] \subseteq Seq(Chars)
ASSUME FilesAssumption == \A path \in DOMAIN Files : Files[path] \in Seq(ToSet(Files[path]))
\* What the length of a page (3 elements) or of a file is written as is not
\* a line end.
ASSUME LengthsAssumption ==
    \A n \in {3} \cup {Len(Files[path]) : path \in DOMAIN Files} : ToString(n) # "crlf"

VARIABLES
    accepting,    \* an async_accept is outstanding
    errors,       \* accepts that have failed
    conn,         \* conn[c]: where the connection of c is
    msg,          \* msg[c]: all that c sends
    got,          \* got[c]: how much of it has been read
    parser,       \* parser[c]: request_parser_ and the request
    answer,       \* answer[c]: the status of reply_, or "stream", or "none"
    gone,         \* gone[c]: the client has gone away
    written       \* written[c]: what the server has written to c

acceptor == <<accepting, errors>>
request == <<got, parser>>
vars == <<accepting, errors, conn, msg, got, parser, answer, gone, written>>

Answers == {"ok", "bad_request", "not_found", "stream"}

TypeOK ==
    /\ accepting \in BOOLEAN /\ errors \in 0 .. MaxErrors
    /\ conn \in [Clients -> {"none", "backlog", "reading", "writing", "stream", "closed"}]
    /\ \A c \in Clients :
        /\ msg[c] \in Seq(Chars)
        /\ got[c] \in 0 .. Len(msg[c])
        /\ parser[c].state \in States /\ parser[c].uri \in Seq(Text)
        /\ answer[c] \in Answers \cup {"none"}
        /\ conn[c] \in {"none", "backlog"} => got[c] = 0
        /\ conn[c] = "reading" => answer[c] = "none"
        /\ conn[c] = "writing" => answer[c] \in Answers \ {"stream"}
        /\ conn[c] = "stream" => answer[c] = "stream"
    /\ gone \in [Clients -> BOOLEAN]
    /\ \A c \in Clients : conn[c] \notin {"closed"} => written[c] = <<>>

\* HTTP_Server::start has been called: one accept is outstanding.
Init ==
    /\ accepting = TRUE /\ errors = 0
    /\ conn = [c \in Clients |-> "none"]
    /\ msg = [c \in Clients |-> <<>>]
    /\ got = [c \in Clients |-> 0]
    /\ parser = [c \in Clients |-> Reset]
    /\ answer = [c \in Clients |-> "none"]
    /\ gone = [c \in Clients |-> FALSE]
    /\ written = [c \in Clients |-> <<>>]

---------------------------------------------------------------------------
(* RequestHandler::url_decode: an escape is a percent sign and two         *)
(* characters, of which as many are read as make a hexadecimal number, a   *)
(* sign allowed.  "nul", "ctl" (the white-space ones), "quote" and "high"  *)
(* stand for the characters an escape can name; %+0 stands for those that  *)
(* name NUL.                                                               *)

HexDigits == {"2", "e"}
IsHex(x, y) == x \in HexDigits \/ (x = "+" /\ y \in HexDigits)
Unescaped(x, y) ==
    CASE x = "2" /\ y = "e" -> "."
      [] x = "2" /\ y = "2" -> "quote"
      [] x = "e" /\ y \in HexDigits -> "high"
      [] x = "+" /\ y \in Digits -> "nul"
      [] OTHER -> "ctl"

DecodeChar(d, c) ==
    IF Len(d.escape) = 2
    THEN [ok |-> d.ok /\ IsHex(d.escape[2], c), escape |-> <<>>,
          out |-> Append(d.out, Unescaped(d.escape[2], c))]
    ELSE IF d.escape # <<>> \/ c = "%"
    THEN [d EXCEPT !.escape = Append(@, c)]
    ELSE [d EXCEPT !.out = Append(@, IF c = "+" THEN " " ELSE c)]

Decoded(uri) == FoldLeft(DecodeChar, [ok |-> TRUE, escape |-> <<>>, out |-> <<>>], uri)
Decodes(uri) == Decoded(uri).ok /\ Decoded(uri).escape = <<>>
PathOf(uri) == Decoded(uri).out

---------------------------------------------------------------------------
(* RequestHandler::handle_request.                                         *)

GoesUp(path) == \E i \in 1 .. Len(path) - 1 : path[i] = "." /\ path[i + 1] = "."

\* Regression: the dots are looked for in the uri as it was sent.
IsPathUndecoded(uri) ==
    /\ Decodes(uri) /\ PathOf(uri) # <<>>
    /\ PathOf(uri)[1] = "/" /\ ~GoesUp(uri)

IsPath(uri) ==
    /\ Decodes(uri) /\ PathOf(uri) # <<>>
    /\ PathOf(uri)[1] = "/" /\ ~GoesUp(PathOf(uri))

FullPath(path) == IF Last(path) = "/" THEN path \o <<"index", ".", "html">> ELSE path

\* All that is behind the last dot, if that is behind the last slash.
Extension(path) ==
    LET mark == Max({i \in DOMAIN path : path[i] \in {".", "/"}})
    IN  IF path[mark] = "." THEN SubSeq(path, mark + 1, Len(path)) ELSE <<>>

IsStreamPath(path) == Extension(path) = <<"m">>

\* The path that std::ifstream is given is a C string: a NUL ends it.
Opened(path) ==
    SubSeq(path, 1, Min({Len(path) + 1} \cup {i \in DOMAIN path : path[i] = "nul"}) - 1)

\* StreamDirectory::handleValidStream: std::stoi of the name skips white
\* space and takes the digits that follow, whatever comes after them.  (The
\* sign it takes too is none of the characters a decoded path is made of.)
LeadingNumber(path) ==
    LET first(i, chars) == Min({j \in i .. Len(path) + 1 : j > Len(path) \/ path[j] \notin chars})
        from == first(2, {" ", "ctl"})
    IN  SubSeq(path, from, first(from, Digits) - 1)

HandleValidStream(path) == LeadingNumber(path) \in Streams

HandleRequest(uri) ==
    LET asked == FullPath(PathOf(uri))
        handled == [path \in {asked} |->
            IF IsStreamPath(path)
            THEN IF HandleValidStream(path) THEN "stream" ELSE "not_found"
            ELSE IF Opened(path) \in DOMAIN Files THEN "ok" ELSE "not_found"]
    IN  IF IsPath(uri) THEN handled[asked] ELSE "bad_request"

\* reply_ once the request of c has been handled.
ReplyTo(c) ==
    LET asked == FullPath(PathOf(parser[c].uri))
        reply == [path \in {asked} |-> FileReply(Files[Opened(path)], Extension(path))]
    IN  IF answer[c] = "ok" THEN reply[asked] ELSE StockReply(answer[c])

---------------------------------------------------------------------------
(* The accept loop.                                                        *)

Connects(c) ==
    /\ conn[c] = "none"
    /\ conn' = [conn EXCEPT ![c] = "backlog"]
    /\ \E s \in Messages[c] : msg' = [msg EXCEPT ![c] = s]
    /\ UNCHANGED <<acceptor, request, answer, gone, written>>

\* Regression: the next accept is started only after one that succeeded.
AcceptFailsAndStops ==
    /\ accepting /\ errors < MaxErrors
    /\ errors' = errors + 1
    /\ accepting' = FALSE
    /\ UNCHANGED <<conn, msg, request, answer, gone, written>>

AcceptFails ==
    /\ accepting /\ errors < MaxErrors
    /\ errors' = errors + 1
    /\ accepting' = TRUE
    /\ UNCHANGED <<conn, msg, request, answer, gone, written>>

HandleAccept(c) ==
    /\ accepting /\ conn[c] = "backlog"
    /\ conn' = [conn EXCEPT ![c] = "reading"]
    /\ accepting' = TRUE
    /\ UNCHANGED <<errors, msg, request, answer, gone, written>>

---------------------------------------------------------------------------
(* A connection: start, handle_read, handle_write.                         *)

\* async_read_some has delivered the next n bytes and handle_read parses them.
Reads(c, n) ==
    /\ conn[c] = "reading" /\ ~gone[c]
    /\ got' = [got EXCEPT ![c] = @ + n]
    /\ parser' = [parser EXCEPT ![c] = Parse(@, SubSeq(msg[c], got[c] + 1, got[c] + n))]
    /\ UNCHANGED <<acceptor, msg, gone, written>>

\* Regression: each piece is parsed from the start.
ReadsAfresh(c, n) ==
    /\ conn[c] = "reading" /\ ~gone[c]
    /\ got' = [got EXCEPT ![c] = @ + n]
    /\ parser' = [parser EXCEPT ![c] = Parse(Reset, SubSeq(msg[c], got[c] + 1, got[c] + n))]
    /\ UNCHANGED <<acceptor, msg, gone, written>>

\* Regression: handle_read goes on to write after it has handed the
\* connection to a stream.
AnswerFallsThrough(c, a) ==
    /\ answer' = [answer EXCEPT ![c] = a]
    /\ conn' = [conn EXCEPT ![c] = "writing"]

Answer(c, a) ==
    /\ answer' = [answer EXCEPT ![c] = a]
    /\ conn' = [conn EXCEPT ![c] = IF a = "stream" THEN "stream" ELSE "writing"]

\* Regression: no further read is started when a request is not complete.
HandleReadOnce(c) ==
    \E n \in 1 .. Min({BufferSize, Len(msg[c]) - got[c]}) :
        /\ Reads(c, n)
        /\ \/ parser[c]'.state = "true" /\ Answer(c, HandleRequest(parser[c]'.uri))
           \/ parser[c]'.state = "false" /\ Answer(c, "bad_request")
           \/ /\ parser[c]'.state \notin Results
              /\ conn' = [conn EXCEPT ![c] = "closed"] /\ UNCHANGED answer

HandleRead(c) ==
    \E n \in 1 .. Min({BufferSize, Len(msg[c]) - got[c]}) :
        /\ Reads(c, n)
        /\ \/ parser[c]'.state = "true" /\ Answer(c, HandleRequest(parser[c]'.uri))
           \/ parser[c]'.state = "false" /\ Answer(c, "bad_request")
           \/ parser[c]'.state \notin Results /\ UNCHANGED <<conn, answer>>

\* The read has failed: nothing new is started and the connection is destroyed.
HandleReadError(c) ==
    /\ conn[c] = "reading" /\ gone[c]
    /\ conn' = [conn EXCEPT ![c] = "closed"]
    /\ UNCHANGED <<acceptor, msg, request, answer, gone, written>>

\* The reply is written, or the write has failed: the connection ends.
HandleWrite(c) ==
    /\ conn[c] = "writing"
    /\ conn' = [conn EXCEPT ![c] = "closed"]
    /\ written' = IF gone[c] THEN written ELSE [written EXCEPT ![c] = ToBuffers(ReplyTo(c))]
    /\ UNCHANGED <<acceptor, msg, request, answer, gone>>

GoesAway(c) ==
    /\ conn[c] \in {"reading", "writing"} /\ ~gone[c]
    /\ gone' = [gone EXCEPT ![c] = TRUE]
    /\ UNCHANGED <<acceptor, conn, msg, request, answer, written>>

---------------------------------------------------------------------------
ConnectionStep(c) == HandleRead(c) \/ HandleReadError(c) \/ HandleWrite(c)

Next ==
    \/ AcceptFails
    \/ \E c \in Clients :
        Connects(c) \/ HandleAccept(c) \/ ConnectionStep(c) \/ GoesAway(c)

\* The pool runs every handler whose operation has completed; what a client
\* has sent arrives, and it reads what it is sent or goes away: a write to a
\* client that does neither is given no time limit by the code, and stays.
Fairness == \A c \in Clients : WF_vars(HandleAccept(c)) /\ WF_vars(ConnectionStep(c))
Spec == Init /\ [][Next]_vars /\ Fairness

---------------------------------------------------------------------------
\* However the bytes are cut into reads, the answer is the one that the
\* grammar gives to the request they begin with, bad_request only when they
\* begin with none, and a connection that still reads has no complete
\* request (Connection::handle_read, RequestParser).
AnswerFitsRequest ==
    \A c \in Clients :
        /\ answer[c] # "none" =>
            LET ends == Requests(msg[c])
            IN  answer[c] = IF ends = {} THEN "bad_request"
                            ELSE HandleRequest(UriOf(SubSeq(msg[c], 1, Min(ends))))
        /\ conn[c] = "reading" => Requests(msg[c]) \cap 1 .. got[c] = {}

\* No file outside of the document root is opened (RequestHandler.cpp,
\* lines 41-45: "Request path must be absolute and not contain .."): the
\* path that a file is opened under is not the uri that was sent, nor the
\* path that was looked through, but decoded, completed and cut at a NUL.
FilesUnderRoot ==
    \A c \in Clients :
        answer[c] = "ok" => ~GoesUp(Opened(FullPath(PathOf(parser[c].uri))))

\* What a client reads is a whole reply: the status that its request is to
\* get, headers closed by an empty line, and as many bytes of content as
\* Content-Length says, all of the file when there is one, typed by its name
\* (Reply::to_buffers, stock_reply, the loop that reads the file).
RepliesAreWhole ==
    \A c \in Clients : written[c] # <<>> =>
        LET path == FullPath(PathOf(parser[c].uri))
            content == ContentRead(written[c])
        IN  /\ written[c][1] = answer[c]
            /\ HasHeader(written[c], "Content-Length", ToString(Len(content)))
            /\ answer[c] = "ok" => content = Files[Opened(path)]
            /\ HasHeader(written[c], "Content-Type", "text/html")
                  <=> answer[c] # "ok" \/ Last(path) = "html"

\* A client that has connected is accepted, whatever accepts have failed
\* (HTTP_Server::handle_accept).
ClientsAreAccepted == \A c \in Clients : conn[c] = "backlog" ~> conn[c] # "backlog"

\* A connection that is accepted is answered to the end, or handed over, or
\* given up because its client has gone, or waits for more of a request
\* than its client has sent (Connection::handle_read).
ConnectionsAreServed ==
    \A c \in Clients :
        conn[c] = "reading" ~>
            \/ conn[c] \in {"closed", "stream"} /\ (answer[c] # "none" \/ gone[c])
            \/ got[c] = Len(msg[c]) /\ parser[c].state \notin Results
=============================================================================

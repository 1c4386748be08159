-------------------------------- MODULE Reply --------------------------------
(***************************************************************************)
(* A reply and the buffers it is written from (src/GUI/Reply.cpp, the end  *)
(* of RequestHandler::handle_request, MimeTypes.cpp).  Buffers are joined  *)
(* to one sequence; a fixed text of the code is one element of it, and so  *)
(* is a byte of a file.                                                    *)
(***************************************************************************)
EXTENDS Integers, Sequences, SequencesExt

CONSTANT BlockSize           \* of the buffer that files are read through

\* Of the statuses of Reply.h those that the server answers with.
Statuses == {"ok", "bad_request", "not_found"}

StockPage(status) == IF status = "ok" THEN <<>> ELSE <<"<html>", status, "</html>">>

\* Content-Length is taken from the content that the reply has by then.
ReplyOf(status, content, type) ==
    [status |-> status, content |-> content,
     headers |-> << <<"Content-Length", ToString(Len(content))>>, <<"Content-Type", type>> >>]

StockReply(status) == ReplyOf(status, StockPage(status), "text/html")

\* "m" stands for mjpeg; the other extensions of the table do not occur.
ExtensionToType(extension) ==
    CASE extension = <<"html">> -> "text/html"
      [] extension = <<"m">> -> "multipart/x-mixed-replace"
      [] OTHER -> "text/plain"

\* Regression: while (is.read(buf, sizeof(buf))) appends full blocks only.
FileContentFullBlocks(file) ==
    FlattenSeq([k \in 1 .. Len(file) \div BlockSize |->
        SubSeq(file, (k - 1) * BlockSize + 1, k * BlockSize)])

\* Block after block until a read delivers nothing.
FileContent(file) ==
    FlattenSeq([k \in 1 .. (Len(file) + BlockSize - 1) \div BlockSize |->
        SubSeq(file, (k - 1) * BlockSize + 1, Min({k * BlockSize, Len(file)}))])

FileReply(file, extension) == ReplyOf("ok", FileContent(file), ExtensionToType(extension))

ToBuffers(reply) ==
    <<reply.status>>
    \o FlattenSeq([i \in DOMAIN reply.headers |->
           <<reply.headers[i][1], ": ", reply.headers[i][2], "crlf">>])
    \o <<"crlf">> \o reply.content

---------------------------------------------------------------------------
(* What a client makes of what it has read: the headers end with an empty  *)
(* line, Content-Length bytes of content follow.                           *)

HeadersEnd(read) == Min({i \in 2 .. Len(read) : read[i] = "crlf" /\ read[i - 1] = "crlf"})
ContentRead(read) == SubSeq(read, HeadersEnd(read) + 1, Len(read))
HasHeader(read, name, value) ==
    \E i \in 2 .. HeadersEnd(read) - 3 : SubSeq(read, i, i + 3) = <<name, ": ", value, "crlf">>
=============================================================================

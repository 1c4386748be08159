---------------------------- MODULE RequestParser ----------------------------
(***************************************************************************)
(* The parser of HTTP requests (src/GUI/RequestParser.cpp): a state        *)
(* machine fed one character at a time, in as many pieces as the socket    *)
(* delivers, and the grammar it is meant to accept.                        *)
(*                                                                         *)
(* One character stands for each class the program tells apart: "e" for    *)
(* the letters, "2" for the digits (both are hexadecimal in an escape),    *)
(* "high" for the bytes above 127 (negative as a char), "m" for the five   *)
(* letters mjpeg.  Names, values and version numbers are parsed but used   *)
(* by nobody, so only the uri is kept.                                     *)
(***************************************************************************)
EXTENDS Integers, Sequences, SequencesExt, FiniteSetsExt

Digits == {"2"}
Blanks == {" ", "tab"}
Ctl == {"tab", "cr", "lf"}
Tspecials == {" ", "tab", ":", "/"}
Chars == {"e", "m", "H", "T", "P", ".", "%", "+", "high"} \cup Digits \cup Ctl \cup Tspecials

Token == Chars \ (Ctl \cup Tspecials \cup {"high"})
Text == Chars \ Ctl

\* What the parser consumes in which state; whatever is not here is refused.
\* The last row needs a header that the line can continue.
On(from, chars, to) == [from |-> from, chars |-> chars, to |-> to]

RequestLineRows == {
    On("method_start", Token, "method"),
    On("method", Token, "method"),
    On("method", {" "}, "uri"),
    On("uri", Text \ {" "}, "uri"),
    On("uri", {" "}, "http_version_h"),
    On("http_version_h", {"H"}, "http_version_t_1"),
    On("http_version_t_1", {"T"}, "http_version_t_2"),
    On("http_version_t_2", {"T"}, "http_version_p"),
    On("http_version_p", {"P"}, "http_version_slash"),
    On("http_version_slash", {"/"}, "http_version_major_start"),
    On("http_version_major_start", Digits, "http_version_major"),
    On("http_version_major", Digits, "http_version_major"),
    On("http_version_major", {"."}, "http_version_minor_start"),
    On("http_version_minor_start", Digits, "http_version_minor"),
    On("http_version_minor", Digits, "http_version_minor"),
    On("http_version_minor", {"cr"}, "expecting_newline_1"),
    On("expecting_newline_1", {"lf"}, "header_line_start") }

HeaderRows == {
    On("header_line_start", {"cr"}, "expecting_newline_3"),
    On("header_line_start", Token, "header_name"),
    On("header_lws", {"cr"}, "expecting_newline_2"),
    On("header_lws", Blanks, "header_lws"),
    On("header_lws", Text \ Blanks, "header_value"),
    On("header_name", {":"}, "space_before_header_value"),
    On("header_name", Token, "header_name"),
    On("space_before_header_value", {" "}, "header_value"),
    On("header_value", {"cr"}, "expecting_newline_2"),
    On("header_value", Text, "header_value"),
    On("expecting_newline_2", {"lf"}, "header_line_start"),
    On("expecting_newline_3", {"lf"}, "true"),
    On("header_line_start", Blanks, "header_lws") }

Rows == RequestLineRows \cup HeaderRows

Results == {"true", "false"}       \* the tribool; any other state: indeterminate
States == {r.from : r \in Rows} \cup Results

RowsFrom == [s \in States |-> {r \in Rows : r.from = s}]

Reset == [state |-> "method_start", headers |-> FALSE, uri |-> <<>>]

\* Regression: a blank continues a header although there is none yet.
RowsForAnyLine(p, c) == {r \in RowsFrom[p.state] : c \in r.chars}

RowsFor(p, c) ==
    {r \in RowsFrom[p.state] :
        /\ c \in r.chars
        /\ r.from = "header_line_start" /\ r.to = "header_lws" => p.headers}

Consume(p, c) ==
    LET rows == RowsFor(p, c)
        to == IF rows = {} THEN "false" ELSE (CHOOSE r \in rows : TRUE).to
    IN  [state |-> to,
         headers |-> p.headers \/ to = "header_name",
         uri |-> IF p.state = "uri" /\ to = "uri" THEN Append(p.uri, c) ELSE p.uri]

\* parse goes through a piece of input until it has a result.
Parse(p, piece) ==
    FoldLeft(LAMBDA q, c : IF q.state \in Results THEN q ELSE Consume(q, c), p, piece)

---------------------------------------------------------------------------
(* The grammar, without a state: a request line, header lines that may be  *)
(* continued, and an empty line, each ended by cr and lf.                  *)

OfChars(s, chars) == ToSet(s) \subseteq chars
IsToken(s) == s # <<>> /\ OfChars(s, Token)
IsNumber(s) == s # <<>> /\ OfChars(s, Digits)

IsVersion(s) ==
    /\ IsPrefix(<<"H", "T", "T", "P", "/">>, s)
    /\ \E dot \in 6 .. Len(s) :
        s[dot] = "." /\ IsNumber(SubSeq(s, 6, dot - 1)) /\ IsNumber(SubSeq(s, dot + 1, Len(s)))

UriEnds(s) == {ends \in (DOMAIN s) \X (DOMAIN s) :
    LET i == ends[1]  j == ends[2]
    IN  /\ i < j /\ s[i] = " " /\ s[j] = " "
        /\ IsToken(SubSeq(s, 1, i - 1))
        /\ OfChars(SubSeq(s, i + 1, j - 1), Text \ {" "})
        /\ IsVersion(SubSeq(s, j + 1, Len(s)))}

IsHeader(s) == \E colon \in 1 .. Len(s) - 1 :
    /\ s[colon] = ":" /\ s[colon + 1] = " "
    /\ IsToken(SubSeq(s, 1, colon - 1)) /\ OfChars(SubSeq(s, colon + 2, Len(s)), Text)

IsContinuation(s) == s # <<>> /\ \E n \in 1 .. Len(s) :
    OfChars(SubSeq(s, 1, n), Blanks) /\ OfChars(SubSeq(s, n + 1, Len(s)), Text)

LineEnds(s) == {i \in 1 .. Len(s) - 1 : s[i] = "cr" /\ s[i + 1] = "lf"}

\* The line of s that ends before e.
LineTo(s, e) ==
    LET before == {i \in LineEnds(s) : i < e}
    IN  SubSeq(s, IF before = {} THEN 1 ELSE Max(before) + 2, e - 1)

IsRequest(s) ==
    /\ Len(s) > 1 /\ Len(s) - 1 \in LineEnds(s)
    /\ LET first == Min(LineEnds(s))  last == Len(s) - 1
           inner == LineEnds(s) \ {first, last}
       IN  /\ first # last
           /\ UriEnds(LineTo(s, first)) # {}
           /\ LineTo(s, last) = <<>>
           /\ \A e \in inner : IsHeader(LineTo(s, e)) \/ IsContinuation(LineTo(s, e))
           /\ inner # {} => IsHeader(LineTo(s, Min(inner)))

\* The uri of a request.
UriOf(s) ==
    LET line == LineTo(s, Min(LineEnds(s)))
        ends == CHOOSE e \in UriEnds(line) : TRUE
    IN  SubSeq(line, ends[1] + 1, ends[2] - 1)

\* The request that a stream of characters begins with, if there is one.
Requests(s) == {n \in DOMAIN s : IsRequest(SubSeq(s, 1, n))}
=============================================================================

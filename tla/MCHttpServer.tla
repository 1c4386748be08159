---------------------------- MODULE MCHttpServer ----------------------------
(* Requests at most one edit away from three good ones, and one whose path *)
(* is cut at a NUL before it is opened; the second client sends one        *)
(* character that no request begins with.                                  *)
EXTENDS HttpServer

CONSTANTS c1, c2

Get(uri) == <<"e", " ">> \o uri \o <<" ", "H", "T", "T", "P", "/", "2", ".", "2", "2", "cr", "lf">>
Templates == {
    Get(<<"/">>) \o <<"e", ":", " ", "e", "cr", "lf", "tab", "cr", "lf", "cr", "lf">>,
    Get(<<"/", ".", "%", "2", "e">>) \o <<"cr", "lf">>,
    Get(<<"/", "2", ".", "m">>) \o <<"cr", "lf">> }

CutAtNul == Get(<<"/", "%", "+", "2">>) \o <<"cr", "lf">>

Edits(s) ==
    {s} \cup {RemoveAt(s, i) : i \in DOMAIN s}
        \cup {ReplaceAt(s, i, c) : i \in DOMAIN s, c \in {" ", ".", "tab"}}

MCMessages ==
    [c \in {c1, c2} |->
        IF c = c1 THEN {CutAtNul} \cup UNION {Edits(s) : s \in Templates} ELSE {<<" ">>}]

MCFiles ==
    <<"/", "index", ".", "html">> :> <<"1", "2", "3">> @@ <<"/", "e">> :> <<"1", "2">>
    @@ <<"/">> :> <<>> @@ <<"/", ".", ".">> :> <<>>
MCStreams == {<<"2">>}
=============================================================================

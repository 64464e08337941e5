---------------------------- MODULE RequestParser ---------------------------
(***************************************************************************)
(* The text of requests: request_parser, url_decode and what connection    *)
(* makes of a request.  A symbol is a character, or a run of characters    *)
(* that are treated alike: "word" is a run of letters, "connection" and    *)
(* "close" are these words in any case, an escape of the URI is one symbol *)
(* ("%2e", "%2f", or "%?" for one that cannot be decoded), and "high" is a *)
(* character outside ASCII.                                                *)
(***************************************************************************)
EXTENDS Naturals, Sequences

is_ctl == {"cr", "lf", "tab", "ctl"}
is_tspecial == {"sp", "tab", "slash", "colon", "special"}
token == {"word", "connection", "close", "H", "T", "P", "digit", "dot", "plus",
          "%2e", "%2f", "%?"}
Symbols == is_ctl \cup is_tspecial \cup token \cup {"high"}
text == Symbols \ is_ctl

\* The states of the parser, the symbols each accepts and the state that follows;
\* any other symbol is an error.
transitions == {
    <<"method_start", token, "method">>,
    <<"method", {"sp"}, "uri">>,
    <<"method", token, "method">>,
    <<"uri", {"sp"}, "http_version_h">>,
    <<"uri", text \ {"sp"}, "uri">>,
    <<"http_version_h", {"H"}, "http_version_t_1">>,
    <<"http_version_t_1", {"T"}, "http_version_t_2">>,
    <<"http_version_t_2", {"T"}, "http_version_p">>,
    <<"http_version_p", {"P"}, "http_version_slash">>,
    <<"http_version_slash", {"slash"}, "http_version_major_start">>,
    <<"http_version_major_start", {"digit"}, "http_version_major">>,
    <<"http_version_major", {"digit"}, "http_version_major">>,
    <<"http_version_major", {"dot"}, "http_version_minor_start">>,
    <<"http_version_minor_start", {"digit"}, "http_version_minor">>,
    <<"http_version_minor", {"digit"}, "http_version_minor">>,
    <<"http_version_minor", {"cr"}, "expecting_newline_1">>,
    <<"expecting_newline_1", {"lf"}, "header_line_start">>,
    <<"header_line_start", {"cr"}, "expecting_newline_3">>,
    <<"header_line_start", {"sp", "tab"}, "header_lws">>,
    <<"header_line_start", token, "header_name">>,
    <<"header_lws", {"cr"}, "expecting_newline_2">>,
    <<"header_lws", {"sp", "tab"}, "header_lws">>,
    <<"header_lws", text \ {"sp"}, "header_value">>,
    <<"header_name", token, "header_name">>,
    <<"header_name", {"colon"}, "space_before_header_value">>,
    <<"space_before_header_value", {"sp"}, "header_value">>,
    <<"header_value", {"cr"}, "expecting_newline_2">>,
    <<"header_value", text, "header_value">>,
    <<"expecting_newline_2", {"lf"}, "header_line_start">>,
    <<"expecting_newline_3", {"lf"}, "good">>}

\* A parser at its beginning, with the request it fills in.
fresh == [state |-> "method_start", uri |-> <<>>, headers |-> <<>>]

\* A symbol that belongs to the last header is added to its name or value.
add_to_header(headers, field, c) ==
    [headers EXCEPT ![Len(headers)][field] = Append(@, c)]

\* Once good or bad, parse does not look at the rest of what was read.
consume(parser, c) ==
    LET next == {t[3] : t \in {u \in transitions : u[1] = parser.state /\ c \in u[2]}}
        lone == parser.state = "header_line_start" /\ c \in {"sp", "tab"}
                    /\ parser.headers = <<>>
        state == IF next = {} \/ lone THEN "bad" ELSE CHOOSE s \in next : TRUE
        named == IF parser.state = "header_line_start" /\ state = "header_name"
                 THEN Append(parser.headers, [name |-> <<>>, value |-> <<>>])
                 ELSE parser.headers
    IN  IF parser.state \in {"good", "bad"} THEN parser
        ELSE [state |-> state,
              uri |-> IF parser.state = "uri" /\ state = "uri"
                      THEN Append(parser.uri, c) ELSE parser.uri,
              headers |->
                  CASE state = "header_name" -> add_to_header(named, "name", c)
                    [] state = "header_value" /\ parser.state # "space_before_header_value"
                         -> add_to_header(named, "value", c)
                    [] OTHER -> named]

parse(parser, read) ==
    LET after[i \in 0..Len(read)] ==
            IF i = 0 THEN parser ELSE consume(after[i - 1], read[i])
    IN  after[Len(read)]

url_decode(uri) ==
    [i \in DOMAIN uri |-> CASE uri[i] = "%2e" -> "dot"
                            [] uri[i] = "%2f" -> "slash"
                            [] uri[i] = "plus" -> "sp"
                            [] OTHER -> uri[i]]

\* The status of the answer to a good request; found says whether the file that
\* the request names can be opened.
handle_request(request, found) ==
    LET path == url_decode(request.uri) IN
    CASE \/ "%?" \in {path[i] : i \in DOMAIN path}
         \/ path = <<>> \/ path[1] # "slash"
         \/ \E i \in 1..(Len(path) - 1) : path[i] = "dot" /\ path[i + 1] = "dot"
           -> "bad_request"
      [] OTHER -> IF path[Len(path)] = "slash" \/ found THEN "ok" ELSE "not_found"

is_keep_alive(request) ==
    [name |-> <<"connection">>, value |-> <<"close">>]
        \notin {request.headers[i] : i \in DOMAIN request.headers}
=============================================================================

----------------------------- MODULE MCRuntime ------------------------------
\* One user and, in different programs, a periodic timer (p1), a one-shot timer
\* (o1), a delay object (d1) and one whose coroutine uses the queue when it is
\* interrupted (r1), up to two loopers, two tasks posted at once, and an owner
\* that shuts its manual executor down while a delay is pending; an http_call
\* (h1), a tcp_client::call (t1) and programs outside (g1, and g2 that does not
\* wait for answers) that send requests to an http_server, or messages (e1) to a
\* tcp_server.
EXTENDS NetworkProperties

CONSTANTS p1, o1, d1, r1, l1, l2, h1, t1, g1, g2, e1

local_program(home, timers, loopers, posts, shuts) ==
    [home |-> home, timers |-> timers, loopers |-> loopers, posts |-> posts,
     shuts |-> shuts, peers |-> {}, signals |-> FALSE, faults |-> FALSE, ends |-> TRUE]

network_program(peers, signals, faults, ending) ==
    [home |-> "manual", timers |-> {}, loopers |-> {}, posts |-> FALSE,
     shuts |-> FALSE, peers |-> peers, signals |-> signals, faults |-> faults,
     ends |-> ending]

MCPrograms == {
    local_program("thread", {p1}, {}, FALSE, FALSE),
    local_program("thread", {d1}, {}, TRUE, FALSE),
    local_program("thread", {d1, r1}, {}, FALSE, FALSE),
    local_program("manual", {o1}, {l1}, FALSE, FALSE),
    local_program("manual", {}, {l1, l2}, TRUE, FALSE),
    local_program("manual", {d1}, {l1}, FALSE, TRUE),
    network_program({h1}, FALSE, TRUE, FALSE),
    network_program({h1}, TRUE, FALSE, FALSE),
    network_program({h1}, FALSE, FALSE, TRUE),
    network_program({t1}, FALSE, FALSE, FALSE),
    network_program({g1}, FALSE, FALSE, FALSE),
    network_program({g2}, FALSE, FALSE, FALSE),
    network_program({e1}, TRUE, TRUE, FALSE)}

MCPosts == <<<<"post", 1>>, <<"post", 2>>>>

\* The texts of requests, and what HTTP says of each.
request_line(uri) == <<"word", "sp">> \o uri \o
    <<"sp", "H", "T", "T", "P", "slash", "digit", "dot", "digit", "cr", "lf">>
header_line(name, value) == <<name, "colon", "sp", value, "cr", "lf">>
blank_line == <<"cr", "lf">>
request(symbols, status, keep) == [text |-> symbols, status |-> status, keep |-> keep]

MCMessages == {[text |-> <<"word", "sp">>], [text |-> <<"digit", "dot", "lf">>]}

MCHttpRequest ==
    request(request_line(<<"slash">>) \o header_line("word", "special")
                \o header_line("connection", "close") \o blank_line, {"ok"}, FALSE)

MCRequests == {
    MCHttpRequest,
    request(request_line(<<"slash", "word">>) \o blank_line, {"ok", "not_found"}, TRUE),
    request(request_line(<<"slash", "%2e", "dot", "%2f">>)
                \o header_line("word", "close") \o blank_line, {"bad_request"}, TRUE),
    request(request_line(<<"slash">>) \o <<"word", "colon", "close", "cr", "lf">>
                \o blank_line, {"bad_request"}, FALSE)}
=============================================================================

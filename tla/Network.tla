------------------------------ MODULE Network -------------------------------
(***************************************************************************)
(* http_server, tcp_server, connection, http_client and tcp_client, over   *)
(* the io_context_pool.  A completion handler runs on the one thread of    *)
(* its io_context and is one step; the resolution of a host name runs on   *)
(* the thread of the caller.  Sockets, timers and the network are          *)
(* external: an operation that is pending completes with an error when its *)
(* socket is cancelled, and one that has completed does not; a text        *)
(* arrives in pieces, or stays away, and a connection breaks.              *)
(***************************************************************************)
EXTENDS RequestParser

CONSTANTS
    Peers,         \* the client ends of connections
    HttpCalls,     \* those that are http_client::http_call
    TcpCalls,      \* those that are tcp_client::call; the others are programs
                   \* outside, of which
    Pipelined,     \* these do not wait for the answer to a request
    Echoed,        \* and these talk to a tcp_server, the others to an http_server
    Messages,      \* what they send to a tcp_server: the text
    Requests,      \* the requests that programs and tcp calls send: the text,
                   \* the statuses that fit it, and whether it keeps the connection
    HttpRequest,   \* the request that http_call sends
    BufferSize,    \* of read_buf_, and of what session prepares
    MaxRequests    \* bound of the requests of a program

Calls == HttpCalls \cup TcpCalls

ASSUME NetworkAssumption ==
    /\ MaxRequests \in Nat /\ BufferSize \in Nat
    /\ Calls \cup Pipelined \cup Echoed \subseteq Peers
    /\ HttpCalls \cap TcpCalls = {} /\ Pipelined \cap Echoed = {}
    /\ (Pipelined \cup Echoed) \cap Calls = {}
    /\ HttpRequest \in Requests

VARIABLES
    io,          \* whether the pool runs
    server,      \* where the accept loop is
    signal,      \* whether a signal was caught, and its handler called
    backlog,     \* connections that the system has made for the acceptor
    link,        \* of a peer: none, up, shut by the peer, or broken
    up,          \* the symbols on their way to the server
    asked,       \* the requests that a peer has sent
    conn,        \* the connection of a peer: its place and its parser; of a
                 \* session its place and the data it has read
    replies,     \* the answers that a connection has written; of a session the
                 \* symbols that it has answered
    arrived,     \* how many pieces of the answer have arrived at a call
    call,        \* where a call is
    seen,        \* how many of them the call has read
    bounded,     \* whether a call knows the length of the body
    timer,       \* the timer of a call
    aborted,     \* whether the timer has aborted the pending operation of a call
    unnoticed    \* whether the timer has gone off without the call noticing

network_vars == <<io, server, signal, backlog, link, up, asked, conn, replies, arrived,
                  seen, call, bounded, timer, aborted, unnoticed>>
serverVars == <<server, signal, backlog>>
connVars == <<up, conn, replies>>
callVars == <<arrived, seen, call, bounded, timer, aborted, unnoticed>>

NetworkInit ==
    /\ io = "running" /\ server = "idle" /\ signal = "waiting" /\ backlog = <<>>
    /\ link = [p \in Peers |-> "none"]
    /\ up = [p \in Peers |-> <<>>]
    /\ asked = [p \in Peers |-> <<>>]
    /\ conn = [p \in Peers |-> IF p \in Echoed THEN [pc |-> "none", data |-> <<>>]
                               ELSE [pc |-> "none", parser |-> fresh]]
    /\ replies = [p \in Peers |-> <<>>]
    /\ arrived = [p \in Calls |-> 0]
    /\ seen = [p \in Calls |-> 0]
    /\ call = [p \in Calls |-> "idle"]
    /\ bounded = [p \in Calls |-> TRUE]
    /\ timer = [p \in Calls |-> "none"]
    /\ aborted = [p \in Calls |-> FALSE]
    /\ unnoticed = [p \in Calls |-> FALSE]

running == io = "running"

\* stop and join: the threads leave run() after the handler they are in.
stop ==
    /\ io' = "stopped"
    /\ UNCHANGED <<serverVars, link, asked, connVars, callVars>>
-----------------------------------------------------------------------------
\* The accept loop.

start ==
    /\ running /\ server = "idle" /\ server' = "accepting"
    /\ UNCHANGED <<io, signal, backlog, link, asked, connVars, callVars>>

\* The system completes the pending accept, with a connection or with an error.
async_accept ==
    /\ running /\ server = "accepting" /\ backlog # <<>> /\ server' = "accepted"
    /\ UNCHANGED <<io, signal, backlog, link, asked, connVars, callVars>>

accept_fails ==
    /\ running /\ server = "accepting" /\ server' = "refused"
    /\ UNCHANGED <<io, signal, backlog, link, asked, connVars, callVars>>

\* An accept on a closed acceptor fails with an error that is not
\* operation_aborted, and the loop tries again for ever.
accept_again == server' = IF signal = "handled" THEN "spinning" ELSE "accepting"

\* The handler of the accept: start_one runs until the first read.
accepted ==
    /\ running
    /\ \/ /\ server = "accepted"
          /\ conn' = [conn EXCEPT ![backlog[1]].pc = "reading"]
          /\ backlog' = Tail(backlog)
       \/ server = "refused" /\ UNCHANGED <<conn, backlog>>
    /\ accept_again
    /\ UNCHANGED <<io, signal, link, asked, up, replies, callVars>>

\* SIGINT or SIGTERM.
raise ==
    /\ running /\ server # "idle" /\ signal = "waiting" /\ signal' = "queued"
    /\ UNCHANGED <<io, server, backlog, link, asked, connVars, callVars>>

\* Mutant: the acceptor is not closed.
close_acceptor_not ==
    /\ running /\ signal = "queued" /\ signal' = "handled"
    /\ UNCHANGED <<io, server, backlog, link, asked, connVars, callVars>>

\* The handler of the signal closes the acceptor, which aborts a pending accept and
\* resets the connections that were not accepted.
close_acceptor ==
    LET kept == IF server = "accepted" THEN {backlog[1]} ELSE {} IN
    /\ running /\ signal = "queued" /\ signal' = "handled"
    /\ server' = IF server = "accepting" THEN "stopped" ELSE server
    /\ backlog' = IF server = "accepted" THEN <<backlog[1]>> ELSE <<>>
    /\ link' = [p \in Peers |-> IF p \in {backlog[i] : i \in DOMAIN backlog} \ kept
                                THEN "broken" ELSE link[p]]
    /\ UNCHANGED <<io, asked, connVars, callVars>>
-----------------------------------------------------------------------------
\* A connection.

\* The destructor of connection closes the socket.
closes(p) == conn' = [conn EXCEPT ![p].pc = "closed"]

\* Mutant: the parser keeps its state after an answer.
reset_not(p) == conn' = [conn EXCEPT ![p].pc = "reading", ![p].parser.uri = <<>>,
                                     ![p].parser.headers = <<>>]

\* After an answer that keeps the connection.
reset(p) == conn' = [conn EXCEPT ![p].pc = "reading", ![p].parser = fresh]

\* The handler of async_read_some, with some of what is on its way.
read(p) ==
    /\ running /\ conn[p].pc = "reading" /\ link[p] # "broken"
    /\ \E n \in {k \in 1..BufferSize : k <= Len(up[p])} :
         LET parser == parse(conn[p].parser, SubSeq(up[p], 1, n)) IN
         /\ up' = [up EXCEPT ![p] = SubSeq(@, n + 1, Len(@))]
         /\ conn' = [conn EXCEPT ![p] =
                [pc |-> IF parser.state \in {"good", "bad"} THEN "writing" ELSE "reading",
                 parser |-> parser]]
    /\ UNCHANGED <<io, serverVars, link, asked, replies, callVars>>

\* eof, a reset or another error.
read_error(p) ==
    /\ running /\ conn[p].pc = "reading"
    /\ link[p] = "broken" \/ (link[p] = "shut" /\ up[p] = <<>>)
    /\ closes(p)
    /\ UNCHANGED <<io, serverVars, link, asked, up, replies, callVars>>

\* The handler of async_write.
write(p) ==
    LET parser == conn[p].parser
        keep == parser.state = "good" /\ is_keep_alive(parser)
    IN
    /\ running /\ conn[p].pc = "writing"
    /\ IF link[p] = "broken" THEN closes(p) /\ UNCHANGED replies
       ELSE /\ \E found \in BOOLEAN :
                 replies' = [replies EXCEPT ![p] = Append(@,
                     [status |-> IF parser.state = "good"
                                 THEN handle_request(parser, found) ELSE "bad_request",
                      keep |-> keep])]
            /\ IF keep THEN reset(p) ELSE closes(p)
    /\ UNCHANGED <<io, serverVars, link, asked, up, callVars>>

\* A session of tcp_server: what was read is copied and goes through on_message_,
\* which may change the copy and shorten it.
session_read(p) ==
    /\ running /\ conn[p].pc = "reading" /\ link[p] # "broken"
    /\ \E n \in {k \in 1..BufferSize : k <= Len(up[p])} :
         /\ up' = [up EXCEPT ![p] = SubSeq(@, n + 1, Len(@))]
         /\ conn' = [conn EXCEPT ![p] = [pc |-> "writing", data |-> SubSeq(up[p], 1, n)]]
    /\ UNCHANGED <<io, serverVars, link, asked, replies, callVars>>

\* The error of the write is not looked at: the next read meets it again.
session_write(p) ==
    /\ running /\ conn[p].pc = "writing"
    /\ replies' = [replies EXCEPT ![p] = IF link[p] = "broken" THEN @ ELSE @ \o conn[p].data]
    /\ conn' = [conn EXCEPT ![p] = [pc |-> "reading", data |-> <<>>]]
    /\ UNCHANGED <<io, serverVars, link, asked, up, callVars>>

\* eof ends session, another error is thrown; both close the socket.
session_error(p) == read_error(p)

connection_step(p) ==
    IF p \in Echoed THEN session_read(p) \/ session_write(p) \/ session_error(p)
    ELSE read(p) \/ read_error(p) \/ write(p)

-----------------------------------------------------------------------------
\* Programs outside, and faults.

listening == server # "idle" /\ signal # "handled"

connects(p) == link' = [link EXCEPT ![p] = "up"] /\ backlog' = Append(backlog, p)

sends(p, r) ==
    /\ asked' = [asked EXCEPT ![p] = Append(@, r)]
    /\ up' = [up EXCEPT ![p] = @ \o r.text]

program_connects(p) ==
    /\ p \notin Calls /\ link[p] = "none" /\ listening /\ connects(p)
    /\ UNCHANGED <<io, server, signal, asked, connVars, callVars>>

program_sends(p, r) ==
    /\ p \notin Calls /\ link[p] = "up" /\ Len(asked[p]) < MaxRequests
    /\ p \notin Pipelined \cup Echoed =>
         Len(replies[p]) = Len(asked[p]) /\ \A i \in DOMAIN replies[p] : replies[p][i].keep
    /\ sends(p, r)
    /\ UNCHANGED <<io, serverVars, link, conn, replies, callVars>>

program_shuts(p) ==
    /\ p \notin Calls /\ link[p] = "up" /\ link' = [link EXCEPT ![p] = "shut"]
    /\ UNCHANGED <<io, serverVars, asked, connVars, callVars>>

connection_breaks(p) ==
    /\ link[p] = "up" /\ link' = [link EXCEPT ![p] = "broken"]
    /\ UNCHANGED <<io, serverVars, asked, connVars, callVars>>
-----------------------------------------------------------------------------
\* Calls.  An answer arrives in four pieces: the beginning of the status line, the
\* rest of it, the headers and the body; the fifth, or the first if there is no
\* answer, is the end of the stream.

sent(p) == IF replies[p] = <<>> THEN 0 ELSE 4
eof(p) == conn[p].pc = "closed" /\ arrived[p] = sent(p) + 1

arrives(p) ==
    /\ call[p] \in {"status", "headers", "reading"} /\ link[p] = "up" /\ ~aborted[p]
    /\ arrived[p] < sent(p) + (IF conn[p].pc = "closed" THEN 1 ELSE 0)
    /\ arrived' = [arrived EXCEPT ![p] = @ + 1]
    /\ UNCHANGED <<io, serverVars, link, asked, connVars, seen, call, bounded, timer,
                   aborted, unnoticed>>

\* The operation that the call awaits can complete.
complete(p) ==
    \/ aborted[p] \/ link[p] = "broken"
    \/ call[p] \in {"connecting", "writing"}
    \/ call[p] = "status" /\ (arrived[p] >= 2 \/ eof(p))
    \/ call[p] = "headers" /\ (arrived[p] >= 3 \/ eof(p))
    \/ call[p] = "reading" /\ arrived[p] > seen[p]

ended(p) == call[p] \in {"returned", "threw"}

\* The call ends: its timer is cancelled and its socket closed.
ends(p, how) ==
    /\ call' = [call EXCEPT ![p] = how]
    /\ timer' = [timer EXCEPT ![p] = IF @ = "pending" THEN "none" ELSE @]
    /\ link' = [link EXCEPT ![p] = IF @ = "up" THEN "shut" ELSE @]
    /\ UNCHANGED <<bounded, unnoticed>>

\* The call goes on with its next operation, having noticed an error or not.
goes_on(p, next) ==
    /\ call' = [call EXCEPT ![p] = next]
    /\ unnoticed' = [unnoticed EXCEPT ![p] = @ \/ aborted[p]]
    /\ UNCHANGED timer

\* The timer is started, and the host name looked up on this thread.
call_starts(p) ==
    /\ running /\ call[p] = "idle"
    /\ call' = [call EXCEPT ![p] = "resolving"]
    /\ timer' = [timer EXCEPT ![p] = "pending"]
    /\ UNCHANGED <<io, serverVars, link, asked, connVars, arrived, seen, bounded,
                   aborted, unnoticed>>

resolve(p) ==
    /\ running /\ call[p] = "resolving" /\ goes_on(p, "connecting")
    /\ UNCHANGED <<io, serverVars, link, bounded, asked, connVars, arrived, seen, aborted>>

\* A bad URL and an unknown host make the call throw.
resolve_fails(p) ==
    /\ running /\ call[p] = "resolving" /\ ends(p, "threw")
    /\ UNCHANGED <<io, serverVars, asked, connVars, arrived, seen, aborted>>

async_connect(p) ==
    /\ running /\ call[p] = "connecting"
    /\ \/ ~aborted[p] /\ listening /\ connects(p) /\ goes_on(p, "writing")
          /\ UNCHANGED bounded
       \/ (aborted[p] \/ ~listening) /\ ends(p, "threw") /\ UNCHANGED backlog
    /\ aborted' = [aborted EXCEPT ![p] = FALSE]
    /\ UNCHANGED <<io, server, signal, asked, connVars, arrived, seen>>

\* A request is short: it is written as a whole or not at all.  http_call goes on
\* after an error.
async_write(p) ==
    LET failed == aborted[p] \/ link[p] = "broken" IN
    /\ running /\ call[p] = "writing"
    /\ IF failed THEN UNCHANGED <<asked, up>>
       ELSE \E r \in IF p \in HttpCalls THEN {HttpRequest} ELSE Requests : sends(p, r)
    /\ IF failed /\ p \in TcpCalls THEN ends(p, "threw")
       ELSE /\ goes_on(p, IF p \in TcpCalls THEN "reading" ELSE "status")
            /\ UNCHANGED <<link, bounded>>
    /\ aborted' = [aborted EXCEPT ![p] = FALSE]
    /\ UNCHANGED <<io, serverVars, conn, replies, arrived, seen>>

\* http_call does not look at the error of the read, but at what was read: a line
\* that breaks off after the status code will do, and is all that it will find.
read_status(p) ==
    LET whole == arrived[p] >= 2
        part == arrived[p] = 1 /\ ~eof(p)
        code == replies[p][1].status
    IN
    /\ running /\ call[p] = "status" /\ complete(p)
    /\ \/ /\ whole \/ part
          /\ code = "ok" /\ goes_on(p, "headers")
          /\ bounded' = [bounded EXCEPT ![p] = whole]
          /\ UNCHANGED link
       \/ (whole => code # "ok") /\ ends(p, "returned")
    /\ aborted' = [aborted EXCEPT ![p] = FALSE]
    /\ UNCHANGED <<io, serverVars, asked, connVars, arrived, seen>>

\* Headers that break off may do so before or after the length.
parse_headers_and_content_length(p) == IF arrived[p] >= 3 THEN {TRUE} ELSE BOOLEAN

\* The error of this read is not looked at either.
read_headers(p) ==
    /\ running /\ call[p] = "headers" /\ complete(p)
    /\ goes_on(p, "reading")
    /\ \E known \in parse_headers_and_content_length(p) :
         bounded' = [bounded EXCEPT ![p] = @ /\ known]
    /\ seen' = [seen EXCEPT ![p] = IF arrived[p] >= 3 THEN 3 ELSE arrived[p]]
    /\ aborted' = [aborted EXCEPT ![p] = FALSE]
    /\ UNCHANGED <<io, serverVars, link, asked, connVars, arrived>>

\* A read of the body, of which an error that is not the end of the stream is thrown.
async_read_some(p, done) ==
    /\ running /\ call[p] = "reading" /\ complete(p)
    /\ IF aborted[p] \/ link[p] = "broken" THEN ends(p, "threw")
       ELSE IF eof(p) \/ done THEN ends(p, "returned")
       ELSE UNCHANGED <<call, timer, link, bounded, unnoticed>>
    /\ seen' = [seen EXCEPT ![p] = arrived[p]]
    /\ aborted' = [aborted EXCEPT ![p] = FALSE]
    /\ UNCHANGED <<io, serverVars, asked, connVars, arrived>>

\* http_call stops at the length it knows, tcp_client::call at the end of the stream.
read_body(p) == p \in HttpCalls /\ async_read_some(p, bounded[p] /\ arrived[p] >= 4)
read_response(p) == p \in TcpCalls /\ async_read_some(p, FALSE)

\* The ten seconds are over.
expires(p) ==
    /\ running /\ timer[p] = "pending" /\ timer' = [timer EXCEPT ![p] = "queued"]
    /\ UNCHANGED <<io, serverVars, link, asked, connVars, arrived, seen, call, bounded,
                   aborted, unnoticed>>

\* Mutant: the handler of the timer does not cancel the socket.
time_out_lazy(p) ==
    /\ running /\ timer[p] = "queued" /\ timer' = [timer EXCEPT ![p] = "done"]
    /\ UNCHANGED <<io, serverVars, link, asked, connVars, arrived, seen, call, bounded,
                   aborted, unnoticed>>

\* The handler of the timer cancels the socket: the operation that is pending
\* completes with an error, unless the completion is already on its way, or there
\* is no operation yet or no longer.
time_out(p) ==
    /\ running /\ timer[p] = "queued" /\ timer' = [timer EXCEPT ![p] = "done"]
    /\ \/ /\ ~ended(p) /\ call[p] # "resolving"
          /\ aborted' = [aborted EXCEPT ![p] = TRUE] /\ UNCHANGED unnoticed
       \/ /\ call[p] = "resolving" \/ complete(p)
          /\ unnoticed' = [unnoticed EXCEPT ![p] = TRUE] /\ UNCHANGED aborted
       \/ ended(p) /\ UNCHANGED <<aborted, unnoticed>>
    /\ UNCHANGED <<io, serverVars, link, asked, connVars, arrived, seen, call, bounded>>

call_step(p) ==
    \/ resolve(p) \/ async_connect(p) \/ async_write(p)
    \/ read_status(p) \/ read_headers(p) \/ read_body(p) \/ read_response(p)
timer_step(p) == expires(p) \/ time_out(p)

program_step(p) ==
    \/ program_connects(p) \/ program_shuts(p)
    \/ \E r \in IF p \in Echoed THEN Messages ELSE Requests : program_sends(p, r)

fault(p) == connection_breaks(p) \/ (p \in Calls /\ resolve_fails(p)) \/ accept_fails

NetworkNext ==
    \/ start \/ raise \/ async_accept \/ accepted \/ close_acceptor \/ stop
    \/ \E p \in Peers : program_step(p) \/ connection_step(p) \/ fault(p)
    \/ \E p \in Calls : call_starts(p) \/ arrives(p) \/ call_step(p) \/ timer_step(p)

NetworkSpec == NetworkInit /\ [][NetworkNext]_network_vars
=============================================================================

------------------------- MODULE NetworkProperties --------------------------
(***************************************************************************)
(* What the servers and the calls of module Network owe their peers, as    *)
(* part of a runtime whose destructor may stop the io pool at any time.    *)
(***************************************************************************)
EXTENDS Runtime

LOCAL INSTANCE SequencesExt

\* What a session has answered is a beginning of what the peer has sent, or all.
stream(p) == FlattenSeq([i \in DOMAIN asked[p] |-> asked[p][i].text])
echoes(p) == IsPrefix(replies[p], stream(p))
echoes_all(p) == replies[p] = stream(p)

\* However its text is cut into reads, a request gets the answer that it would get
\* on a connection of its own, and keeps or closes the connection as it says; of a
\* program that does not wait for answers this is true of its first request, and
\* it gets no more answers than it has sent requests (connection.hpp:41-61).  A
\* session answers what it was sent, in order, and nothing twice; after a write
\* that failed it answers nothing more (server.hpp:36-65).
AnswersMatchRequests ==
    /\ \A p \in Peers \ Echoed :
        /\ Len(replies[p]) <= Len(asked[p])
        /\ \A i \in DOMAIN replies[p] :
              p \notin Pipelined \/ i = 1 =>
                  /\ replies[p][i].status \in asked[p][i].status
                  /\ replies[p][i].keep = asked[p][i].keep
    /\ \A p \in Echoed : echoes(p)

\* When no handler of a connection is ready, it has answered all that it was sent,
\* unless the peer has gone away; and when the handler of a signal has run and none
\* of an accept is ready, the accept loop has ended, unless an accept had completed
\* when the acceptor was closed (http_server.hpp:50-56), which makes it try for ever.
ServerKeepsUp ==
    io = "running" =>
        /\ \A p \in Peers \ Pipelined :
              /\ conn[p].pc # "none" /\ link[p] = "up"
              /\ ~ENABLED connection_runs(p)
              => IF p \in Echoed THEN echoes_all(p)
                 ELSE Len(replies[p]) = Len(asked[p])
        /\ signal = "handled" /\ ~ENABLED accept_step => server \in {"stopped", "spinning"}

\* When no handler of a call is ready and its ten seconds are over, it has ended,
\* unless the timer went off unnoticed: while the host was looked up, when a
\* completion was already on its way, or in an operation whose error http_call
\* does not look at (http_client.hpp:59, 62 and 79).
CallEndsUnlessUnnoticed ==
    io = "running" =>
        \A p \in Calls :
            /\ call[p] # "idle" /\ ~ENABLED (call_runs(p) \/ call_timer_runs(p))
            => ended(p) \/ unnoticed[p]
=============================================================================

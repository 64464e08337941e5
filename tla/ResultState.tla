---------------------------- MODULE ResultState ----------------------------
(***************************************************************************)
(* The state shared by the two ends of a result (result_state_base and     *)
(* result_state<type>): a producer that publishes one outcome, a consumer  *)
(* that waits for it in any of the ways the result API offers, and the     *)
(* atomic m_pc_state through which the two ends agree on who resumes whom  *)
(* and who deletes the state.                                              *)
(*                                                                         *)
(* One step is one access to m_pc_state (or to the semaphore of wait_for), *)
(* together with the private work around it.  The reads and writes of the  *)
(* consumer context that race with the other end are steps of their own.   *)
(***************************************************************************)
EXTENDS Naturals

\* The operations of result<type> that the application uses.
CONSTANT Ops

AllOps == {"status", "wait", "get", "wait_for", "await", "resolve",
           "when_any", "share", "drop"}

ASSUME OpsAssumption == Ops \subseteq AllOps

VARIABLES
    m_pc_state,   \* std::atomic<pc_state>
    m_consumer,   \* consumer_context::m_status
    m_producer,   \* producer_context::m_status
    sem,          \* the binary semaphore of the latest wait_for
    prod,         \* where the producer is
    sig,          \* the consumer context that resume_consumer copied
    cons,         \* where the consumer is
    op,           \* the operation the consumer is in
    seen,         \* the status the latest operation returned
    got,          \* the outcome the consumer fetched
    finished,     \* number of calls of shared_result_state::on_result_finished
    deletions     \* number of calls of delete_self

vars == <<m_pc_state, m_consumer, m_producer, sem, prod, sig, cons, op, seen,
          got, finished, deletions>>

consumerVars == <<cons, op, seen, got, finished>>

PcState == {"idle", "consumer_set", "consumer_waiting", "consumer_done",
            "producer_done"}
ConsumerStatus == {"idle", "await", "wait_for", "when_any", "shared"}
Outcome == {"value", "exception"}
ResultStatus == Outcome \cup {"idle"}

ProducerPc == {"running", "abandoned", "built", "resume", "signal", "notify",
               "done"}
ConsumerPc == {"in_promise", "ready", "set", "cas", "loop", "blocked",
               "acquire", "suspended", "shared", "rewind_load", "rewind_cas",
               "clear", "fetch", "cc_load", "cc_exchange", "gone"}

TypeOK ==
    /\ m_pc_state \in PcState
    /\ m_consumer \in ConsumerStatus
    /\ m_producer \in ResultStatus
    /\ sem \in {0, 1}
    /\ prod \in ProducerPc
    /\ sig \in ConsumerStatus
    /\ cons \in ConsumerPc
    /\ op \in AllOps
    /\ seen \in ResultStatus \cup {"none"}
    /\ got \in Outcome \cup {"none"}
    /\ finished \in Nat
    /\ deletions \in Nat

-----------------------------------------------------------------------------
\* The result is still inside its result_promise, or was returned by a
\* coroutine (get_return_object) and is held by the application.
Init ==
    /\ m_pc_state = "idle"
    /\ m_consumer = "idle"
    /\ m_producer = "idle"
    /\ sem = 0
    /\ prod = "running"
    /\ sig = "idle"
    /\ cons \in {"in_promise", "ready"}
    /\ op = "status"
    /\ seen = "none"
    /\ got = "none"
    /\ finished = 0
    /\ deletions = 0

-----------------------------------------------------------------------------
(* The producer *)

\* set_result, set_exception and from_callable all build the outcome first.
build(o) ==
    /\ prod = "running"
    /\ m_producer' = o
    /\ prod' = "built"
    /\ UNCHANGED <<m_pc_state, m_consumer, sem, sig, consumerVars, deletions>>

set_result == build("value")

set_exception == build("exception")

\* A result_promise that is destroyed or assigned over breaks its task, but
\* only after the result was taken from it.
break_task_if_needed ==
    /\ cons # "in_promise"
    /\ build("exception")

\* result_promise::get_result needs a promise that has not published yet.
get_result ==
    /\ cons = "in_promise"
    /\ prod = "running"
    /\ cons' = "ready"
    /\ UNCHANGED <<m_pc_state, m_consumer, m_producer, sem, prod, sig, op,
                   seen, got, finished, deletions>>

\* The destructor of a result_promise that still holds its result destroys the
\* consumer end first and the producer end, if it is there, after it.
destroy_promise ==
    /\ cons = "in_promise"
    /\ prod \in {"running", "done"}
    /\ cons' = "cc_load"
    /\ op' = "drop"
    /\ prod' = IF prod = "running" THEN "abandoned" ELSE prod
    /\ UNCHANGED <<m_pc_state, m_consumer, m_producer, sem, sig, seen, got,
                   finished, deletions>>

\* Mutant: nobody is notified.
duty_without_notify(state_before) ==
    IF state_before = "consumer_set" THEN "resume" ELSE "done"

\* What the producer owes the consumer it found at its exchange.
duty(state_before) ==
    CASE state_before = "consumer_set"     -> "resume"
      [] state_before = "consumer_waiting" -> "notify"
      [] OTHER                             -> "done"

\* Mutant: the promise destroys its producer end before its consumer end.
complete_producer_first ==
    /\ prod \in {"built", "abandoned"}
    /\ m_pc_state' = "producer_done"
    /\ prod' = duty(m_pc_state)
    /\ deletions' = IF m_pc_state = "consumer_done" THEN deletions + 1
                                                    ELSE deletions
    /\ UNCHANGED <<m_consumer, m_producer, sem, sig, consumerVars>>

\* complete_producer up to and including the exchange.
complete_producer ==
    /\ \/ prod = "built"
       \/ prod = "abandoned" /\ cons = "gone"
    /\ m_pc_state' = "producer_done"
    /\ prod' = duty(m_pc_state)
    /\ deletions' = IF m_pc_state = "consumer_done" THEN deletions + 1
                                                    ELSE deletions
    /\ UNCHANGED <<m_consumer, m_producer, sem, sig, consumerVars>>

\* m_pc_state.notify_one() wakes a thread blocked in m_pc_state.wait.
notify_one ==
    /\ prod = "notify"
    /\ prod' = "done"
    /\ cons' = IF cons = "blocked" THEN "loop" ELSE cons
    /\ UNCHANGED <<m_pc_state, m_consumer, m_producer, sem, sig, op, seen,
                   got, finished, deletions>>

\* resume_consumer reads the consumer context ... (its idle case just returns
\* and is never met: see SignalReachesItsOwner)
resume_consumer ==
    /\ prod = "resume"
    /\ sig' = m_consumer
    /\ prod' = "signal"
    /\ UNCHANGED <<m_pc_state, m_consumer, m_producer, sem, consumerVars,
                   deletions>>

\* ... and acts on the copy: it resumes the awaiting coroutine,
signal_await ==
    /\ sig = "await"
    /\ cons' = IF op = "await" THEN "fetch" ELSE "ready"
    /\ UNCHANGED <<sem, finished>>

\* releases the semaphore,
signal_wait_for ==
    /\ sig = "wait_for"
    /\ sem' = 1
    /\ UNCHANGED <<cons, finished>>

\* offers itself as the completed result of the when_any call, unless another
\* result of that call came first,
signal_when_any ==
    /\ sig = "when_any"
    /\ cons' = IF cons = "suspended" THEN "rewind_load" ELSE cons
    /\ UNCHANGED <<sem, finished>>

\* or tells the shared result state, if that one still exists.
signal_shared ==
    /\ sig = "shared"
    /\ finished' = IF cons = "shared" THEN finished + 1 ELSE finished
    /\ UNCHANGED <<sem, cons>>

signal ==
    /\ prod = "signal"
    /\ prod' = "done"
    /\ \/ signal_await
       \/ signal_wait_for
       \/ signal_when_any
       \/ signal_shared
    /\ UNCHANGED <<m_pc_state, m_consumer, m_producer, sig, op, seen, got,
                   deletions>>

-----------------------------------------------------------------------------
(* The consumer *)

producerVars == <<m_producer, prod, sig>>

\* Where an operation goes once it knows that the producer is done.
done_pc(o) ==
    CASE o \in {"get", "await"} -> "fetch"
      [] o = "share"            -> "shared"
      [] OTHER                  -> "ready"

\* What an operation that learned that the producer is done leaves behind:
\* wait_for returns the status, share finishes the shared state itself.
finish_op(o) ==
    /\ cons' = done_pc(o)
    /\ seen' = IF o = "wait_for" THEN m_producer ELSE seen
    /\ finished' = IF o = "share" THEN finished + 1 ELSE finished

\* status(), and wait_until with a time point that has passed.
status ==
    /\ cons = "ready"
    /\ "status" \in Ops
    /\ seen' = IF m_pc_state = "idle" THEN "idle" ELSE m_producer
    /\ op' = "status"
    /\ UNCHANGED <<m_pc_state, m_consumer, producerVars, sem, cons, got,
                   finished, deletions>>

\* wait, await, wait_for, when_any and share start with a load of m_pc_state
\* and return at once when the producer is done.
load(o) ==
    /\ cons = "ready"
    /\ o \in Ops \ {"status", "drop"}
    /\ op' = o
    /\ IF m_pc_state = "producer_done"
         THEN finish_op(o)
         ELSE /\ cons' = IF o \in {"wait", "get"} THEN "cas" ELSE "set"
              /\ UNCHANGED <<seen, finished>>
    /\ UNCHANGED <<m_pc_state, m_consumer, producerVars, sem, got, deletions>>

context_of(o) ==
    CASE o = "wait_for" -> "wait_for"
      [] o = "when_any" -> "when_any"
      [] o = "share"    -> "shared"
      [] OTHER          -> "await"

\* set_await_handle, set_wait_for_context, set_when_any_context and
\* set_shared_context; wait_for makes its semaphore here.
set_context ==
    /\ cons = "set"
    /\ m_consumer' = context_of(op)
    /\ sem' = IF op = "wait_for" THEN 0 ELSE sem
    /\ cons' = "cas"
    /\ UNCHANGED <<m_pc_state, producerVars, op, seen, got, finished,
                   deletions>>

\* Where an operation goes after it told the producer that it is there.
published_pc(o) ==
    CASE o \in {"wait", "get"} -> "loop"
      [] o = "wait_for"        -> "acquire"
      [] o = "share"           -> "shared"
      [] OTHER                 -> "suspended"

\* The compare-exchange from idle.  when_any drops the answer: it returns the
\* state it loaded, and its caller goes on as if the context were installed.
cas_from_idle ==
    /\ cons = "cas"
    /\ IF m_pc_state = "idle"
         THEN /\ m_pc_state' = IF op \in {"wait", "get"}
                                 THEN "consumer_waiting" ELSE "consumer_set"
              /\ cons' = published_pc(op)
              /\ UNCHANGED <<seen, finished>>
         ELSE /\ IF op = "when_any"
                   THEN cons' = "suspended" /\ UNCHANGED <<seen, finished>>
                   ELSE finish_op(op)
              /\ UNCHANGED m_pc_state
    /\ UNCHANGED <<m_consumer, producerVars, sem, op, got, deletions>>

\* Mutant: the loop of wait() looks for the wrong state.
wait_loop_forever ==
    /\ cons = "loop"
    /\ cons' = IF m_pc_state = "producer_done" THEN "loop" ELSE "blocked"
    /\ UNCHANGED <<m_pc_state, m_consumer, producerVars, sem, op, seen, got,
                   finished, deletions>>

\* One round of the loop of wait(): leave it, or block in m_pc_state.wait,
\* which compares and blocks in one step.
wait_loop ==
    /\ cons = "loop"
    /\ cons' = IF m_pc_state = "producer_done" THEN done_pc(op) ELSE "blocked"
    /\ UNCHANGED <<m_pc_state, m_consumer, producerVars, sem, op, seen, got,
                   finished, deletions>>

\* wait_for acquires its semaphore ...
wait_for_acquired ==
    /\ cons = "acquire"
    /\ sem = 1
    /\ sem' = 0
    /\ cons' = "ready"
    /\ seen' = m_producer
    /\ UNCHANGED <<m_pc_state, m_consumer, producerVars, op, got, finished,
                   deletions>>

\* ... or runs out of time and tries to take its context back.
wait_for_timeout ==
    /\ cons = "acquire"
    /\ cons' = "rewind_cas"
    /\ UNCHANGED <<m_pc_state, m_consumer, producerVars, sem, op, seen, got,
                   finished, deletions>>

\* The coroutine in when_any is resumed by another result of the same call.
resumed_by_other_result ==
    /\ cons = "suspended"
    /\ op = "when_any"
    /\ cons' = "rewind_load"
    /\ UNCHANGED <<m_pc_state, m_consumer, producerVars, sem, op, seen, got,
                   finished, deletions>>

\* The last owner of a shared_result_state destroys it.
destroy_shared ==
    /\ cons = "shared"
    /\ cons' = "rewind_load"
    /\ UNCHANGED <<m_pc_state, m_consumer, producerVars, sem, op, seen, got,
                   finished, deletions>>

\* Where the consumer goes once its context is its own again, or lost.
rewound_pc(o) == IF o = "share" THEN "cc_load" ELSE "ready"

\* try_rewind_consumer
rewind_load ==
    /\ cons = "rewind_load"
    /\ cons' = IF m_pc_state = "consumer_set" THEN "rewind_cas"
                                              ELSE rewound_pc(op)
    /\ UNCHANGED <<m_pc_state, m_consumer, producerVars, sem, op, seen, got,
                   finished, deletions>>

rewind_cas ==
    /\ cons = "rewind_cas"
    /\ IF m_pc_state = "consumer_set"
         THEN /\ m_pc_state' = "idle"
              /\ cons' = "clear"
              /\ UNCHANGED seen
         ELSE /\ cons' = rewound_pc(op)
              /\ seen' = IF op = "wait_for" THEN m_producer ELSE seen
              /\ UNCHANGED m_pc_state
    /\ UNCHANGED <<m_consumer, producerVars, sem, op, got, finished, deletions>>

\* Mutant: the context stays behind.
clear_nothing ==
    /\ cons = "clear"
    /\ cons' = rewound_pc(op)
    /\ seen' = IF op = "wait_for" THEN "idle" ELSE seen
    /\ UNCHANGED <<m_pc_state, m_consumer, producerVars, sem, op, got, finished,
                   deletions>>

\* m_consumer.clear()
clear ==
    /\ cons = "clear"
    /\ m_consumer' = "idle"
    /\ cons' = rewound_pc(op)
    /\ seen' = IF op = "wait_for" THEN "idle" ELSE seen
    /\ UNCHANGED <<m_pc_state, producerVars, sem, op, got, finished, deletions>>

\* get() of a joined state, and its deletion by complete_joined_consumer.
fetch ==
    /\ cons = "fetch"
    /\ got' = m_producer
    /\ deletions' = deletions + 1
    /\ cons' = "gone"
    /\ UNCHANGED <<m_pc_state, m_consumer, producerVars, sem, op, seen,
                   finished>>

\* The destructor of a result calls complete_consumer.
drop ==
    /\ cons = "ready"
    /\ "drop" \in Ops
    /\ op' = "drop"
    /\ cons' = "cc_load"
    /\ UNCHANGED <<m_pc_state, m_consumer, producerVars, sem, seen, got,
                   finished, deletions>>

complete_consumer_load ==
    /\ cons = "cc_load"
    /\ IF m_pc_state = "producer_done"
         THEN cons' = "gone" /\ deletions' = deletions + 1
         ELSE cons' = "cc_exchange" /\ UNCHANGED deletions
    /\ UNCHANGED <<m_pc_state, m_consumer, producerVars, sem, op, seen, got,
                   finished>>

\* Mutant: the state found by the exchange is not looked at.
complete_consumer_store ==
    /\ cons = "cc_exchange"
    /\ cons' = "gone"
    /\ m_pc_state' = "consumer_done"
    /\ UNCHANGED <<m_consumer, producerVars, sem, op, seen, got, finished,
                   deletions>>

complete_consumer_exchange ==
    /\ cons = "cc_exchange"
    /\ cons' = "gone"
    /\ IF m_pc_state = "producer_done"
         THEN deletions' = deletions + 1
         ELSE UNCHANGED deletions
    /\ m_pc_state' = "consumer_done"
    /\ UNCHANGED <<m_consumer, producerVars, sem, op, seen, got, finished>>

-----------------------------------------------------------------------------
\* Both ends have let go: nothing is left to happen.
terminated ==
    /\ cons = "gone"
    /\ prod = "done"
    /\ UNCHANGED vars

producer_end ==
    \/ complete_producer
    \/ notify_one
    \/ resume_consumer
    \/ signal

consumer_step ==
    \/ set_context
    \/ cas_from_idle
    \/ wait_loop
    \/ wait_for_acquired
    \/ wait_for_timeout
    \/ rewind_load
    \/ rewind_cas
    \/ clear
    \/ fetch
    \/ complete_consumer_load
    \/ complete_consumer_exchange

\* What the application decides to do with its result or its promise.
application ==
    \/ set_result
    \/ set_exception
    \/ break_task_if_needed
    \/ get_result
    \/ destroy_promise
    \/ status
    \/ \E o \in Ops : load(o)
    \/ resumed_by_other_result
    \/ destroy_shared
    \/ drop

Next == producer_end \/ consumer_step \/ application \/ terminated

Spec == Init /\ [][Next]_vars

\* A thread inside a call of the library keeps running, and a semaphore with a
\* deadline returns.  Nothing obliges the application to make another call.
FairSpec == Spec /\ WF_vars(producer_end) /\ WF_vars(consumer_step)

-----------------------------------------------------------------------------
(* Properties *)

\* The producer has passed its exchange on m_pc_state.
Published == prod \in {"resume", "signal", "notify", "done"}

\* A consumer that only the producer can set going again: a thread in wait()
\* or get(), or a coroutine suspended in co_await or resolve().
Parked ==
    \/ cons = "blocked"
    \/ cons = "suspended" /\ op \in {"await", "resolve"}

\* delete_self runs exactly once: never before both ends are finished (the
\* consumer gone, the producer past its exchange) and always by the time they
\* are, whichever of complete_producer, complete_consumer and
\* complete_joined_consumer comes last.
DeletedExactlyOnce ==
    deletions = IF cons = "gone" /\ Published THEN 1 ELSE 0

\* complete_producer never leaves a consumer behind: while one is parked, the
\* producer has not reached its exchange or is still on its way to wake it.
NoLostWakeup ==
    Parked => \/ ~Published
              \/ prod = "notify" /\ cons = "blocked"
              \/ prod \in {"resume", "signal"} /\ cons = "suspended"

\* resume_consumer acts only on the context of the operation that is waiting:
\* it never finds the context empty, never resumes a coroutine that is not
\* suspended in await or resolve, and what it signals to a consumer that does
\* wait is what that consumer waits for.
SignalReachesItsOwner ==
    prod = "signal" =>
        /\ sig # "idle"
        /\ sig = "await" => cons = "suspended" /\ op \in {"await", "resolve"}
        /\ cons \in {"suspended", "acquire"} => sig = context_of(op)

\* The assertions the code writes down: a context is installed only over an
\* idle one (set_*_context), a compare-exchange fails only because the producer
\* is done (assert_done), status never meets consumer_set, and
\* complete_consumer finds idle or producer_done.
AssertionsHold ==
    /\ cons = "set" => m_consumer = "idle"
    /\ cons = "cas" => m_pc_state \in {"idle", "producer_done"}
    /\ cons = "rewind_cas" => m_pc_state \in {"consumer_set", "producer_done"}
    /\ cons = "ready" => m_pc_state \in {"idle", "producer_done"}
    /\ cons \in {"cc_load", "cc_exchange"} =>
          m_pc_state \in {"idle", "producer_done"}
    /\ cons = "fetch" => m_pc_state = "producer_done"

\* What the consumer learns is what the producer built: a status other than
\* idle and a fetched outcome are the outcome, and get() is never reached
\* before the outcome is there.
ObservedIsProduced ==
    /\ seen \in Outcome => seen = m_producer
    /\ got # "none" => got = m_producer
    /\ cons = "fetch" => m_producer \in Outcome

\* A shared result state hears of the outcome exactly once: from the producer,
\* or from share() itself when the producer was faster, never from both, and
\* never from nobody while it exists.
SharedFinishedOnce ==
    /\ finished <= 1
    /\ cons = "shared" /\ prod = "done" => finished = 1

\* The consumer context is not read by resume_consumer once the state that
\* holds it was deleted.
ContextOutlivesResume == prod = "resume" => deletions = 0

\* Publication is final: an outcome never changes once it was built, and
\* m_pc_state leaves producer_done only in the exchange of the consumer that
\* deletes the state.
PublicationIsFinal ==
    [][/\ m_producer # "idle" => m_producer' = m_producer
       /\ m_pc_state = "producer_done" /\ m_pc_state' # "producer_done" =>
             deletions' = deletions + 1]_vars

\* Somebody waits for the outcome: a consumer in wait, get, co_await or
\* resolve, or a shared result state that was not told yet.
Waiting ==
    \/ Parked
    \/ cons = "loop"
    \/ cons = "shared" /\ finished = 0

\* Once the outcome is built, whoever waits for it gets it: wait and get
\* return, the suspended coroutine runs again and the shared state is told.
EveryWaitEnds == Waiting /\ prod = "built" ~> ~Waiting

-----------------------------------------------------------------------------
(* The inductive invariant behind the safety properties *)

\* How far the outcome is, seen from the producer.
OutcomeInv ==
    /\ prod = "running" => m_producer = "idle"
    /\ prod = "abandoned" =>
          m_producer = "idle" /\ cons \in {"cc_load", "cc_exchange", "gone"}
    /\ prod \in {"built", "resume", "signal", "notify"} => m_producer \in Outcome
    /\ prod = "done" /\ m_producer = "idle" => cons = "gone"
    /\ seen \in Outcome => seen = m_producer
    /\ got # "none" => got = m_producer

\* What m_pc_state can be, given where the two ends are.
PcStateInv ==
    /\ ~Published => m_pc_state # "producer_done"
    /\ Published => \/ m_pc_state = "producer_done"
                    \/ m_pc_state = "consumer_done" /\ cons = "gone"
    /\ ~Published /\ cons = "gone" => m_pc_state = "consumer_done"
    /\ cons \in {"in_promise", "ready", "set", "cas", "clear", "cc_load",
                 "cc_exchange"} => m_pc_state \in {"idle", "producer_done"}
    /\ cons = "fetch" => m_pc_state = "producer_done"
    /\ cons \in {"loop", "blocked"} =>
          m_pc_state \in {"consumer_waiting", "producer_done"}
    /\ cons \in {"acquire", "suspended", "shared", "rewind_load", "rewind_cas"} =>
          m_pc_state \in {"consumer_set", "producer_done"}

\* Which operation the consumer can be in, given where it is.
OpInv ==
    /\ cons \in {"loop", "blocked"} => op \in {"wait", "get"}
    /\ cons = "set" => op \in {"wait_for", "await", "resolve", "when_any", "share"}
    /\ cons = "cas" => op \notin {"status", "drop"}
    /\ cons = "acquire" => op = "wait_for"
    /\ cons = "suspended" => op \in {"await", "resolve", "when_any"}
    /\ cons = "shared" => op = "share"
    /\ cons \in {"in_promise", "ready", "fetch"} => op # "share"
    /\ cons = "rewind_load" => op \in {"when_any", "share"}
    /\ cons \in {"rewind_cas", "clear"} => op \in {"wait_for", "when_any", "share"}

\* The consumer context is idle or that of the operation in progress until
\* the producer has passed its exchange, and is left alone after it.
ContextInv ==
    /\ cons \in {"in_promise", "set"} => m_consumer = "idle"
    /\ cons \in {"ready", "cc_load", "cc_exchange"} /\ ~Published =>
          m_consumer = "idle"
    /\ cons = "cas" /\ op \in {"wait", "get"} /\ ~Published => m_consumer = "idle"
    /\ cons \in {"loop", "blocked"} /\ ~Published => m_consumer = "idle"
    /\ cons = "cas" /\ op \notin {"wait", "get"} => m_consumer = context_of(op)
    /\ m_pc_state = "consumer_set" => m_consumer = context_of(op)
    /\ cons \in {"acquire", "suspended"} => m_consumer = context_of(op)
    /\ prod = "signal" => sig = m_consumer
    /\ sem = 1 => Published

\* What the producer still owes, and to whom.
DutyInv ==
    /\ prod \in {"resume", "signal"} => m_consumer # "idle"
    /\ prod \in {"resume", "signal"} /\ m_consumer = "await" =>
          cons = "suspended" /\ op \in {"await", "resolve"}
    /\ cons \in {"set", "cas", "clear"} => prod \notin {"resume", "signal", "notify"}
    /\ cons = "blocked" /\ Published => prod = "notify"
    /\ cons = "suspended" /\ op \in {"await", "resolve"} /\ Published =>
          prod \in {"resume", "signal"}

\* How often the shared state was told.
SharedInv ==
    /\ finished <= 1
    /\ ~Published => finished = 0
    /\ cons = "shared" /\ prod \in {"notify", "done"} => finished = 1
    /\ finished = 1 =>
          /\ op = "share"
          /\ cons \in {"shared", "rewind_load", "rewind_cas", "cc_load",
                      "cc_exchange", "gone"}
    /\ m_consumer = "shared" => op = "share"
    /\ prod \in {"resume", "signal"} /\ m_consumer = "shared" => finished = 0
    /\ prod \in {"resume", "signal"} /\ m_consumer # "shared" /\ cons = "shared" =>
          finished = 1

Inv ==
    /\ TypeOK
    /\ OutcomeInv
    /\ PcStateInv
    /\ OpInv
    /\ ContextInv
    /\ DutyInv
    /\ SharedInv
    /\ DeletedExactlyOnce

-----------------------------------------------------------------------------
\* The result a consumer sees: published by the exchange on m_pc_state,
\* delivered by the fetch.
Promise == INSTANCE Future WITH
    Outcomes  <- Outcome,
    None      <- "idle",
    published <- IF Published THEN m_producer ELSE "idle",
    delivered <- IF got = "none" THEN "idle" ELSE got,
    producing <- ~Published,
    consuming <- cons # "gone"

\* The protocol on m_pc_state implements a one-shot future: one publication,
\* at most one delivery, of what was published.
ImplementsFuture == Promise!Spec
=============================================================================

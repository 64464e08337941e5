---------------------------- MODULE SharedResult ----------------------------
(***************************************************************************)
(* shared_result_state: a result state with one producer whose outcome is  *)
(* handed to any number of consumers, some blocked in wait or wait_for and *)
(* some suspended in co_await.                                             *)
(*                                                                         *)
(* on_result_finished runs on the producer's thread, through the weak      *)
(* pointer in the consumer context, or on the thread that constructs the   *)
(* shared_result when the producer was faster; it is taken step by step.   *)
(* The reference count is the set of those who hold a shared_ptr.  What    *)
(* the destructor does to the result state is one step here; ResultState   *)
(* takes it apart.                                                         *)
(***************************************************************************)
EXTENDS Naturals, Sequences, FiniteSets

CONSTANT Threads     \* the consumers, each with a copy of the shared_result

\* Who can run on_result_finished.
Producer == "producer"
Constructor == "constructor"

ASSUME ThreadsAssumption ==
    /\ IsFiniteSet(Threads)
    /\ Producer \notin Threads
    /\ Constructor \notin Threads

VARIABLES
    m_pc_state,   \* of the result state underneath
    producer,     \* where the producer is
    constructor,  \* where the constructor of the first shared_result is
    finish,       \* where on_result_finished is
    runner,       \* who runs it
    m_status,     \* result_status of the shared state: idle or not
    m_semaphore,  \* its count
    m_awaiters,   \* the stack of awaiters, newest first
    ready,        \* m_awaiters was exchanged for the ready constant
    list,         \* the awaiters on_result_finished still has to resume
    thread,       \* where each consumer is
    expected,     \* the stack an awaiter loaded
    holders,      \* who holds a shared_ptr to the shared state
    pushed,       \* history: awaiters in the order in which they suspended
    resumed       \* history: awaiters in the order in which they were resumed

vars == <<m_pc_state, producer, constructor, finish, runner, m_status,
          m_semaphore, m_awaiters, ready, list, thread, expected, holders,
          pushed, resumed>>

threadVars == <<thread, expected, pushed>>
finishVars == <<finish, runner, m_status, m_semaphore, ready, list, resumed>>

Init ==
    /\ m_pc_state = "idle"
    /\ producer = "running"
    /\ constructor = "load"
    /\ finish = "idle"
    /\ runner = "nobody"
    /\ m_status = "idle"
    /\ m_semaphore = 0
    /\ m_awaiters = <<>>
    /\ ready = FALSE
    /\ list = <<>>
    /\ thread = [t \in Threads |-> "ready"]
    /\ expected = [t \in Threads |-> <<>>]
    /\ holders = {Constructor}
    /\ pushed = <<>>
    /\ resumed = <<>>

-----------------------------------------------------------------------------
(* The constructor shared_result(result) and result_state_base::share *)

start_finish(who) ==
    /\ finish' = "store"
    /\ runner' = who

share_load ==
    /\ constructor = "load"
    /\ IF m_pc_state = "producer_done"
         THEN constructor' = "finishing" /\ start_finish(Constructor)
         ELSE constructor' = "cas" /\ UNCHANGED <<finish, runner>>
    /\ UNCHANGED <<m_pc_state, producer, m_status, m_semaphore, m_awaiters,
                   ready, list, threadVars, holders, resumed>>

\* Copies are made of a constructed shared_result only: the threads get theirs
\* when the constructor returns.
constructed ==
    /\ constructor' = "done"
    /\ holders' = (holders \ {Constructor}) \cup Threads

\* Mutant: a producer that was faster is not noticed.
share_cas_ignored ==
    /\ constructor = "cas"
    /\ m_pc_state' = IF m_pc_state = "idle" THEN "consumer_set" ELSE m_pc_state
    /\ constructed
    /\ UNCHANGED <<producer, finishVars, m_awaiters, threadVars>>

share_cas ==
    /\ constructor = "cas"
    /\ IF m_pc_state = "idle"
         THEN /\ m_pc_state' = "consumer_set"
              /\ constructed
              /\ UNCHANGED <<finish, runner>>
         ELSE /\ constructor' = "finishing"
              /\ start_finish(Constructor)
              /\ UNCHANGED <<m_pc_state, holders>>
    /\ UNCHANGED <<producer, m_status, m_semaphore, m_awaiters, ready, list,
                   threadVars, resumed>>

-----------------------------------------------------------------------------
(* The producer *)

complete_producer ==
    /\ producer = "running"
    /\ m_pc_state' = "producer_done"
    /\ producer' = IF m_pc_state = "consumer_set" THEN "resume" ELSE "done"
    /\ UNCHANGED <<constructor, finishVars, m_awaiters, threadVars, holders>>

\* Mutant: a plain pointer, which keeps nothing alive.
lock_nothing ==
    /\ producer = "resume"
    /\ IF holders # {}
         THEN producer' = "finishing" /\ start_finish(Producer)
         ELSE producer' = "done" /\ UNCHANGED <<finish, runner>>
    /\ UNCHANGED <<m_pc_state, constructor, m_status, m_semaphore, m_awaiters,
                   ready, list, threadVars, holders, resumed>>

\* resume_consumer locks the weak pointer: the shared state is told if it
\* still exists, and exists as long as it is being told.
lock_weak ==
    /\ producer = "resume"
    /\ IF holders # {}
         THEN /\ producer' = "finishing"
              /\ holders' = holders \cup {Producer}
              /\ start_finish(Producer)
         ELSE producer' = "done" /\ UNCHANGED <<holders, finish, runner>>
    /\ UNCHANGED <<m_pc_state, constructor, m_status, m_semaphore, m_awaiters,
                   ready, list, threadVars, resumed>>

-----------------------------------------------------------------------------
(* on_result_finished *)

store_status ==
    /\ finish = "store"
    /\ m_status' = "finished"
    /\ finish' = "notify"
    /\ UNCHANGED <<m_pc_state, producer, constructor, runner, m_semaphore,
                   m_awaiters, ready, list, threadVars, holders, resumed>>

notify_all ==
    /\ finish = "notify"
    /\ thread' = [t \in Threads |-> IF thread[t] = "blocked" THEN "ready"
                                                             ELSE thread[t]]
    /\ finish' = "release"
    /\ UNCHANGED <<m_pc_state, producer, constructor, runner, m_status,
                   m_semaphore, m_awaiters, ready, list, expected, holders,
                   pushed, resumed>>

\* Half of the maximum count, which is more than there are waiters.
release ==
    /\ finish = "release"
    /\ m_semaphore' = Cardinality(Threads)
    /\ finish' = "exchange"
    /\ UNCHANGED <<m_pc_state, producer, constructor, runner, m_status,
                   m_awaiters, ready, list, threadVars, holders, resumed>>

\* Mutant: the newest first.
not_reversed(s) == s

reversed(s) == [k \in 1..Len(s) |-> s[Len(s) + 1 - k]]

\* The stack is taken whole, marked ready, and turned around.
exchange ==
    /\ finish = "exchange"
    /\ list' = reversed(m_awaiters)
    /\ m_awaiters' = <<>>
    /\ ready' = TRUE
    /\ finish' = "resume"
    /\ UNCHANGED <<m_pc_state, producer, constructor, runner, m_status,
                   m_semaphore, threadVars, holders, resumed>>

\* caller_handle() for one awaiter after the other.
resume_awaiter ==
    /\ finish = "resume"
    /\ list # <<>>
    /\ thread' = [thread EXCEPT ![Head(list)] = "ready"]
    /\ resumed' = Append(resumed, Head(list))
    /\ list' = Tail(list)
    /\ UNCHANGED <<m_pc_state, producer, constructor, finish, runner, m_status,
                   m_semaphore, m_awaiters, ready, expected, holders, pushed>>

\* ~shared_result_state, when the last shared_ptr goes: rewind and
\* complete_consumer.
release_reference(h) ==
    /\ holders' = holders \ {h}
    /\ m_pc_state' = IF holders = {h} /\ m_pc_state # "producer_done"
                       THEN "consumer_done" ELSE m_pc_state

on_result_finished_returns ==
    /\ finish = "resume"
    /\ list = <<>>
    /\ finish' = "done"
    /\ IF runner = Producer
         THEN /\ producer' = "done"
              /\ release_reference(Producer)
              /\ UNCHANGED constructor
         ELSE constructed /\ UNCHANGED <<producer, m_pc_state>>
    /\ UNCHANGED <<runner, m_status, m_semaphore, m_awaiters, ready, list,
                   threadVars, resumed>>

-----------------------------------------------------------------------------
(* The consumers *)

\* A thread may use its copy once the constructor has returned.
idle(t) == constructor = "done" /\ thread[t] = "ready"

otherVars == <<m_pc_state, producer, constructor, finishVars, holders>>

goto(t, where) == thread' = [thread EXCEPT ![t] = where]

wait(t) ==
    /\ idle(t)
    /\ m_status = "idle"
    /\ goto(t, "wait")
    /\ UNCHANGED <<otherVars, m_awaiters, expected, pushed>>

\* Mutant: blocks on a status that was read earlier.
wait_on_status_unchecked(t) ==
    /\ thread[t] = "wait"
    /\ goto(t, "blocked")
    /\ UNCHANGED <<otherVars, m_awaiters, expected, pushed>>

\* m_status.wait compares and blocks in one step.
wait_on_status(t) ==
    /\ thread[t] = "wait"
    /\ goto(t, IF m_status = "idle" THEN "blocked" ELSE "ready")
    /\ UNCHANGED <<otherVars, m_awaiters, expected, pushed>>

\* The head of the loop of wait_until, entered from the application or after a
\* try_acquire_until; the clock may have run out or not.
wait_until_load(t) ==
    /\ idle(t) \/ thread[t] = "wait_until"
    /\ \/ m_status = "idle" /\ goto(t, "acquire")
       \/ thread[t] = "wait_until" /\ goto(t, "ready")
    /\ UNCHANGED <<otherVars, m_awaiters, expected, pushed>>

try_acquire_until(t) ==
    /\ thread[t] = "acquire"
    /\ m_semaphore > 0
    /\ m_semaphore' = m_semaphore - 1
    /\ goto(t, "wait_until")
    /\ UNCHANGED <<m_pc_state, producer, constructor, finish, runner, m_status,
                   m_awaiters, ready, list, expected, holders, pushed, resumed>>

try_acquire_timeout(t) ==
    /\ thread[t] = "acquire"
    /\ goto(t, "wait_until")
    /\ UNCHANGED <<otherVars, m_awaiters, expected, pushed>>

\* shared_result_state_base::await: the load, which finds the ready constant or
\* the stack; co_await and resolve alike.
await_load(t) ==
    /\ idle(t) \/ thread[t] = "load"
    /\ IF ready
         THEN goto(t, "ready") /\ UNCHANGED expected
         ELSE /\ goto(t, "cas")
              /\ expected' = [expected EXCEPT ![t] = m_awaiters]
    /\ UNCHANGED <<otherVars, m_awaiters, pushed>>

\* Mutant: a push that forgets the ready constant.
await_cas_after_ready(t) ==
    /\ thread[t] = "cas"
    /\ m_awaiters = expected[t]
    /\ m_awaiters' = <<t>> \o m_awaiters
    /\ pushed' = Append(pushed, t)
    /\ goto(t, "suspended")
    /\ UNCHANGED <<otherVars, expected>>

\* The compare-exchange, which is a weak one: it may fail for no reason.
await_cas(t) ==
    /\ thread[t] = "cas"
    /\ \/ /\ ~ready /\ m_awaiters = expected[t]
          /\ m_awaiters' = <<t>> \o m_awaiters
          /\ pushed' = Append(pushed, t)
          /\ goto(t, "suspended")
       \/ goto(t, "load") /\ UNCHANGED <<m_awaiters, pushed>>
    /\ UNCHANGED <<otherVars, expected>>

\* ~shared_result.
drop(t) ==
    /\ idle(t)
    /\ goto(t, "gone")
    /\ release_reference(t)
    /\ UNCHANGED <<producer, constructor, finishVars, m_awaiters, expected, pushed>>

-----------------------------------------------------------------------------
share == share_load \/ share_cas

on_result_finished ==
    \/ store_status
    \/ notify_all
    \/ release
    \/ exchange
    \/ resume_awaiter
    \/ on_result_finished_returns

produce == complete_producer \/ lock_weak

step(t) ==
    \/ wait_on_status(t)
    \/ wait_until_load(t) /\ thread[t] = "wait_until"
    \/ try_acquire_until(t)
    \/ try_acquire_timeout(t)
    \/ await_load(t) /\ thread[t] = "load"

call(t) ==
    \/ wait(t)
    \/ wait_until_load(t)
    \/ await_load(t)
    \/ drop(t)

\* Every copy is gone and the producer has let go.
terminated ==
    /\ producer = "done"
    /\ \A t \in Threads : thread[t] = "gone"
    /\ UNCHANGED vars

Next ==
    \/ share
    \/ produce
    \/ on_result_finished
    \/ \E t \in Threads : step(t) \/ await_cas(t) \/ call(t)
    \/ terminated

Spec == Init /\ [][Next]_vars

\* The task ends, threads that are not blocked run on, and timeouts expire.
\* Nothing is assumed of how often a weak compare-exchange succeeds.
FairSpec ==
    /\ Spec
    /\ WF_vars(share)
    /\ WF_vars(produce)
    /\ WF_vars(on_result_finished)
    /\ \A t \in Threads : WF_vars(step(t)) /\ WF_vars(await_cas(t))

-----------------------------------------------------------------------------
(* Properties *)

elements(s) == {s[k] : k \in 1..Len(s)}

\* No consumer is lost.  No awaiter is dropped between await and on_result_finished: the suspended
\* coroutines are exactly those on the stack or in the list being resumed,
\* each of them once, and nothing is pushed after the ready constant.  After the
\* release there is a permit for every thread inside try_acquire_until, so that
\* none of them sleeps until its timeout.
NoConsumerLost ==
    /\ {t \in Threads : thread[t] = "suspended"} = elements(m_awaiters \o list)
    /\ Cardinality(elements(m_awaiters \o list)) = Len(m_awaiters) + Len(list)
    /\ ready => m_awaiters = <<>>
    /\ finish \in {"exchange", "resume", "done"} =>
          Cardinality({t \in Threads : thread[t] = "acquire"}) <= m_semaphore

\* on_result_finished resumes the awaiters in the order in which they
\* suspended, which is why it reverses the stack.
ResumedInOrder ==
    /\ Len(resumed) <= Len(pushed)
    /\ resumed = SubSeq(pushed, 1, Len(resumed))

\* The shared state outlives on_result_finished, even if an awaiter that was
\* just resumed, or any other consumer, drops the last copy.
AliveWhileFinishing ==
    finish \notin {"idle", "done"} => holders # {}

\* When constructor and producer are both through, the shared state has been
\* told of the outcome unless nobody holds it any more.
ToldWhenBothAreDone ==
    producer = "done" /\ constructor = "done" /\ holders # {} => finish = "done"

\* A blocked thread and a suspended coroutine go on.
EveryConsumerReleased ==
    \A t \in Threads : thread[t] \in {"wait", "blocked", "acquire", "suspended"}
                           ~> thread[t] = "ready"

-----------------------------------------------------------------------------
(* The inductive invariant *)

TypeOK ==
    /\ m_pc_state \in {"idle", "consumer_set", "producer_done", "consumer_done"}
    /\ producer \in {"running", "resume", "finishing", "done"}
    /\ constructor \in {"load", "cas", "finishing", "done"}
    /\ finish \in {"idle", "store", "notify", "release", "exchange", "resume", "done"}
    /\ runner \in {"nobody", Producer, Constructor}
    /\ m_status \in {"idle", "finished"}
    /\ m_semaphore \in Nat
    /\ ready \in BOOLEAN
    /\ m_awaiters \in Seq(Threads) /\ list \in Seq(Threads)
    /\ pushed \in Seq(Threads) /\ resumed \in Seq(Threads)
    /\ expected \in [Threads -> Seq(Threads)]
    /\ thread \in [Threads -> {"ready", "wait", "blocked", "wait_until", "acquire",
                              "load", "cas", "suspended", "gone"}]
    /\ holders \subseteq Threads \cup {Producer, Constructor}

finishing == finish \notin {"idle", "done"}

\* How share and complete_producer settle who runs on_result_finished: the one
\* who reaches m_pc_state second, holding a reference while it runs.
OneRunner ==
    /\ producer = "running" <=> m_pc_state # "producer_done"
    /\ producer \in {"resume", "finishing"} => constructor = "done"
    /\ producer = "finishing" <=> finishing /\ runner = Producer
    /\ constructor = "finishing" <=> finishing /\ runner = Constructor
    /\ constructor = "finishing" => producer = "done"
    /\ constructor \in {"load", "cas"} => m_pc_state \in {"idle", "producer_done"}
    /\ constructor = "done" => m_pc_state # "idle"
    /\ finish # "idle" <=> runner # "nobody"
    /\ finish # "idle" => constructor \in {"finishing", "done"}
    /\ producer = "running" \/ producer = "resume" => finish = "idle"
    /\ m_pc_state = "consumer_done" => holders = {}

\* The references: the constructor's until it returns, then one for each
\* consumer that has not dropped its copy, and the one behind the weak pointer.
HoldersArePlaces ==
    /\ Constructor \in holders <=> constructor # "done"
    /\ Producer \in holders <=> producer = "finishing"
    /\ \A t \in Threads : t \in holders <=> constructor = "done" /\ thread[t] # "gone"
    /\ constructor # "done" => \A t \in Threads : thread[t] = "ready"

\* Every awaiter that suspended was resumed, is in the list, or is on the stack,
\* which read in this order are the awaiters in the order in which they came.
AwaitersInOrder ==
    /\ Len(pushed) = Len(resumed) + Len(list) + Len(m_awaiters)
    /\ \A k \in 1..Len(resumed) : resumed[k] = pushed[k]
    /\ \A k \in 1..Len(list) : list[k] = pushed[Len(resumed) + k]
    /\ \A k \in 1..Len(m_awaiters) : m_awaiters[k] = pushed[Len(pushed) + 1 - k]
    /\ \A j, k \in 1..Len(pushed) : pushed[j] = pushed[k] => j = k
    /\ \A k \in Len(resumed) + 1..Len(pushed) : thread[pushed[k]] = "suspended"
    /\ \A t \in Threads : thread[t] = "suspended" =>
          \E k \in Len(resumed) + 1..Len(pushed) : pushed[k] = t
    /\ ready <=> finish \in {"resume", "done"}
    /\ ready => m_awaiters = <<>>
    /\ ~ready => list = <<>> /\ resumed = <<>>
    /\ finish = "done" => list = <<>>

\* After the release nobody starts to wait for the semaphore, and there is a
\* permit for everyone who does.
PermitsSuffice ==
    /\ finish \notin {"idle", "store"} => m_status = "finished"
    /\ finish \in {"exchange", "resume", "done"} =>
          Cardinality({t \in Threads : thread[t] = "acquire"}) <= m_semaphore

Inv ==
    /\ TypeOK
    /\ OneRunner
    /\ HoldersArePlaces
    /\ AwaitersInOrder
    /\ PermitsSuffice
    /\ ToldWhenBothAreDone
=============================================================================

------------------------------ MODULE WhenAny ------------------------------
(***************************************************************************)
(* when_any: one coroutine registers one when_any_context with the states  *)
(* of several results and is resumed by the first of their producers.  The *)
(* application calls when_any again and again on the results that are left,*)
(* so producers that lost the race of one call run into the next one.      *)
(*                                                                         *)
(* Of each result state only what when_any touches is kept: m_pc_state and *)
(* the context in m_consumer, named by the number of the call that made it.*)
(***************************************************************************)
EXTENDS Naturals, Sequences

CONSTANTS N,          \* number of results
          MaxCalls    \* bound on the number of when_any calls

ASSUME WhenAnyAssumption == N \in Nat \ {0} /\ MaxCalls \in Nat \ {0}

Results == 1..N
Calls == 1..MaxCalls

VARIABLES
    m_pc_state,   \* of each result state
    m_consumer,   \* the call whose context each state holds, 0 for none
    m_status,     \* of each call's when_any_context
    producer,     \* where the producer of each result is
    context,      \* the context a producer copied in resume_consumer
    pc,           \* where the awaiting coroutine is
    call,         \* the current call of when_any
    input,        \* the results passed to it
    i             \* the index its loops have reached

vars == <<m_pc_state, m_consumer, m_status, producer, context, pc, call,
          input, i>>

coroutineVars == <<pc, call, input, i>>

k_processing == <<"processing", 0>>
k_done_processing == <<"done_processing", 0>>
completed(s) == <<"completed", s>>

Init ==
    /\ m_pc_state = [s \in Results |-> "idle"]
    /\ m_consumer = [s \in Results |-> 0]
    /\ m_status = [c \in Calls |-> k_processing]
    /\ producer = [s \in Results |-> "running"]
    /\ context = [s \in Results |-> 0]
    /\ pc = "outside"
    /\ call = 0
    /\ input = [k \in Results |-> k]
    /\ i = 0

-----------------------------------------------------------------------------
(* The producers *)

\* complete_producer: the outcome is published and the old state looked at.
complete_producer(s) ==
    /\ producer[s] = "running"
    /\ m_pc_state' = [m_pc_state EXCEPT ![s] = "producer_done"]
    /\ producer' = [producer EXCEPT ![s] =
                      IF m_pc_state[s] = "consumer_set" THEN "resume" ELSE "done"]
    /\ UNCHANGED <<m_consumer, m_status, context, coroutineVars>>

\* resume_consumer copies the pointer to the context.
resume_consumer(s) ==
    /\ producer[s] = "resume"
    /\ context' = [context EXCEPT ![s] = m_consumer[s]]
    /\ producer' = [producer EXCEPT ![s] = "try"]
    /\ UNCHANGED <<m_pc_state, m_consumer, m_status, coroutineVars>>

\* One round of try_resume: bail out if another result was first, otherwise
\* try to become the completed one.
try_resume_load(s) ==
    /\ producer[s] = "try"
    /\ LET status == m_status[context[s]]
       IN  producer' = [producer EXCEPT ![s] =
               CASE status = k_processing      -> "cas_processing"
                 [] status = k_done_processing -> "cas_done"
                 [] OTHER                      -> "done"]
    /\ UNCHANGED <<m_pc_state, m_consumer, m_status, context, coroutineVars>>

\* Mutant: a store, so that every producer believes that it was the first.
try_resume_store_done(s) ==
    /\ producer[s] = "cas_done"
    /\ m_status' = [m_status EXCEPT ![context[s]] = completed(s)]
    /\ producer' = [producer EXCEPT ![s] = "call"]
    /\ UNCHANGED <<m_pc_state, m_consumer, context, coroutineVars>>

\* The coroutine is suspended: whoever swaps the status resumes it.
try_resume_cas_done(s) ==
    /\ producer[s] = "cas_done"
    /\ IF m_status[context[s]] = k_done_processing
         THEN /\ m_status' = [m_status EXCEPT ![context[s]] = completed(s)]
              /\ producer' = [producer EXCEPT ![s] = "call"]
         ELSE /\ producer' = [producer EXCEPT ![s] = "done"]
              /\ UNCHANGED m_status
    /\ UNCHANGED <<m_pc_state, m_consumer, context, coroutineVars>>

\* Mutant: no retry after a lost compare-exchange.
try_resume_no_retry(s) ==
    /\ producer[s] = "cas_processing"
    /\ producer' = [producer EXCEPT ![s] = "done"]
    /\ m_status' = [m_status EXCEPT ![context[s]] =
                      IF @ = k_processing THEN completed(s) ELSE @]
    /\ UNCHANGED <<m_pc_state, m_consumer, context, coroutineVars>>

\* The coroutine is still registering: leave the pointer for it, or retry.
try_resume_cas_processing(s) ==
    /\ producer[s] = "cas_processing"
    /\ IF m_status[context[s]] = k_processing
         THEN /\ m_status' = [m_status EXCEPT ![context[s]] = completed(s)]
              /\ producer' = [producer EXCEPT ![s] = "done"]
         ELSE /\ producer' = [producer EXCEPT ![s] = "try"]
              /\ UNCHANGED m_status
    /\ UNCHANGED <<m_pc_state, m_consumer, context, coroutineVars>>

\* m_coro_handle(): await_resume runs on the thread of the producer.
call_handle(s) ==
    /\ producer[s] = "call"
    /\ producer' = [producer EXCEPT ![s] = "done"]
    /\ pc' = "rewind"
    /\ i' = 1
    /\ UNCHANGED <<m_pc_state, m_consumer, m_status, context, call, input>>

-----------------------------------------------------------------------------
(* The coroutine *)

producerVars == <<producer, context>>

\* await_suspend makes a fresh context.
when_any ==
    /\ pc = "outside"
    /\ input # <<>>
    /\ call < MaxCalls
    /\ call' = call + 1
    /\ m_status' = [m_status EXCEPT ![call + 1] = k_processing]
    /\ pc' = "check"
    /\ i' = 1
    /\ UNCHANGED <<m_pc_state, m_consumer, producerVars, input>>

\* The head of the loop, with any_result_finished.
check ==
    /\ pc = "check"
    /\ IF i > Len(input)
         THEN pc' = "finish" /\ UNCHANGED i
         ELSE IF m_status[call] # k_processing
                THEN pc' = "rewind" /\ i' = 1
                ELSE pc' = "load" /\ UNCHANGED i
    /\ UNCHANGED <<m_pc_state, m_consumer, m_status, producerVars, call, input>>

\* result_state_base::when_any: the load, and set_when_any_context.
load ==
    /\ pc = "load"
    /\ LET s == input[i]
       IN  IF m_pc_state[s] = "producer_done"
             THEN pc' = "inline" /\ UNCHANGED m_consumer
             ELSE /\ pc' = "cas"
                  /\ m_consumer' = [m_consumer EXCEPT ![s] = call]
    /\ UNCHANGED <<m_pc_state, m_status, producerVars, call, input, i>>

\* The compare-exchange.  Whether it worked or not, what is returned is the
\* state loaded before, and the loop goes on to the next result.
cas ==
    /\ pc = "cas"
    /\ m_pc_state' = [m_pc_state EXCEPT ![input[i]] =
                        IF @ = "idle" THEN "consumer_set" ELSE @]
    /\ pc' = "check"
    /\ i' = i + 1
    /\ UNCHANGED <<m_consumer, m_status, producerVars, call, input>>

\* resume_inline: name this result unless another one was faster.
resume_inline ==
    /\ pc = "inline"
    /\ m_status' = [m_status EXCEPT ![call] =
                      IF @ = k_processing THEN completed(input[i]) ELSE @]
    /\ pc' = "rewind"
    /\ i' = 1
    /\ UNCHANGED <<m_pc_state, m_consumer, producerVars, call, input>>

\* finish_processing: suspend unless a result finished in the meantime.
finish_processing ==
    /\ pc = "finish"
    /\ IF m_status[call] = k_processing
         THEN /\ m_status' = [m_status EXCEPT ![call] = k_done_processing]
              /\ pc' = "suspended"
              /\ UNCHANGED i
         ELSE pc' = "rewind" /\ i' = 1 /\ UNCHANGED m_status
    /\ UNCHANGED <<m_pc_state, m_consumer, producerVars, call, input>>

\* await_resume rewinds one result after the other.
next_rewind ==
    IF i = Len(input) THEN pc' = "returned" /\ UNCHANGED i
                      ELSE pc' = "rewind" /\ i' = i + 1

rewind_load ==
    /\ pc = "rewind"
    /\ IF m_pc_state[input[i]] = "consumer_set"
         THEN pc' = "rewind_cas" /\ UNCHANGED i
         ELSE next_rewind
    /\ UNCHANGED <<m_pc_state, m_consumer, m_status, producerVars, call, input>>

rewind_cas ==
    /\ pc = "rewind_cas"
    /\ IF m_pc_state[input[i]] = "consumer_set"
         THEN /\ m_pc_state' = [m_pc_state EXCEPT ![input[i]] = "idle"]
              /\ pc' = "clear"
              /\ UNCHANGED i
         ELSE next_rewind /\ UNCHANGED m_pc_state
    /\ UNCHANGED <<m_consumer, m_status, producerVars, call, input>>

\* Mutant: the context stays in the state.
clear_nothing ==
    /\ pc = "clear"
    /\ next_rewind
    /\ UNCHANGED <<m_pc_state, m_consumer, m_status, producerVars, call, input>>

clear ==
    /\ pc = "clear"
    /\ m_consumer' = [m_consumer EXCEPT ![input[i]] = 0]
    /\ next_rewind
    /\ UNCHANGED <<m_pc_state, m_status, producerVars, call, input>>

\* The index await_resume returns: the position of the completed result.
completed_index == CHOOSE k \in 1..Len(input) : m_status[call] = completed(input[k])

\* The application takes the ready result out of the sequence, or leaves it.
return ==
    /\ pc = "returned"
    /\ pc' = "outside"
    /\ i' = 0
    /\ \/ input' = SubSeq(input, 1, completed_index - 1)
                      \o SubSeq(input, completed_index + 1, Len(input))
       \/ input' = input
    /\ UNCHANGED <<m_pc_state, m_consumer, m_status, producerVars, call>>

-----------------------------------------------------------------------------
producer_step(s) ==
    \/ complete_producer(s)
    \/ resume_consumer(s)
    \/ try_resume_load(s)
    \/ try_resume_cas_done(s)
    \/ try_resume_cas_processing(s)
    \/ call_handle(s)

coroutine_step ==
    \/ check
    \/ load
    \/ cas
    \/ resume_inline
    \/ finish_processing
    \/ rewind_load
    \/ rewind_cas
    \/ clear
    \/ return

Next ==
    \/ \E s \in Results : producer_step(s)
    \/ coroutine_step
    \/ when_any

Spec == Init /\ [][Next]_vars

\* Every task ends, and a coroutine that is not suspended runs on.
FairSpec ==
    /\ Spec
    /\ \A s \in Results : WF_vars(producer_step(s))
    /\ WF_vars(coroutine_step)

-----------------------------------------------------------------------------
(* Properties *)

\* try_resume calls the coroutine's handle only while the coroutine is
\* suspended in the very call whose context the producer holds, and only one
\* producer does: no double resumption, none from an earlier call.
ResumedOnceWhileSuspended ==
    \A s \in Results : producer[s] = "call" =>
        /\ pc = "suspended"
        /\ context[s] = call
        /\ \A t \in Results \ {s} : producer[t] # "call"

\* A call ends cleanly.  Once it is over, the result it names is one of its inputs
\* and is ready (the assertion in await_resume that an index was found), and it
\* leaves nothing registered: outside a call no result state says consumer_set, and
\* one that is still pending holds no context, so that the next call can install
\* its own (the assertion in set_when_any_context).
EndsCleanly ==
    /\ pc \in {"rewind", "rewind_cas", "clear", "returned"} =>
          \E k \in 1..Len(input) : /\ m_status[call] = completed(input[k])
                                   /\ m_pc_state[input[k]] = "producer_done"
    /\ pc \in {"outside", "returned"} =>
          \A s \in Results :
              /\ m_pc_state[s] # "consumer_set"
              /\ m_pc_state[s] = "idle" => m_consumer[s] = 0
    /\ pc = "load" /\ m_pc_state[input[i]] = "idle" => m_consumer[input[i]] = 0

\* Result s accepted the context of the current call, and its producer has not
\* dealt with it yet.
registered(s) ==
    \/ m_pc_state[s] = "consumer_set"
    \/ producer[s] \notin {"running", "done"} /\ m_consumer[s] = call

\* A suspended coroutine is resumed if at least one result accepted its
\* context, even one whose producer was caught in the middle of try_resume by
\* finish_processing.
RegisteredIsResumed ==
    pc = "suspended" /\ (\E s \in Results : registered(s)) ~> pc # "suspended"

\* when_any becomes ready when at least one of its inputs is completed.
ReadyWhenOneIsCompleted ==
    pc = "suspended" /\ (\E k \in 1..Len(input) : m_pc_state[input[k]] = "producer_done")
        ~> pc # "suspended"

-----------------------------------------------------------------------------
(* The inductive invariant *)

statuses == {k_processing, k_done_processing} \cup {completed(s) : s \in Results}
registering == {"check", "load", "cas", "inline", "finish"}
rewinding == {"rewind", "rewind_cas", "clear"}
resuming == {"try", "cas_processing", "cas_done", "call"}

\* The types.
TypeOK ==
    /\ m_pc_state \in [Results -> {"idle", "consumer_set", "producer_done"}]
    /\ m_consumer \in [Results -> 0..MaxCalls]
    /\ m_status \in [Calls -> statuses]
    /\ producer \in [Results -> {"running", "resume", "done"} \cup resuming]
    /\ context \in [Results -> 0..MaxCalls]
    /\ pc \in {"outside", "suspended", "returned"} \cup registering \cup rewinding
    /\ call \in 0..MaxCalls
    /\ input \in Seq(Results)
    /\ i \in Nat

is_input(s) == \E k \in 1..Len(input) : input[k] = s

\* The loops stay inside the input, and a result that is resumed inline is ready.
LoopsInRange ==
    /\ pc # "outside" => call # 0 /\ Len(input) # 0
    /\ pc \in registering => i # 0
    /\ pc \in {"load", "cas", "inline"} \cup rewinding => i \in 1..Len(input)
    /\ pc = "inline" => m_pc_state[input[i]] = "producer_done"

\* A state holds the context of the current call or of an earlier one, and of the
\* current one only if it is among the inputs; one that said consumer_set when it
\* was completed keeps the context until its producer has read it.
ContextOfCall ==
    \A s \in Results :
        /\ producer[s] = "running" <=> m_pc_state[s] # "producer_done"
        /\ m_consumer[s] <= call /\ context[s] <= call
        /\ producer[s] = "resume" => m_consumer[s] # 0
        /\ producer[s] \in resuming => context[s] # 0
        /\ pc # "outside" /\ (m_consumer[s] = call \/ context[s] = call) => is_input(s)

\* The race of call c has been decided.
over(c) == c < call \/ (c = call /\ pc \in rewinding \cup {"returned", "outside"})

\* A call's status names a ready result, one of its inputs, from the moment that
\* its registration is cut short or its coroutine is resumed, and for ever after;
\* the producer that is about to resume the coroutine is the one that is named.
StatusOfCall ==
    /\ \A c \in Calls, s \in Results : m_status[c] = completed(s) =>
          /\ m_pc_state[s] = "producer_done"
          /\ c = call /\ pc # "outside" => is_input(s)
    /\ \A c \in Calls : over(c) => m_status[c] \notin {k_processing, k_done_processing}
    /\ pc \in registering => m_status[call] # k_done_processing
    /\ \A s \in Results : producer[s] = "call" =>
          pc = "suspended" /\ context[s] = call /\ m_status[call] = completed(s)

\* Only what the loops have still to rewind is registered.
RegisteredIsInput ==
    /\ \A s \in Results : m_pc_state[s] = "consumer_set" =>
          /\ pc \notin {"outside", "returned"} /\ m_consumer[s] # 0
          /\ IF pc \in rewinding THEN \E k \in i..Len(input) : input[k] = s
                                 ELSE is_input(s)
    /\ \A s \in Results : m_pc_state[s] = "idle" /\ m_consumer[s] # 0 =>
          pc \in {"cas", "clear"} /\ s = input[i]
    /\ pc = "cas" => m_consumer[input[i]] # 0
    /\ pc = "clear" => m_pc_state[input[i]] # "consumer_set"
                       /\ producer[input[i]] \in {"running", "done"}

\* It is proved to be inductive in WhenAnyProofs.
Inv == TypeOK /\ LoopsInRange /\ ContextOfCall /\ StatusOfCall /\ RegisteredIsInput
=============================================================================

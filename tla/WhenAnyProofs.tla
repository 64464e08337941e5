---------------------------- MODULE WhenAnyProofs ----------------------------
(***************************************************************************)
(* when_any for any number of results and of calls.                        *)
(*                                                                         *)
(* Everything follows from Inv, which is inductive.  The producers that    *)
(* lost the race of one call carry its context into the next ones:         *)
(* StatusOfCall says that every earlier context is completed, so that they *)
(* bail out, and ContextOfCall that only inputs of the current call have   *)
(* the current context.  RegisteredIsInput follows the rewinding loop.     *)
(***************************************************************************)
EXTENDS WhenAny, SequenceTheorems, TLAPS

\* The values of the status word are told apart.
LEMMA StatusFacts ==
  /\ k_processing # k_done_processing
  /\ \A s : completed(s) # k_processing /\ completed(s) # k_done_processing
  /\ \A s, t : completed(s) = completed(t) => s = t
  BY DEF k_processing, k_done_processing, completed

LEMMA StatusTypes ==
  /\ k_processing \in statuses /\ k_done_processing \in statuses
  /\ \A s \in Results : completed(s) \in statuses
  /\ \A x \in statuses : x \notin {k_processing, k_done_processing} =>
        \E s \in Results : x = completed(s)
  BY DEF statuses

\* An input is a result, the index of a loop inside the input gives one, and a
\* producer that resumes holds the context of a call.
LEMMA RangeFacts ==
  ASSUME Inv
  PROVE  /\ Len(input) \in Nat /\ i \in Nat /\ call \in Nat
         /\ \A k \in 1..Len(input) : input[k] \in Results /\ is_input(input[k])
         /\ pc # "outside" => call \in Calls
         /\ \A s \in Results : producer[s] \in resuming => context[s] \in Calls
         /\ pc \in {"load", "cas", "inline"} \cup rewinding =>
               i \in 1..Len(input) /\ input[i] \in Results /\ is_input(input[i])
<1> USE DEF Inv
<1>1. /\ Len(input) \in Nat /\ i \in Nat /\ call \in Nat
      /\ \A k \in 1..Len(input) : input[k] \in Results /\ is_input(input[k])
  BY WhenAnyAssumption DEF TypeOK, is_input
<1>2. pc # "outside" => call \in Calls
  BY WhenAnyAssumption DEF TypeOK, LoopsInRange, Calls
<1>3. ASSUME NEW s \in Results, producer[s] \in resuming
      PROVE  context[s] \in Calls
  <2>1. context[s] \in 0..MaxCalls /\ context[s] # 0
    BY <1>3 DEF TypeOK, ContextOfCall
  <2> QED BY <2>1, WhenAnyAssumption DEF Calls
<1>4. pc \in {"load", "cas", "inline"} \cup rewinding =>
         i \in 1..Len(input) /\ input[i] \in Results /\ is_input(input[i])
  BY <1>1 DEF LoopsInRange
<1> QED BY <1>1, <1>2, <1>3, <1>4

\* The application takes one of the inputs away.
LEMMA RemoveFacts ==
  ASSUME NEW s \in Seq(Results), NEW k \in 1..Len(s)
  PROVE  SubSeq(s, 1, k - 1) \o SubSeq(s, k + 1, Len(s)) \in Seq(Results)
  OBVIOUS

\* Inv holds before the first call.
LEMMA InitInv == Init => Inv
<1> SUFFICES ASSUME Init PROVE Inv
  OBVIOUS
<1> USE WhenAnyAssumption, StatusFacts DEF Init
<1>1. TypeOK
  <2>1. input \in Seq(Results)
    BY DEF Results
  <2> QED BY <2>1, StatusTypes DEF TypeOK, registering, rewinding, resuming
<1>2. LoopsInRange
  BY DEF LoopsInRange, registering, rewinding
<1>3. ContextOfCall
  BY DEF ContextOfCall, resuming
<1>4. StatusOfCall
  BY DEF StatusOfCall, over, registering, rewinding, Calls
<1>5. RegisteredIsInput
  BY DEF RegisteredIsInput, rewinding
<1> QED BY <1>1, <1>2, <1>3, <1>4, <1>5 DEF Inv

\* The steps of a producer preserve Inv.
LEMMA ProducerInv ==
  ASSUME Inv, NEW s \in Results, producer_step(s)
  PROVE  Inv'
<1> USE DEF Inv, coroutineVars
<1>0. /\ input' = input /\ call' = call /\ m_consumer' = m_consumer
      /\ \A t \in Results : is_input(t)' <=> is_input(t)
  <2>1. input' = input /\ call' = call /\ m_consumer' = m_consumer
    BY DEF producer_step, complete_producer, resume_consumer, try_resume_load,
           try_resume_cas_done, try_resume_cas_processing, call_handle
  <2> QED BY <2>1 DEF is_input
<1>a. ASSUME pc' = pc PROVE \A c \in Calls : over(c)' <=> over(c)
  BY <1>0, <1>a DEF over
<1>1. CASE complete_producer(s)
  <2> USE DEF complete_producer
  <2>1. TypeOK'
    BY <1>1 DEF TypeOK, resuming
  <2>2. /\ pc' = pc /\ i' = i /\ m_status' = m_status /\ context' = context
        /\ \A t \in Results : /\ m_pc_state[t] = "producer_done" => m_pc_state'[t] = "producer_done"
                              /\ m_pc_state'[t] # "producer_done" => m_pc_state'[t] = m_pc_state[t]
                              /\ t # s => producer'[t] = producer[t]
                              /\ t # s => m_pc_state'[t] = m_pc_state[t]
        /\ m_pc_state'[s] = "producer_done" /\ producer'[s] \in {"resume", "done"}
        /\ producer'[s] = "resume" => m_pc_state[s] = "consumer_set"
    BY <1>1 DEF TypeOK
  <2>3. LoopsInRange'
    BY <1>0, <2>2, RangeFacts DEF LoopsInRange
  <2>4. ContextOfCall'
    BY <1>0, <2>2 DEF ContextOfCall, RegisteredIsInput, resuming
  <2>5. StatusOfCall'
    BY <1>0, <1>a, <2>2 DEF StatusOfCall
  <2>6. RegisteredIsInput'
    BY <1>0, <1>1, <2>2, RangeFacts DEF RegisteredIsInput
  <2> QED BY <2>1, <2>3, <2>4, <2>5, <2>6
<1>2. CASE \/ resume_consumer(s) \/ try_resume_load(s)
           \/ try_resume_cas_done(s) \/ try_resume_cas_processing(s)
  <2>1. /\ pc' = pc /\ i' = i /\ m_pc_state' = m_pc_state
        /\ producer[s] \in {"resume", "try", "cas_done", "cas_processing"}
        /\ producer' \in [Results -> {"running", "resume", "done"} \cup resuming]
        /\ producer'[s] \notin {"running", "resume"}
        /\ \A t \in Results : t # s => producer'[t] = producer[t] /\ context'[t] = context[t]
    BY <1>2, ZenonT(30) DEF resume_consumer, try_resume_load, try_resume_cas_done,
                try_resume_cas_processing, TypeOK, resuming
  <2>2. LoopsInRange'
    BY <1>0, <2>1 DEF LoopsInRange
  <2>3. RegisteredIsInput'
    <3>1. pc = "clear" => input[i] \in Results /\ input[i] # s
      BY <2>1, RangeFacts DEF RegisteredIsInput, rewinding
    <3> QED BY <1>0, <2>1, <3>1 DEF RegisteredIsInput
  <2>4. CASE resume_consumer(s)
    <3> USE DEF resume_consumer
    <3>1. /\ m_status' = m_status /\ context'[s] = m_consumer[s] /\ producer'[s] = "try"
          /\ producer[s] = "resume"
      BY <2>4 DEF TypeOK
    <3>2. TypeOK'
      BY <2>1, <2>4 DEF TypeOK
    <3>3. ContextOfCall'
      BY <1>0, <2>1, <3>1 DEF ContextOfCall
    <3>4. StatusOfCall'
      BY <1>0, <1>a, <2>1, <3>1 DEF StatusOfCall
    <3> QED BY <2>2, <2>3, <3>2, <3>3, <3>4
  <2>5. CASE try_resume_load(s)
    <3> USE DEF try_resume_load
    <3>1. /\ m_status' = m_status /\ context' = context
          /\ producer'[s] \in {"cas_processing", "cas_done", "done"} /\ producer[s] = "try"
      BY <2>5 DEF TypeOK
    <3>2. TypeOK'
      BY <2>1, <2>5 DEF TypeOK
    <3>3. ContextOfCall'
      BY <1>0, <2>1, <3>1 DEF ContextOfCall, resuming
    <3>4. StatusOfCall'
      BY <1>0, <1>a, <2>1, <3>1 DEF StatusOfCall
    <3> QED BY <2>2, <2>3, <3>2, <3>3, <3>4
  <2>6. CASE try_resume_cas_done(s) \/ try_resume_cas_processing(s)
    <3>0. context' = context /\ producer[s] \in {"cas_done", "cas_processing"}
      BY <2>6 DEF try_resume_cas_done, try_resume_cas_processing
    <3>1. context[s] \in Calls /\ context[s] <= call /\ call \in Nat
      BY <3>0, RangeFacts DEF ContextOfCall, resuming
    <3>2. ContextOfCall'
      BY <1>0, <2>1, <3>0 DEF ContextOfCall, resuming
    <3>3. CASE m_status' = m_status /\ producer'[s] # "call"
      <4>1. TypeOK'
        BY <1>0, <2>1, <3>0, <3>3, <2>6
        DEF TypeOK, try_resume_cas_done, try_resume_cas_processing
      <4>2. StatusOfCall'
        BY <1>0, <1>a, <2>1, <3>0, <3>3 DEF StatusOfCall
      <4> QED BY <2>2, <2>3, <3>2, <4>1, <4>2
    \* The status is swapped: the context is that of the current call, which is
    \* not over, and s is one of its inputs.
    <3>4. CASE /\ m_status' = [m_status EXCEPT ![context[s]] = completed(s)]
               /\ m_status[context[s]] \in {k_processing, k_done_processing}
               /\ producer'[s] = "call" => m_status[context[s]] = k_done_processing
      <4>1. TypeOK'
        BY <1>0, <2>1, <3>0, <3>1, <3>4, <2>6, StatusTypes
        DEF TypeOK, try_resume_cas_done, try_resume_cas_processing
      <4>2. context[s] = call /\ pc \notin rewinding \cup {"returned", "outside"}
        <5>1. ~over(context[s])
          BY <3>1, <3>4 DEF StatusOfCall
        <5>2. context[s] \in Nat
          BY <3>1, WhenAnyAssumption DEF Calls
        <5> QED BY <3>1, <5>1, <5>2 DEF over
      <4>3. is_input(s) /\ m_pc_state[s] = "producer_done" /\ call \in Calls
        BY <2>1, <3>1, <4>2 DEF ContextOfCall
      <4>4. /\ m_status'[call] = completed(s)
            /\ \A c \in Calls : c # call => m_status'[c] = m_status[c]
        BY <3>4, <4>2, <4>3 DEF TypeOK
      <4>5. \A t \in Results : producer[t] # "call"
        BY <3>4, <4>2, StatusFacts DEF StatusOfCall
      <4>6. producer'[s] = "call" => pc = "suspended"
        BY <3>4, <4>2 DEF StatusOfCall, TypeOK
      <4>7. StatusOfCall'
        BY <1>0, <1>a, <2>1, <3>0, <4>2, <4>3, <4>4, <4>5, <4>6, StatusFacts
        DEF StatusOfCall
      <4> QED BY <2>2, <2>3, <3>2, <4>1, <4>7
    <3> QED BY <2>6, <3>3, <3>4, <3>0
        DEF try_resume_cas_done, try_resume_cas_processing, TypeOK
  <2> QED BY <1>2, <2>4, <2>5, <2>6
<1>3. CASE call_handle(s)
  <2> USE DEF call_handle
  <2>1. /\ producer[s] = "call" /\ pc' = "rewind" /\ i' = 1 /\ m_pc_state' = m_pc_state
        /\ m_status' = m_status /\ context' = context
        /\ producer'[s] = "done" /\ \A t \in Results : t # s => producer'[t] = producer[t]
    BY <1>3 DEF TypeOK
  <2>2. /\ pc = "suspended" /\ context[s] = call /\ m_status[call] = completed(s)
        /\ \A t \in Results : t # s => producer[t] # "call"
    BY <2>1, StatusFacts DEF StatusOfCall
  <2>3. TypeOK'
    BY <1>3 DEF TypeOK, rewinding
  <2>4. Len(input) \in Nat \ {0} /\ call # 0 /\ call \in Calls
    BY <2>2, RangeFacts DEF LoopsInRange
  <2>5. LoopsInRange'
    BY <1>0, <2>1, <2>4 DEF LoopsInRange, registering
  <2>6. ContextOfCall'
    BY <1>0, <2>1, <2>2 DEF ContextOfCall, resuming
  <2>7. \A c \in Calls : over(c)' <=> over(c) \/ c = call
    BY <1>0, <2>1 DEF over, rewinding
  <2>8. StatusOfCall'
    BY <1>0, <2>1, <2>2, <2>7, StatusFacts DEF StatusOfCall, registering
  <2>9. RegisteredIsInput'
    BY <1>0, <2>1, <2>2 DEF RegisteredIsInput, is_input, rewinding
  <2> QED BY <2>3, <2>5, <2>6, <2>8, <2>9
<1> QED BY <1>1, <1>2, <1>3 DEF producer_step

\* A round of the rewinding loop that leaves input[i] without this call's context
\* preserves Inv.
LEMMA NextRewindInv ==
  ASSUME Inv, pc \in rewinding, next_rewind,
         UNCHANGED <<m_pc_state, m_status, producerVars, call, input>>,
         m_pc_state[input[i]] # "consumer_set",
         m_consumer' \in [Results -> 0..MaxCalls],
         \A s \in Results :
             /\ m_consumer'[s] = m_consumer[s]
                  \/ (m_consumer'[s] = 0 /\ m_pc_state[s] # "consumer_set"
                       /\ producer[s] # "resume")
             /\ m_pc_state[s] = "idle" => m_consumer'[s] = 0
  PROVE  Inv'
<1> USE DEF Inv, producerVars
<1>0. \A s \in Results : is_input(s)' <=> is_input(s)
  BY DEF is_input
<1>1. i \in 1..Len(input) /\ Len(input) \in Nat /\ call \in Nat /\ call \in Calls
  BY RangeFacts DEF rewinding
<1>2. \/ pc' = "returned" /\ i' = i /\ i = Len(input)
      \/ pc' = "rewind" /\ i' = i + 1 /\ i + 1 \in 1..Len(input)
  BY <1>1 DEF next_rewind
<1>3. TypeOK'
  <2>1. i' \in Nat
    BY <1>1, <1>2
  <2>2. pc' \in {"outside", "suspended", "returned"} \cup registering \cup rewinding
    BY <1>2 DEF rewinding
  <2> QED BY <2>1, <2>2, SMTT(30) DEF TypeOK
<1>4. LoopsInRange'
  BY <1>1, <1>2 DEF LoopsInRange, rewinding, registering
<1>5. ContextOfCall'
  <2>1. call # 0 /\ pc # "outside"
    BY DEF LoopsInRange, rewinding
  <2> QED BY <1>0, <1>1, <1>2, <2>1, SMTT(30) DEF ContextOfCall, TypeOK
<1>6. StatusOfCall'
  <2>1. \A c \in Calls : over(c)' <=> over(c)
    BY <1>2 DEF over, rewinding
  <2>2. pc # "outside" /\ pc # "suspended" /\ pc' \notin registering
    BY <1>2 DEF rewinding, registering
  <2> QED BY <1>0, <2>1, <2>2 DEF StatusOfCall
<1>7. RegisteredIsInput'
  <2>1. ASSUME NEW s \in Results, m_pc_state[s] = "consumer_set"
        PROVE  /\ pc' = "rewind" /\ m_consumer'[s] # 0
               /\ \E k \in i + 1..Len(input) : input[k] = s
    <3>1. PICK k \in i..Len(input) : input[k] = s
      BY <2>1 DEF RegisteredIsInput
    <3>2. k # i
      BY <2>1, <3>1
    <3>3. k \in i + 1..Len(input)
      BY <1>1, <3>2
    <3>4. m_consumer'[s] # 0
      BY <2>1 DEF RegisteredIsInput
    <3> QED BY <1>1, <1>2, <3>1, <3>3, <3>4
  <2> QED BY <1>2, <2>1 DEF RegisteredIsInput, rewinding
<1> QED BY <1>3, <1>4, <1>5, <1>6, <1>7

\* The registration is cut short, and the rewinding begins.
LEMMA BeginRewind ==
  ASSUME Inv, pc \in registering, pc' = "rewind", i' = 1,
         UNCHANGED <<m_pc_state, m_consumer, producerVars, call, input>>,
         \A s \in Results : m_pc_state[s] = "idle" => m_consumer[s] = 0,
         m_status' \in [Calls -> statuses],
         m_status'[call] \notin {k_processing, k_done_processing},
         \A c \in Calls : m_status'[c] = m_status[c]
             \/ (c = call /\ pc = "inline" /\ m_status'[c] = completed(input[i]))
  PROVE  Inv'
<1> USE DEF Inv, producerVars
<1>0. \A s \in Results : is_input(s)' <=> is_input(s)
  BY DEF is_input
<1>1. /\ Len(input) \in Nat \ {0} /\ call \in Nat /\ call \in Calls /\ call # 0
      /\ pc \notin rewinding \cup {"outside", "suspended", "returned"}
  BY RangeFacts DEF registering, rewinding, LoopsInRange
<1>2. TypeOK'
  BY DEF TypeOK, rewinding
<1>3. LoopsInRange'
  BY <1>1 DEF LoopsInRange, rewinding, registering
<1>4. ContextOfCall'
  BY <1>0, <1>1 DEF ContextOfCall
<1>5. StatusOfCall'
  <2>1. \A c \in Calls : over(c)' <=> over(c) \/ c = call
    BY DEF over, rewinding
  <2>2. pc = "inline" => /\ input[i] \in Results /\ is_input(input[i])
                         /\ m_pc_state[input[i]] = "producer_done"
    BY RangeFacts DEF LoopsInRange
  <2>3. \A c \in Calls : over(c) => c # call
    BY <1>1 DEF over
  <2>4. \A s \in Results : producer[s] # "call"
    BY <1>1 DEF StatusOfCall
  <2>5. \A c \in Calls, s \in Results : m_status'[c] = completed(s) =>
           m_pc_state[s] = "producer_done" /\ (c = call => is_input(s))
    BY <1>1, <2>2, StatusFacts DEF StatusOfCall
  <2> QED BY <1>0, <1>1, <2>1, <2>3, <2>4, <2>5 DEF StatusOfCall, registering
<1>6. RegisteredIsInput'
  BY <1>1 DEF RegisteredIsInput, is_input, rewinding
<1> QED BY <1>2, <1>3, <1>4, <1>5, <1>6

\* The steps of the registering loop preserve Inv.
LEMMA RegisteringInv == Inv /\ (check \/ load \/ cas \/ resume_inline \/ finish_processing) => Inv'
<1> SUFFICES ASSUME Inv, check \/ load \/ cas \/ resume_inline \/ finish_processing
             PROVE  Inv'
  OBVIOUS
<1> USE DEF Inv, producerVars
<1>0. /\ input' = input /\ call' = call /\ UNCHANGED <<producer, context>>
      /\ pc \in registering
      /\ \A s \in Results : is_input(s)' <=> is_input(s)
  <2>1. input' = input /\ call' = call /\ UNCHANGED <<producer, context>> /\ pc \in registering
    BY DEF check, load, cas, resume_inline, finish_processing, registering
  <2> QED BY <2>1 DEF is_input
<1>a. /\ call \in Calls /\ call \in Nat /\ call # 0 /\ Len(input) \in Nat \ {0}
      /\ i \in Nat \ {0} /\ pc \notin rewinding \cup {"outside", "returned", "suspended"}
      /\ m_status[call] # k_done_processing
      /\ \A s \in Results : producer[s] # "call"
  BY <1>0, RangeFacts DEF LoopsInRange, StatusOfCall, registering, rewinding
<1>b. ASSUME pc' \in registering \cup {"suspended"}
      PROVE  \A c \in Calls : over(c)' => over(c) /\ c # call
  BY <1>0, <1>a, <1>b DEF over, registering, rewinding
<1>1. CASE check
  <2> USE DEF check
  <2>1. CASE i > Len(input) \/ m_status[call] = k_processing
    <3>1. /\ pc' \in {"finish", "load"} /\ i' = i /\ pc = "check"
          /\ pc' = "load" => i \in 1..Len(input)
          /\ UNCHANGED <<m_pc_state, m_consumer, m_status>>
      BY <1>1, <1>a, <2>1
    <3>2. TypeOK'
      BY <1>0, <3>1 DEF TypeOK, registering
    <3>3. LoopsInRange'
      BY <1>0, <1>a, <3>1 DEF LoopsInRange, rewinding
    <3>4. ContextOfCall'
      BY <1>0, <3>1 DEF ContextOfCall
    <3>5. StatusOfCall'
      BY <1>0, <1>a, <1>b, <3>1 DEF StatusOfCall, registering
    <3>6. RegisteredIsInput'
      BY <1>0, <3>1 DEF RegisteredIsInput, rewinding
    <3> QED BY <3>2, <3>3, <3>4, <3>5, <3>6
  <2>2. CASE ~(i > Len(input)) /\ m_status[call] # k_processing
    <3>1. /\ pc' = "rewind" /\ i' = 1 /\ pc = "check"
          /\ UNCHANGED <<m_pc_state, m_consumer, m_status>>
      BY <1>1, <2>2
    <3>2. \A s \in Results : m_pc_state[s] = "idle" => m_consumer[s] = 0
      BY <3>1 DEF RegisteredIsInput
    <3> QED BY <1>0, <1>a, <2>2, <3>1, <3>2, BeginRewind, SMTT(30) DEF TypeOK
  <2> QED BY <2>1, <2>2
<1>2. CASE load
  <2> USE DEF load
  <2>0. i \in 1..Len(input) /\ input[i] \in Results /\ is_input(input[i])
    BY <1>2, RangeFacts
  <2>1. CASE m_pc_state[input[i]] = "producer_done"
    <3>1. /\ pc' = "inline" /\ pc = "load" /\ i' = i
          /\ UNCHANGED <<m_pc_state, m_consumer, m_status>>
      BY <1>2, <2>1
    <3>2. TypeOK'
      BY <1>0, <3>1 DEF TypeOK, registering
    <3>3. LoopsInRange'
      BY <1>0, <1>a, <2>0, <2>1, <3>1 DEF LoopsInRange, rewinding
    <3>4. ContextOfCall'
      BY <1>0, <3>1 DEF ContextOfCall
    <3>5. StatusOfCall'
      BY <1>0, <1>a, <1>b, <3>1 DEF StatusOfCall, registering
    <3>6. RegisteredIsInput'
      BY <1>0, <3>1 DEF RegisteredIsInput, rewinding
    <3> QED BY <3>2, <3>3, <3>4, <3>5, <3>6
  <2>2. CASE m_pc_state[input[i]] # "producer_done"
    <3>1. /\ pc' = "cas" /\ pc = "load" /\ i' = i
          /\ UNCHANGED <<m_pc_state, m_status>>
          /\ m_consumer' = [m_consumer EXCEPT ![input[i]] = call]
      BY <1>2, <2>2
    <3>2. m_consumer'[input[i]] = call /\ \A s \in Results : s # input[i] => m_consumer'[s] = m_consumer[s]
      BY <2>0, <3>1 DEF TypeOK
    <3>3. TypeOK'
      BY <1>0, <2>0, <3>1, SMTT(30) DEF TypeOK, registering
    <3>4. LoopsInRange'
      BY <1>0, <1>a, <2>0, <3>1 DEF LoopsInRange, rewinding
    <3>5. ContextOfCall'
      BY <1>0, <1>a, <2>0, <3>1, <3>2 DEF ContextOfCall
    <3>6. StatusOfCall'
      BY <1>0, <1>a, <1>b, <3>1 DEF StatusOfCall, registering
    <3>7. RegisteredIsInput'
      BY <1>0, <1>a, <2>0, <3>1, <3>2 DEF RegisteredIsInput, rewinding
    <3> QED BY <3>3, <3>4, <3>5, <3>6, <3>7
  <2> QED BY <2>1, <2>2
<1>3. CASE cas
  <2> USE DEF cas
  <2>0. i \in 1..Len(input) /\ input[i] \in Results /\ is_input(input[i]) /\ i + 1 \in Nat \ {0}
    BY <1>3, RangeFacts
  <2>1. /\ pc = "cas" /\ pc' = "check" /\ i' = i + 1 /\ UNCHANGED <<m_consumer, m_status>>
        /\ m_pc_state'[input[i]] # "idle"
        /\ \A s \in Results : /\ s # input[i] => m_pc_state'[s] = m_pc_state[s]
                              /\ m_pc_state'[s] = "producer_done" <=> m_pc_state[s] = "producer_done"
    BY <1>3, <2>0 DEF TypeOK
  <2>2. TypeOK'
    BY <1>0, <1>3, <2>0 DEF TypeOK, registering
  <2>3. LoopsInRange'
    BY <1>0, <1>a, <2>0, <2>1 DEF LoopsInRange, rewinding
  <2>4. ContextOfCall'
    BY <1>0, <2>1 DEF ContextOfCall
  <2>5. StatusOfCall'
    BY <1>0, <1>a, <1>b, <2>1 DEF StatusOfCall, registering
  <2>6. RegisteredIsInput'
    BY <1>0, <1>a, <2>0, <2>1 DEF RegisteredIsInput, rewinding
  <2> QED BY <2>2, <2>3, <2>4, <2>5, <2>6, SMTT(30)
<1>4. CASE resume_inline
  <2> USE DEF resume_inline
  <2>0. input[i] \in Results /\ m_status[call] \in statuses
    BY <1>4, <1>a, RangeFacts DEF TypeOK
  <2>1. /\ m_status' \in [Calls -> statuses]
        /\ m_status'[call] \notin {k_processing, k_done_processing}
        /\ \A c \in Calls : m_status'[c] = m_status[c]
               \/ (c = call /\ m_status'[c] = completed(input[i]))
    BY <1>4, <1>a, <2>0, StatusTypes, StatusFacts DEF TypeOK
  <2>2. \A s \in Results : m_pc_state[s] = "idle" => m_consumer[s] = 0
    BY <1>4 DEF RegisteredIsInput
  <2> QED BY <1>0, <1>4, <2>1, <2>2, BeginRewind
<1>5. CASE finish_processing
  <2> USE DEF finish_processing
  <2>0. \A s \in Results : m_pc_state[s] = "idle" => m_consumer[s] = 0
    BY <1>5 DEF RegisteredIsInput
  <2>1. CASE m_status[call] # k_processing
    <3>1. pc' = "rewind" /\ i' = 1 /\ UNCHANGED <<m_pc_state, m_consumer, m_status>>
      BY <1>5, <2>1
    <3> QED BY <1>0, <1>a, <2>0, <2>1, <3>1, BeginRewind DEF TypeOK
  <2>2. CASE m_status[call] = k_processing
    <3>1. /\ pc = "finish" /\ pc' = "suspended" /\ i' = i /\ UNCHANGED <<m_pc_state, m_consumer>>
          /\ m_status' = [m_status EXCEPT ![call] = k_done_processing]
      BY <1>5, <2>2
    <3>2. m_status'[call] = k_done_processing /\ \A c \in Calls : c # call => m_status'[c] = m_status[c]
      BY <1>a, <3>1 DEF TypeOK
    <3>3. TypeOK'
      BY <1>0, <1>a, <3>1, StatusTypes DEF TypeOK
    <3>4. LoopsInRange'
      BY <1>0, <1>a, <3>1 DEF LoopsInRange, rewinding, registering
    <3>5. ContextOfCall'
      BY <1>0, <1>a, <3>1 DEF ContextOfCall
    <3>6. StatusOfCall'
      BY <1>0, <1>a, <1>b, <3>1, <3>2, StatusFacts, SMTT(30) DEF StatusOfCall, registering
    <3>7. RegisteredIsInput'
      BY <1>0, <3>1 DEF RegisteredIsInput, rewinding
    <3> QED BY <3>3, <3>4, <3>5, <3>6, <3>7
  <2> QED BY <2>1, <2>2
<1> QED BY <1>1, <1>2, <1>3, <1>4, <1>5

\* The steps of the rewinding loop preserve Inv.
LEMMA RewindingInv == Inv /\ (rewind_load \/ rewind_cas \/ clear) => Inv'
<1> SUFFICES ASSUME Inv, rewind_load \/ rewind_cas \/ clear PROVE Inv'
  OBVIOUS
<1> USE DEF Inv, producerVars
<1>0. /\ input' = input /\ call' = call /\ UNCHANGED <<producer, context, m_status>>
      /\ pc \in rewinding
      /\ \A s \in Results : is_input(s)' <=> is_input(s)
  <2>1. /\ input' = input /\ call' = call /\ UNCHANGED <<producer, context, m_status>>
        /\ pc \in rewinding
    BY DEF rewind_load, rewind_cas, clear, rewinding
  <2> QED BY <2>1 DEF is_input
<1>a. /\ i \in 1..Len(input) /\ Len(input) \in Nat /\ input[i] \in Results
      /\ call # 0 /\ pc \notin {"outside", "suspended"}
  BY <1>0, RangeFacts DEF LoopsInRange, rewinding
<1>b. ASSUME pc' \in rewinding
      PROVE  (\A c \in Calls : over(c)' <=> over(c)) /\ pc' \notin registering
  BY <1>0, <1>b DEF over, rewinding, registering
<1>1. CASE rewind_load /\ m_pc_state[input[i]] # "consumer_set"
  <2>1. \A s \in Results : m_pc_state[s] = "idle" => m_consumer[s] = 0
    BY <1>1, SMTT(30) DEF RegisteredIsInput, rewind_load
  <2>2. next_rewind /\ UNCHANGED <<m_pc_state, m_consumer>>
    BY <1>1 DEF rewind_load
  <2> QED BY <1>0, <1>1, <2>1, <2>2, NextRewindInv, SMTT(30) DEF TypeOK
<1>2. CASE rewind_load /\ m_pc_state[input[i]] = "consumer_set"
  <2>1. /\ pc = "rewind" /\ pc' = "rewind_cas" /\ i' = i
        /\ UNCHANGED <<m_pc_state, m_consumer>>
    BY <1>2 DEF rewind_load
  <2>2. TypeOK' /\ LoopsInRange'
    BY <1>0, <1>a, <2>1 DEF TypeOK, LoopsInRange, rewinding, registering
  <2>3. ContextOfCall'
    BY <1>0, <2>1 DEF ContextOfCall
  <2>4. StatusOfCall'
    BY <1>0, <1>a, <1>b, <2>1 DEF StatusOfCall, rewinding
  <2>5. RegisteredIsInput'
    BY <1>0, <2>1 DEF RegisteredIsInput, rewinding
  <2> QED BY <2>2, <2>3, <2>4, <2>5
<1>3. CASE rewind_cas /\ m_pc_state[input[i]] # "consumer_set"
  <2>1. \A s \in Results : m_pc_state[s] = "idle" => m_consumer[s] = 0
    BY <1>3 DEF RegisteredIsInput, rewind_cas
  <2>2. next_rewind /\ UNCHANGED <<m_pc_state, m_consumer>>
    BY <1>3 DEF rewind_cas
  <2> QED BY <1>0, <1>3, <2>1, <2>2, NextRewindInv, SMTT(30) DEF TypeOK
<1>4. CASE rewind_cas /\ m_pc_state[input[i]] = "consumer_set"
  <2>1. /\ pc = "rewind_cas" /\ pc' = "clear" /\ i' = i /\ m_consumer' = m_consumer
        /\ m_pc_state' = [m_pc_state EXCEPT ![input[i]] = "idle"]
    BY <1>4 DEF rewind_cas
  <2>2. /\ m_pc_state'[input[i]] = "idle" /\ producer[input[i]] = "running"
        /\ \A s \in Results : s # input[i] => m_pc_state'[s] = m_pc_state[s]
        /\ \A s \in Results : m_pc_state'[s] = "producer_done" <=> m_pc_state[s] = "producer_done"
    BY <1>4, <1>a, <2>1 DEF TypeOK, ContextOfCall
  <2>3. TypeOK' /\ LoopsInRange'
    BY <1>0, <1>a, <2>1, SMTT(30) DEF TypeOK, LoopsInRange, rewinding, registering
  <2>4. ContextOfCall'
    BY <1>0, <1>a, <2>1, <2>2 DEF ContextOfCall
  <2>5. StatusOfCall'
    BY <1>0, <1>a, <1>b, <2>1, <2>2, SMTT(30) DEF StatusOfCall, rewinding
  <2>6. RegisteredIsInput'
    BY <1>0, <1>a, <2>1, <2>2, SMTT(30) DEF RegisteredIsInput, rewinding
  <2> QED BY <2>3, <2>4, <2>5, <2>6
<1>5. CASE clear
  <2>1. /\ pc = "clear" /\ next_rewind /\ m_pc_state' = m_pc_state
        /\ m_consumer' = [m_consumer EXCEPT ![input[i]] = 0]
    BY <1>5 DEF clear
  <2>2. m_pc_state[input[i]] # "consumer_set" /\ producer[input[i]] # "resume"
    BY <2>1 DEF RegisteredIsInput
  <2>3. m_consumer' \in [Results -> 0..MaxCalls]
    BY <1>a, <2>1, WhenAnyAssumption DEF TypeOK
  <2>4. m_consumer'[input[i]] = 0 /\ \A s \in Results : s # input[i] => m_consumer'[s] = m_consumer[s]
    BY <1>a, <2>1 DEF TypeOK
  <2>5. \A s \in Results : m_pc_state[s] = "idle" => m_consumer'[s] = 0
    BY <2>1, <2>4 DEF RegisteredIsInput
  <2> QED BY <1>0, <2>1, <2>2, <2>3, <2>4, <2>5, NextRewindInv
<1> QED BY <1>1, <1>2, <1>3, <1>4, <1>5

\* The end of a call and the beginning of the next one preserve Inv.
LEMMA CallInv == Inv /\ (return \/ when_any) => Inv'
<1> SUFFICES ASSUME Inv, return \/ when_any PROVE Inv'
  OBVIOUS
<1> USE DEF Inv, producerVars
<1>1. CASE return
  <2>1. /\ pc = "returned" /\ pc' = "outside" /\ i' = 0
        /\ UNCHANGED <<m_pc_state, m_consumer, m_status, producer, context, call>>
    BY <1>1 DEF return
  <2>2. call \in Calls /\ over(call)
    BY <2>1, RangeFacts DEF over
  <2>3. completed_index \in 1..Len(input)
    <3>1. m_status[call] \in statuses /\ m_status[call] \notin {k_processing, k_done_processing}
      BY <2>2 DEF TypeOK, StatusOfCall
    <3>2. PICK s \in Results : m_status[call] = completed(s)
      BY <3>1, StatusTypes
    <3>3. is_input(s)
      BY <2>1, <2>2, <3>2 DEF StatusOfCall
    <3>4. \E k \in 1..Len(input) : m_status[call] = completed(input[k])
      BY <3>2, <3>3 DEF is_input
    <3> QED BY <3>4 DEF completed_index
  <2>4. input' \in Seq(Results)
    BY <1>1, <2>3, RemoveFacts, Zenon DEF return, TypeOK
  <2>5. TypeOK' /\ LoopsInRange'
    BY <2>1, <2>4 DEF TypeOK, LoopsInRange, registering, rewinding
  <2>6. ContextOfCall'
    BY <2>1 DEF ContextOfCall
  <2>7. \A c \in Calls : over(c)' <=> over(c)
    BY <2>1 DEF over
  <2>8. StatusOfCall'
    BY <2>1, <2>7 DEF StatusOfCall, registering
  <2>9. RegisteredIsInput'
    BY <2>1 DEF RegisteredIsInput, rewinding
  <2> QED BY <2>5, <2>6, <2>8, <2>9
<1>2. CASE when_any
  <2>1. /\ pc = "outside" /\ pc' = "check" /\ i' = 1 /\ call' = call + 1
        /\ call \in Nat /\ call + 1 \in Calls /\ input' = input
        /\ Len(input) \in Nat \ {0}
        /\ m_status' = [m_status EXCEPT ![call + 1] = k_processing]
        /\ UNCHANGED <<m_pc_state, m_consumer, producer, context>>
    BY <1>2, RangeFacts, WhenAnyAssumption DEF when_any, TypeOK, Calls
  <2>2. /\ m_status'[call + 1] = k_processing
        /\ \A c \in Calls : c # call + 1 => m_status'[c] = m_status[c]
    BY <2>1 DEF TypeOK
  <2>3. TypeOK'
    BY <2>1, StatusTypes, WhenAnyAssumption DEF TypeOK, registering, Calls
  <2>4. LoopsInRange'
    BY <2>1 DEF LoopsInRange, registering, rewinding
  <2>5. ContextOfCall'
    <3>1. \A s \in Results : m_consumer[s] \in Nat /\ context[s] \in Nat
      BY WhenAnyAssumption DEF TypeOK
    <3> QED BY <2>1, <3>1 DEF ContextOfCall
  <2>6. \A c \in Calls : over(c)' => over(c) /\ c # call + 1
    BY <2>1, SMTT(30) DEF over, rewinding, Calls
  <2>7. StatusOfCall'
    BY <2>1, <2>2, <2>6, StatusFacts, SMTT(30) DEF StatusOfCall
  <2>8. RegisteredIsInput'
    BY <2>1 DEF RegisteredIsInput, rewinding
  <2> QED BY <2>3, <2>4, <2>5, <2>7, <2>8
<1> QED BY <1>1, <1>2

\* Inv is an invariant of when_any, whoever takes a step.
THEOREM Invariance == Spec => []Inv
<1>1. Inv /\ [Next]_vars => Inv'
  <2> SUFFICES ASSUME Inv, [Next]_vars PROVE Inv'
    OBVIOUS
  <2>1. CASE \E s \in Results : producer_step(s)
    BY <2>1, ProducerInv
  <2>2. CASE coroutine_step
    BY <2>2, RegisteringInv, RewindingInv, CallInv DEF coroutine_step
  <2>3. CASE when_any
    BY <2>3, CallInv
  <2>4. CASE UNCHANGED vars
    <3>1. TypeOK' /\ LoopsInRange'
      BY <2>4 DEF vars, Inv, TypeOK, LoopsInRange
    <3>2. ContextOfCall'
      BY <2>4, Zenon DEF vars, Inv, ContextOfCall, is_input
    <3>3. StatusOfCall'
      BY <2>4, Zenon DEF vars, Inv, StatusOfCall, over, is_input
    <3>4. RegisteredIsInput'
      BY <2>4, Zenon DEF vars, Inv, RegisteredIsInput, is_input
    <3> QED BY <3>1, <3>2, <3>3, <3>4 DEF Inv
  <2> QED BY <2>1, <2>2, <2>3, <2>4 DEF Next
<1> QED BY <1>1, InitInv, PTL DEF Spec

\* The handle of the coroutine is called by one producer only, while the coroutine
\* is suspended in the call whose context that producer holds.
THEOREM ResumedOnce == Spec => []ResumedOnceWhileSuspended
<1>1. Inv => ResumedOnceWhileSuspended
  BY StatusFacts, SMTT(30) DEF Inv, StatusOfCall, ResumedOnceWhileSuspended
<1> QED BY <1>1, Invariance, PTL

\* A call names a ready result among its inputs and leaves nothing registered.
THEOREM CleanEnd == Spec => []EndsCleanly
<1>1. Inv => EndsCleanly
  <2> SUFFICES ASSUME Inv PROVE EndsCleanly
    BY SMTT(30)
  <2>1. ASSUME pc \in {"rewind", "rewind_cas", "clear", "returned"}
        PROVE  \E k \in 1..Len(input) : /\ m_status[call] = completed(input[k])
                                        /\ m_pc_state[input[k]] = "producer_done"
    <3>1. call \in Calls /\ over(call)
      BY <2>1, RangeFacts DEF over, rewinding
    <3>2. m_status[call] \in statuses /\ m_status[call] \notin {k_processing, k_done_processing}
      BY <3>1 DEF Inv, TypeOK, StatusOfCall
    <3>3. PICK s \in Results : m_status[call] = completed(s)
      BY <3>2, StatusTypes
    <3>4. is_input(s) /\ m_pc_state[s] = "producer_done"
      BY <2>1, <3>1, <3>3 DEF Inv, StatusOfCall
    <3> QED BY <3>3, <3>4 DEF is_input
  <2>2. ASSUME pc \in {"outside", "returned"}, NEW s \in Results
        PROVE  /\ m_pc_state[s] # "consumer_set"
               /\ m_pc_state[s] = "idle" => m_consumer[s] = 0
    BY <2>2 DEF Inv, RegisteredIsInput
  <2>3. pc = "load" /\ m_pc_state[input[i]] = "idle" => m_consumer[input[i]] = 0
    BY RangeFacts DEF Inv, RegisteredIsInput, LoopsInRange
  <2> QED BY <2>1, <2>2, <2>3 DEF EndsCleanly
<1> QED BY <1>1, Invariance, PTL
=============================================================================

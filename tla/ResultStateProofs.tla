------------------------- MODULE ResultStateProofs -------------------------
(***************************************************************************)
(* Safety of the protocol on m_pc_state, for every set of operations the   *)
(* application may use.  Inv is inductive: its parts say what m_pc_state   *)
(* can be given where the two ends are (PcStateInv), whose context is in   *)
(* m_consumer (ContextInv), and what the producer still owes after its     *)
(* exchange (DutyInv).  Every safety property follows from it.             *)
(***************************************************************************)
EXTENDS ResultState, TLAPS

\* A new state, with its result in the promise or in the caller's hands,
\* satisfies the invariant.
LEMMA InitInv == Init => Inv
  BY SMTT(30) DEF Init, Inv, TypeOK, OutcomeInv, PcStateInv, OpInv, ContextInv, DutyInv,
         SharedInv, DeletedExactlyOnce, Published, PcState, ConsumerStatus,
         Outcome, ResultStatus, ProducerPc, ConsumerPc, AllOps

\* Every step of either end preserves the invariant.
LEMMA StepInv == Inv /\ [Next]_vars => Inv'
<1> SUFFICES ASSUME Inv, [Next]_vars PROVE Inv'
  OBVIOUS
<1> USE OpsAssumption DEF Inv, TypeOK, OutcomeInv, PcStateInv, OpInv, ContextInv, DutyInv,
         SharedInv, DeletedExactlyOnce, Published, PcState, ConsumerStatus,
         Outcome, ResultStatus, ProducerPc, ConsumerPc, AllOps
<1>1. CASE set_result
  BY <1>1 DEF set_result, build, consumerVars
<1>2. CASE set_exception
  BY <1>2 DEF set_exception, build, consumerVars
<1>3. CASE break_task_if_needed
  BY <1>3 DEF break_task_if_needed, build, consumerVars
<1>4. CASE get_result
  BY <1>4 DEF get_result
<1>5. CASE destroy_promise
  BY <1>5 DEF destroy_promise
<1>6. CASE complete_producer
  BY <1>6 DEF complete_producer, duty, consumerVars, context_of
<1>7. CASE notify_one
  BY <1>7 DEF notify_one
<1>8. CASE resume_consumer
  BY <1>8 DEF resume_consumer, consumerVars
<1>9. CASE signal
  BY <1>9 DEF signal, signal_await, signal_wait_for, signal_when_any, signal_shared, context_of
<1>10. CASE status
  BY <1>10 DEF status, producerVars
<1>11. ASSUME NEW o \in Ops, load(o) PROVE Inv'
  BY <1>11 DEF load, finish_op, done_pc, producerVars
<1>12. CASE set_context
  BY <1>12 DEF set_context, context_of, producerVars
<1>13. CASE cas_from_idle
  BY <1>13 DEF cas_from_idle, finish_op, done_pc, published_pc, producerVars, context_of
<1>14. CASE wait_loop
  BY <1>14 DEF wait_loop, done_pc, producerVars
<1>15. CASE wait_for_acquired
  BY <1>15 DEF wait_for_acquired, producerVars
<1>16. CASE wait_for_timeout
  BY <1>16 DEF wait_for_timeout, producerVars
<1>17. CASE resumed_by_other_result
  BY <1>17 DEF resumed_by_other_result, producerVars
<1>18. CASE destroy_shared
  BY <1>18 DEF destroy_shared, producerVars
<1>19. CASE rewind_load
  BY <1>19 DEF rewind_load, rewound_pc, producerVars
<1>20. CASE rewind_cas
  BY <1>20 DEF rewind_cas, rewound_pc, producerVars
<1>21. CASE clear
  BY <1>21 DEF clear, rewound_pc, producerVars
<1>22. CASE fetch
  BY <1>22 DEF fetch, producerVars
<1>23. CASE drop
  BY <1>23 DEF drop, producerVars
<1>24. CASE complete_consumer_load
  BY <1>24 DEF complete_consumer_load, producerVars
<1>25. CASE complete_consumer_exchange
  BY <1>25, SMTT(30) DEF complete_consumer_exchange, producerVars
<1>26. CASE UNCHANGED vars
  BY <1>26 DEF vars
<1> QED
  BY ZenonT(30), <1>1, <1>2, <1>3, <1>4, <1>5, <1>6, <1>7, <1>8, <1>9, <1>10, <1>11,
     <1>12, <1>13, <1>14, <1>15, <1>16, <1>17, <1>18, <1>19, <1>20, <1>21,
     <1>22, <1>23, <1>24, <1>25, <1>26
  DEF Next, producer_end, consumer_step, application, terminated

\* The invariant holds throughout.
THEOREM Invariance == Spec => []Inv
  BY InitInv, StepInv, PTL DEF Spec

\* The variables keep their types: m_pc_state, the consumer context and the
\* producer context only take the values their enumerations declare.
THEOREM TypeCorrect == Spec => []TypeOK
<1>1. Inv => TypeOK
  BY DEF Inv
<1> QED
  BY <1>1, Invariance, PTL

\* delete_self runs exactly once, when the second end lets go of the state.
THEOREM Deletion == Spec => []DeletedExactlyOnce
<1>1. Inv => DeletedExactlyOnce
  BY DEF Inv
<1> QED
  BY <1>1, Invariance, PTL

\* complete_producer leaves no parked thread or coroutine behind.
THEOREM Wakeup == Spec => []NoLostWakeup
<1>1. Inv => NoLostWakeup
  BY DEF Inv, DutyInv, NoLostWakeup, Parked, Published
<1> QED
  BY <1>1, Invariance, PTL

\* resume_consumer acts on the context of the operation that waits.
THEOREM Signalling == Spec => []SignalReachesItsOwner
<1>1. Inv => SignalReachesItsOwner
  BY DEF Inv, ContextInv, DutyInv, SignalReachesItsOwner
<1> QED
  BY <1>1, Invariance, PTL

\* The assertions written in result_state and consumer_context hold.
THEOREM Assertions == Spec => []AssertionsHold
<1>1. Inv => AssertionsHold
  BY DEF Inv, PcStateInv, ContextInv, AssertionsHold
<1> QED
  BY <1>1, Invariance, PTL

\* What the consumer is told and what it fetches is what the producer built.
THEOREM Observation == Spec => []ObservedIsProduced
<1>1. Inv => ObservedIsProduced
  BY DEF Inv, TypeOK, OutcomeInv, PcStateInv, ObservedIsProduced, Published,
         ProducerPc, ResultStatus, Outcome
<1> QED
  BY <1>1, Invariance, PTL

\* A shared result state is told of the outcome exactly once.
THEOREM SharedOnce == Spec => []SharedFinishedOnce
<1>1. Inv => SharedFinishedOnce
  BY DEF Inv, SharedInv, SharedFinishedOnce
<1> QED
  BY <1>1, Invariance, PTL

\* An outcome never changes once it was built, and m_pc_state leaves
\* producer_done only by the exchange of the consumer that deletes the state.
THEOREM Finality == Spec => PublicationIsFinal
<1> DEFINE Final == /\ m_producer # "idle" => m_producer' = m_producer
                    /\ m_pc_state = "producer_done" /\ m_pc_state' # "producer_done"
                         => deletions' = deletions + 1
<1>1. Inv /\ [Next]_vars => [Final]_vars
  <2> SUFFICES ASSUME Inv, Next PROVE Final
    OBVIOUS
  <2>1. CASE producer_end
    BY <2>1 DEF producer_end, complete_producer, notify_one, resume_consumer,
                signal
  <2>2. CASE consumer_step
    <3>1. CASE complete_consumer_exchange
      BY <3>1 DEF complete_consumer_exchange, producerVars
    <3>2. CASE consumer_step /\ ~complete_consumer_exchange
      BY <3>2 DEF consumer_step, set_context, cas_from_idle, wait_loop,
           wait_for_acquired, wait_for_timeout, rewind_load, rewind_cas, clear,
           fetch, complete_consumer_load, producerVars
    <3> QED
      BY <2>2, <3>1, <3>2
  <2>3. CASE application
    <3>1. Inv => (prod = "running" => m_producer = "idle")
      BY DEF Inv, OutcomeInv
    <3> QED
      BY <2>3, <3>1 DEF application, set_result, set_exception,
           break_task_if_needed, build, get_result, destroy_promise, status,
           load, resumed_by_other_result, destroy_shared, drop, producerVars
  <2>4. CASE terminated
    BY <2>4 DEF terminated, vars
  <2> QED
    BY <2>1, <2>2, <2>3, <2>4 DEF Next
<1> QED
  BY <1>1, Invariance, PTL DEF Spec, PublicationIsFinal

\* An application that only waits, gets and awaits never has its consumer
\* context read after the state was deleted: the producer reads it only while
\* the consumer is suspended, and resumes the consumer after the read.
THEOREM ContextLifetime ==
  ASSUME Ops \cap {"wait_for", "when_any", "share"} = {}
  PROVE  Spec => []ContextOutlivesResume
<1> DEFINE Plain == /\ op \notin {"wait_for", "when_any", "share"}
                    /\ m_consumer \in {"idle", "await"}
<1>1. Init => Plain
  BY DEF Init
<1>2. Plain /\ [Next]_vars => Plain'
  <2> SUFFICES ASSUME Plain, [Next]_vars PROVE Plain'
    OBVIOUS
  <2>1. CASE producer_end
    BY <2>1 DEF producer_end, complete_producer, notify_one, resume_consumer,
                signal, consumerVars
  <2>2. CASE consumer_step
    BY <2>2 DEF consumer_step, set_context, context_of, cas_from_idle,
         wait_loop, wait_for_acquired, wait_for_timeout, rewind_load,
         rewind_cas, clear, fetch, complete_consumer_load,
         complete_consumer_exchange
  <2>3. CASE application
    BY <2>3 DEF application, set_result, set_exception,
         break_task_if_needed, build, get_result, destroy_promise, status,
         load, resumed_by_other_result, destroy_shared, drop, consumerVars
  <2>4. CASE terminated \/ UNCHANGED vars
    BY <2>4 DEF terminated, vars
  <2> QED
    BY <2>1, <2>2, <2>3, <2>4 DEF Next
<1>3. Inv /\ Plain => ContextOutlivesResume
  BY DEF Inv, DutyInv, DeletedExactlyOnce, ContextOutlivesResume
<1> QED
  BY <1>1, <1>2, <1>3, Invariance, PTL DEF Spec

\* The protocol implements a one-shot future: the exchange of the producer is
\* its publication, the fetch its delivery, and every other step is invisible.
THEOREM Implementation == Spec => ImplementsFuture
<1>1. Init => Promise!Init
  BY DEF Init, Promise!Init, Published
<1>2. Inv /\ [Next]_vars => [Promise!Next]_(Promise!vars)
  <2> SUFFICES ASSUME Inv, [Next]_vars PROVE [Promise!Next]_(Promise!vars)
    OBVIOUS
  <2> USE DEF Published, Promise!vars
  <2>1. CASE complete_producer
    <3>1. CASE prod = "built"
      <4>1. m_producer \in Outcome
        BY <3>1 DEF Inv, OutcomeInv
      <4>2. Promise!Publish(m_producer)
        BY <2>1, <3>1, <4>1 DEF complete_producer, duty, consumerVars,
             Promise!Publish
      <4> QED
        BY <4>1, <4>2 DEF Promise!Next
    <3>2. CASE prod = "abandoned"
      <4>1. Promise!Abandon
        BY <2>1, <3>2 DEF complete_producer, duty, consumerVars,
             Promise!Abandon, Inv, OutcomeInv
      <4> QED
        BY <4>1 DEF Promise!Next
    <3> QED
      BY <2>1, <3>1, <3>2 DEF complete_producer
  <2>2. CASE notify_one \/ resume_consumer \/ signal
    BY <2>2 DEF notify_one, resume_consumer, signal, signal_await,
         signal_wait_for, signal_when_any, signal_shared, consumerVars,
         Inv, DutyInv, ContextInv
  <2>3. CASE fetch
    <3>1. Published /\ m_producer \in Outcome
      BY <2>3 DEF fetch, Inv, TypeOK, OutcomeInv, PcStateInv, ProducerPc,
           ResultStatus
    <3>2. Promise!Deliver
      BY <2>3, <3>1 DEF fetch, producerVars, Promise!Deliver, Outcome
    <3> QED
      BY <3>2 DEF Promise!Next
  <2>4. CASE complete_consumer_load \/ complete_consumer_exchange
    <3>1. Promise!Discard \/ UNCHANGED Promise!vars
      BY <2>4 DEF complete_consumer_load, complete_consumer_exchange,
           producerVars, Promise!Discard
    <3> QED
      BY <3>1 DEF Promise!Next
  <2>5. CASE consumer_step /\ ~(fetch \/ complete_consumer_load
                                    \/ complete_consumer_exchange)
    BY <2>5 DEF consumer_step, set_context, cas_from_idle, finish_op, done_pc,
         published_pc, wait_loop, wait_for_acquired, wait_for_timeout,
         rewind_load, rewind_cas, rewound_pc, clear, producerVars
  <2>6. CASE application
    BY <2>6 DEF application, set_result, set_exception, break_task_if_needed,
         build, get_result, destroy_promise, status, load, finish_op, done_pc,
         resumed_by_other_result, destroy_shared, drop, producerVars,
         consumerVars
  <2>7. CASE terminated \/ UNCHANGED vars
    BY <2>7 DEF terminated, vars
  <2> QED
    BY <2>1, <2>2, <2>3, <2>4, <2>5, <2>6, <2>7
    DEF Next, producer_end
<1> QED
  BY <1>1, <1>2, Invariance, PTL DEF Spec, ImplementsFuture, Promise!Spec
=============================================================================

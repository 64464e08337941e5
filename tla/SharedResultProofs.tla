------------------------- MODULE SharedResultProofs -------------------------
(***************************************************************************)
(* shared_result_state for any number of consumers.                        *)
(*                                                                         *)
(* Everything follows from Inv, which is inductive.  AliveWhileFinishing   *)
(* and ToldWhenBothAreDone need OneRunner, which says who is second at     *)
(* m_pc_state, and HoldersArePlaces, by which that one holds a reference;  *)
(* NoConsumerLost and ResumedInOrder need AwaitersInOrder across the       *)
(* exchange that turns the stack around.                                   *)
(***************************************************************************)
EXTENDS SharedResult, FunctionTheorems, FiniteSetTheorems, SequenceTheorems, TLAPS

waiting == {t \in Threads : thread[t] = "acquire"}

\* A set of consumers is finite, and the smaller of two has no more members.
LEMMA SmallerSet ==
  ASSUME NEW S, NEW T, S \subseteq Threads, T \subseteq S
  PROVE  /\ Cardinality(S) \in Nat /\ Cardinality(T) \in Nat
         /\ Cardinality(T) <= Cardinality(S)
<1>1. IsFiniteSet(S)
  BY ThreadsAssumption, FS_Subset
<1> QED BY <1>1, FS_Subset, FS_CardinalityType

\* The order of the awaiters is not disturbed by a step that leaves the lists
\* alone and neither suspends nor resumes anyone.
LEMMA AwaitersFrame ==
  ASSUME AwaitersInOrder, UNCHANGED <<pushed, resumed, list, m_awaiters, ready>>,
         TypeOK,
         finish' \in {"resume", "done"} <=> finish \in {"resume", "done"},
         finish' = "done" => list = <<>>,
         \A t \in Threads : thread'[t] = "suspended" <=> thread[t] = "suspended"
  PROVE  AwaitersInOrder'
<1>1. \A k \in 1..Len(pushed) : pushed[k] \in Threads
  BY DEF TypeOK
<1>2. Len(resumed) \in Nat /\ Len(pushed) \in Nat
  BY DEF TypeOK
<1>3. \A k \in Len(resumed) + 1..Len(pushed) : thread'[pushed[k]] = "suspended"
  BY <1>1, <1>2 DEF AwaitersInOrder
<1> QED BY <1>3 DEF AwaitersInOrder

\* There are still permits enough after a step that lets nobody in.
LEMMA PermitsFrame ==
  ASSUME PermitsSuffice, TypeOK, m_semaphore' = m_semaphore, m_status' = m_status,
         finish' = finish \/ (finish = "idle" /\ finish' = "store")
           \/ (finish = "exchange" /\ finish' = "resume")
           \/ (finish = "resume" /\ finish' = "done"),
         finish # "idle" /\ finish # "store" =>
           \A t \in Threads : thread'[t] = "acquire" => thread[t] = "acquire"
  PROVE  PermitsSuffice'
<1>1. finish' \notin {"idle", "store"} => m_status' = "finished"
  BY DEF PermitsSuffice, TypeOK
<1>2. ASSUME finish' \in {"exchange", "resume", "done"}
      PROVE  Cardinality(waiting') <= m_semaphore'
  <2>1. finish \in {"exchange", "resume", "done"}
    BY <1>2 DEF TypeOK
  <2>2. waiting' \subseteq waiting /\ waiting \subseteq Threads
    BY <2>1 DEF waiting
  <2>3. Cardinality(waiting) <= m_semaphore
    BY <2>1 DEF PermitsSuffice, waiting
  <2>4. /\ Cardinality(waiting) \in Nat /\ Cardinality(waiting') \in Nat
        /\ Cardinality(waiting') <= Cardinality(waiting)
    BY <2>2, SmallerSet
  <2> QED BY <2>3, <2>4 DEF TypeOK
<1> QED BY <1>1, <1>2 DEF PermitsSuffice, waiting

\* Inv holds before the shared_result is constructed.
LEMMA InitInv == Init => Inv
<1> SUFFICES ASSUME Init PROVE Inv
  OBVIOUS
<1>1. TypeOK
  <2>1. ready \in BOOLEAN
    BY Zenon DEF Init
  <2> QED BY <2>1 DEF Init, TypeOK
<1>2. OneRunner
  BY DEF Init, OneRunner, finishing, Producer, Constructor
<1>3. HoldersArePlaces
  BY ThreadsAssumption DEF Init, HoldersArePlaces, Producer, Constructor
<1>4. AwaitersInOrder
  BY DEF Init, AwaitersInOrder
<1>5. PermitsSuffice /\ ToldWhenBothAreDone
  BY DEF Init, PermitsSuffice, ToldWhenBothAreDone
<1> QED BY <1>1, <1>2, <1>3, <1>4, <1>5 DEF Inv

\* The steps of the constructor preserve Inv.
LEMMA ShareInv == Inv /\ share => Inv'
<1> SUFFICES ASSUME Inv, share PROVE Inv'
  OBVIOUS
<1> USE DEF Inv, threadVars, finishVars, start_finish, constructed
<1>1. CASE share_load
  <2>1. TypeOK'
    BY <1>1 DEF share_load, TypeOK
  <2>2. OneRunner'
    BY <1>1 DEF share_load, TypeOK, OneRunner, finishing, Producer, Constructor
  <2>3. HoldersArePlaces' /\ ToldWhenBothAreDone'
    BY <1>1 DEF share_load, HoldersArePlaces, ToldWhenBothAreDone
  <2>4. AwaitersInOrder'
    BY <1>1, AwaitersFrame DEF share_load, OneRunner
  <2>5. PermitsSuffice'
    BY <1>1, PermitsFrame DEF share_load, OneRunner
  <2> QED BY <2>1, <2>2, <2>3, <2>4, <2>5, SMTT(30)
<1>2. CASE share_cas
  <2>1. TypeOK'
    BY <1>2, SMTT(30) DEF share_cas, TypeOK
  <2>2. OneRunner'
    BY <1>2 DEF share_cas, TypeOK, OneRunner, finishing, Producer, Constructor
  <2>3. HoldersArePlaces'
    BY <1>2, ThreadsAssumption
    DEF share_cas, HoldersArePlaces, OneRunner, Producer, Constructor
  <2>4. AwaitersInOrder'
    BY <1>2, AwaitersFrame DEF share_cas, OneRunner
  <2>5. PermitsSuffice'
    BY <1>2, PermitsFrame DEF share_cas, OneRunner
  <2>6. ToldWhenBothAreDone'
    BY <1>2, SMTT(30) DEF share_cas, ToldWhenBothAreDone, OneRunner
  <2> QED BY <2>1, <2>2, <2>3, <2>4, <2>5, <2>6, SMTT(30)
<1> QED BY <1>1, <1>2 DEF share

\* The steps of the producer preserve Inv.
LEMMA ProduceInv == Inv /\ produce => Inv'
<1> SUFFICES ASSUME Inv, produce PROVE Inv'
  OBVIOUS
<1> USE DEF Inv, threadVars, finishVars, start_finish
<1>1. CASE complete_producer
  <2>1. TypeOK'
    BY <1>1 DEF complete_producer, TypeOK
  <2>2. OneRunner'
    BY <1>1 DEF complete_producer, TypeOK, OneRunner, finishing, Producer, Constructor
  <2>3. HoldersArePlaces'
    BY <1>1, SMTT(30) DEF complete_producer, HoldersArePlaces, OneRunner
  <2>4. AwaitersInOrder'
    BY <1>1, AwaitersFrame DEF complete_producer, AwaitersInOrder
  <2>5. PermitsSuffice'
    BY <1>1, PermitsFrame DEF complete_producer
  <2>6. ToldWhenBothAreDone'
    BY <1>1, SMTT(30) DEF complete_producer, ToldWhenBothAreDone, OneRunner, TypeOK
  <2> QED BY <2>1, <2>2, <2>3, <2>4, <2>5, <2>6, SMTT(30)
<1>2. CASE lock_weak
  <2>1. TypeOK'
    BY <1>2 DEF lock_weak, TypeOK
  <2>2. OneRunner'
    BY <1>2 DEF lock_weak, TypeOK, OneRunner, finishing, Producer, Constructor
  <2>3. HoldersArePlaces'
    BY <1>2, ThreadsAssumption
    DEF lock_weak, HoldersArePlaces, Producer, Constructor
  <2>4. AwaitersInOrder'
    BY <1>2, AwaitersFrame DEF lock_weak, OneRunner
  <2>5. PermitsSuffice'
    BY <1>2, PermitsFrame DEF lock_weak, OneRunner
  <2>6. ToldWhenBothAreDone'
    BY <1>2 DEF lock_weak, ToldWhenBothAreDone
  <2> QED BY <2>1, <2>2, <2>3, <2>4, <2>5, <2>6, SMTT(30)
<1> QED BY <1>1, <1>2 DEF produce

\* Turning a stack around keeps its elements and inverts their order.
LEMMA ReversedFacts ==
  ASSUME NEW s \in Seq(Threads)
  PROVE  /\ reversed(s) \in Seq(Threads) /\ Len(reversed(s)) = Len(s)
         /\ \A k \in 1..Len(s) : reversed(s)[k] = s[Len(s) + 1 - k]
<1>1. \A k \in 1..Len(s) : s[Len(s) + 1 - k] \in Threads
  OBVIOUS
<1>2. Len(s) \in Nat
  OBVIOUS
<1>3. reversed(s) \in [1..Len(s) -> Threads]
  BY <1>1 DEF reversed
<1>4. reversed(s) \in Seq(Threads) /\ Len(reversed(s)) = Len(s)
  BY <1>2, <1>3
<1> QED BY <1>4 DEF reversed

\* The front of the list and the rest of it.
LEMMA ListFacts ==
  ASSUME NEW s \in Seq(Threads), s # <<>>
  PROVE  /\ Len(s) \in Nat \ {0} /\ Head(s) = s[1] /\ Head(s) \in Threads
         /\ Tail(s) \in Seq(Threads) /\ Len(Tail(s)) = Len(s) - 1
         /\ \A k \in 1..Len(s) - 1 : Tail(s)[k] = s[k + 1]
  OBVIOUS

\* An element more at the end of a list.
LEMMA AppendFacts ==
  ASSUME NEW s \in Seq(Threads), NEW t \in Threads
  PROVE  /\ Append(s, t) \in Seq(Threads) /\ Len(s) \in Nat
         /\ Len(Append(s, t)) = Len(s) + 1
         /\ \A k \in 1..Len(s) : Append(s, t)[k] = s[k]
         /\ Append(s, t)[Len(s) + 1] = t
  OBVIOUS

\* An element more at the front of the stack.
LEMMA PushFacts ==
  ASSUME NEW s \in Seq(Threads), NEW t \in Threads
  PROVE  /\ <<t>> \o s \in Seq(Threads) /\ Len(<<t>> \o s) = Len(s) + 1
         /\ (<<t>> \o s)[1] = t
         /\ \A k \in 2..Len(s) + 1 : (<<t>> \o s)[k] = s[k - 1]
  OBVIOUS

\* The exchange turns the stack into the list to resume.
LEMMA ExchangeInOrder ==
  ASSUME TypeOK, AwaitersInOrder, exchange
  PROVE  AwaitersInOrder'
<1>1. /\ finish = "exchange" /\ finish' = "resume" /\ ready'
      /\ m_awaiters' = <<>> /\ list' = reversed(m_awaiters)
      /\ UNCHANGED <<pushed, resumed, thread>>
  BY DEF exchange, threadVars
<1>2. /\ m_awaiters \in Seq(Threads) /\ pushed \in Seq(Threads)
      /\ Len(m_awaiters) \in Nat /\ Len(pushed) \in Nat
  BY DEF TypeOK
<1>3. ~ready
  BY <1>1 DEF AwaitersInOrder
<1>4. list = <<>> /\ resumed = <<>> /\ Len(pushed) = Len(m_awaiters)
  BY <1>2, <1>3 DEF AwaitersInOrder
<1>5. /\ list' \in Seq(Threads) /\ Len(list') = Len(m_awaiters)
      /\ \A k \in 1..Len(m_awaiters) : list'[k] = m_awaiters[Len(m_awaiters) + 1 - k]
  BY <1>1, <1>2, ReversedFacts
<1>6. ASSUME NEW k \in 1..Len(list')
      PROVE  list'[k] = pushed[Len(resumed) + k]
  <2>1. Len(m_awaiters) + 1 - k \in 1..Len(m_awaiters)
    BY <1>2, <1>5
  <2>2. m_awaiters[Len(m_awaiters) + 1 - k]
           = pushed[Len(pushed) + 1 - (Len(m_awaiters) + 1 - k)]
    BY <2>1, SMTT(30) DEF AwaitersInOrder
  <2>3. Len(pushed) + 1 - (Len(m_awaiters) + 1 - k) = Len(resumed) + k
    BY <1>2, <1>4, <1>5
  <2>4. list'[k] = m_awaiters[Len(m_awaiters) + 1 - k]
    BY <1>5
  <2> QED BY <2>2, <2>3, <2>4
<1>7. Len(pushed') = Len(resumed') + Len(list') + Len(m_awaiters')
  BY <1>1, <1>2, <1>4, <1>5
<1>8. /\ \A k \in 1..Len(resumed') : resumed'[k] = pushed'[k]
      /\ \A k \in 1..Len(m_awaiters') :
            m_awaiters'[k] = pushed'[Len(pushed') + 1 - k]
  BY <1>1, <1>4
<1> QED BY <1>1, <1>6, <1>7, <1>8 DEF AwaitersInOrder

\* Resuming the front of the list takes it from the list to the history.
LEMMA ResumeInOrder ==
  ASSUME TypeOK, AwaitersInOrder, resume_awaiter
  PROVE  AwaitersInOrder' /\ thread[Head(list)] = "suspended"
<1> DEFINE n == Len(resumed)
<1>1. /\ finish = "resume" /\ list # <<>>
      /\ thread' = [thread EXCEPT ![Head(list)] = "ready"]
      /\ resumed' = Append(resumed, Head(list)) /\ list' = Tail(list)
      /\ UNCHANGED <<pushed, m_awaiters, ready, finish>>
  BY DEF resume_awaiter
<1>2. /\ list \in Seq(Threads) /\ resumed \in Seq(Threads) /\ pushed \in Seq(Threads)
      /\ n \in Nat /\ Len(pushed) \in Nat
      /\ \A k \in 1..Len(pushed) : pushed[k] \in Threads
      /\ DOMAIN thread = Threads
  BY DEF TypeOK
<1>3. ready /\ m_awaiters = <<>>
  BY <1>1 DEF AwaitersInOrder
<1>4. Len(pushed) = n + Len(list)
  BY <1>2, <1>3 DEF AwaitersInOrder
<1>5. /\ Len(list) \in Nat \ {0} /\ Head(list) = list[1] /\ Head(list) \in Threads
      /\ Len(list') = Len(list) - 1
      /\ \A k \in 1..Len(list) - 1 : list'[k] = list[k + 1]
  BY <1>1, <1>2, ListFacts
<1>6. /\ Len(resumed') = n + 1 /\ resumed'[n + 1] = Head(list)
      /\ \A k \in 1..n : resumed'[k] = resumed[k]
  BY <1>1, <1>2, <1>5, AppendFacts, SMTT(30)
<1>7. Head(list) = pushed[n + 1] /\ n + 1 \in n + 1..Len(pushed)
  BY <1>2, <1>4, <1>5, SMTT(30) DEF AwaitersInOrder
<1>8. thread[Head(list)] = "suspended"
  BY <1>7 DEF AwaitersInOrder
<1>9. \A k \in 1..n + 1 : resumed'[k] = pushed[k]
  <2> SUFFICES ASSUME NEW k \in 1..n + 1 PROVE resumed'[k] = pushed[k]
    OBVIOUS
  <2>1. CASE k = n + 1
    BY <2>1, <1>6, <1>7
  <2>2. CASE k \in 1..n
    BY <2>2, <1>6 DEF AwaitersInOrder
  <2> QED BY <2>1, <2>2, <1>2
<1>10. \A k \in 1..Len(list') : list'[k] = pushed[(n + 1) + k]
  <2> SUFFICES ASSUME NEW k \in 1..Len(list') PROVE list'[k] = pushed[(n + 1) + k]
    OBVIOUS
  <2>1. k \in 1..Len(list) - 1 /\ k + 1 \in 1..Len(list)
    BY <1>5
  <2>2. list'[k] = list[k + 1] /\ list[k + 1] = pushed[n + (k + 1)]
    BY <2>1, <1>5 DEF AwaitersInOrder
  <2>3. n + (k + 1) = (n + 1) + k
    BY <2>1, <1>2
  <2> QED BY <2>2, <2>3
<1>11. \A k \in (n + 1) + 1..Len(pushed) : thread'[pushed[k]] = "suspended"
  <2> SUFFICES ASSUME NEW k \in (n + 1) + 1..Len(pushed)
               PROVE  thread'[pushed[k]] = "suspended"
    OBVIOUS
  <2>1. k \in n + 1..Len(pushed) /\ k \in 1..Len(pushed) /\ n + 1 \in 1..Len(pushed)
        /\ k # n + 1
    BY <1>2, <1>7
  <2>2. pushed[k] # pushed[n + 1]
    BY <2>1 DEF AwaitersInOrder
  <2>3. thread[pushed[k]] = "suspended" /\ pushed[k] \in Threads
    BY <2>1, <1>2 DEF AwaitersInOrder
  <2> QED BY <2>2, <2>3, <1>1, <1>2, <1>7, SMTT(30)
<1>12. ASSUME NEW t \in Threads, thread'[t] = "suspended"
       PROVE  \E k \in (n + 1) + 1..Len(pushed) : pushed[k] = t
  <2>1. thread[t] = "suspended" /\ t # Head(list)
    BY <1>12, <1>1, <1>2, <1>5, SMTT(30)
  <2>2. PICK k \in n + 1..Len(pushed) : pushed[k] = t
    BY <2>1 DEF AwaitersInOrder
  <2>3. k # n + 1
    BY <2>1, <2>2, <1>7
  <2>4. k \in (n + 1) + 1..Len(pushed)
    BY <2>3, <1>2
  <2> QED BY <2>2, <2>4
<1>13. Len(pushed') = Len(resumed') + Len(list') + Len(m_awaiters')
  BY <1>1, <1>2, <1>3, <1>4, <1>5, <1>6, SMTT(30)
<1>14. \A k \in 1..Len(m_awaiters') : m_awaiters'[k] = pushed'[Len(pushed') + 1 - k]
  BY <1>1 DEF AwaitersInOrder
<1>15. \A j, k \in 1..Len(pushed') : pushed'[j] = pushed'[k] => j = k
  BY <1>1 DEF AwaitersInOrder
<1> QED BY <1>1, <1>3, <1>6, <1>8, <1>9, <1>10, <1>11, <1>12, <1>13, <1>14, <1>15, SMTT(30)
        DEF AwaitersInOrder

\* The steps of on_result_finished preserve Inv.
LEMMA FinishInv == Inv /\ on_result_finished => Inv'
<1> SUFFICES ASSUME Inv, on_result_finished PROVE Inv'
  OBVIOUS
<1> USE DEF Inv, threadVars
<1>1. CASE store_status
  <2>1. TypeOK' /\ HoldersArePlaces' /\ ToldWhenBothAreDone'
    BY <1>1 DEF store_status, TypeOK, HoldersArePlaces, ToldWhenBothAreDone
  <2>2. OneRunner'
    BY <1>1 DEF store_status, OneRunner, finishing
  <2>3. AwaitersInOrder'
    BY <1>1, AwaitersFrame DEF store_status
  <2>4. PermitsSuffice'
    BY <1>1 DEF store_status, PermitsSuffice
  <2> QED BY <2>1, <2>2, <2>3, <2>4, SMTT(30)
<1>2. CASE notify_all
  <2>1. \A t \in Threads :
           /\ thread'[t] = "gone" <=> thread[t] = "gone"
           /\ thread'[t] = "suspended" <=> thread[t] = "suspended"
           /\ thread[t] = "ready" => thread'[t] = "ready"
    BY <1>2 DEF notify_all
  <2>2. TypeOK'
    BY <1>2 DEF notify_all, TypeOK
  <2>3. OneRunner' /\ ToldWhenBothAreDone'
    BY <1>2 DEF notify_all, OneRunner, finishing, ToldWhenBothAreDone
  <2>4. HoldersArePlaces'
    BY <1>2, <2>1 DEF notify_all, HoldersArePlaces
  <2>5. AwaitersInOrder'
    BY <1>2, <2>1, AwaitersFrame DEF notify_all
  <2>6. PermitsSuffice'
    BY <1>2 DEF notify_all, PermitsSuffice
  <2> QED BY <2>2, <2>3, <2>4, <2>5, <2>6, SMTT(30)
<1>3. CASE release
  <2>1. Cardinality(Threads) \in Nat /\ Cardinality(waiting') <= Cardinality(Threads)
    BY SmallerSet DEF waiting
  <2>2. TypeOK'
    BY <1>3, <2>1, SMTT(30) DEF release, TypeOK
  <2>3. OneRunner' /\ HoldersArePlaces' /\ ToldWhenBothAreDone'
    BY <1>3 DEF release, OneRunner, finishing, HoldersArePlaces, ToldWhenBothAreDone
  <2>4. AwaitersInOrder'
    BY <1>3, AwaitersFrame DEF release
  <2>5. PermitsSuffice'
    BY <1>3, <2>1, SMTT(30) DEF release, PermitsSuffice, waiting
  <2> QED BY <2>2, <2>3, <2>4, <2>5
<1>4. CASE exchange
  <2>1. reversed(m_awaiters) \in Seq(Threads)
    BY ReversedFacts DEF TypeOK
  <2>2. ready' \in BOOLEAN
    BY <1>4, Zenon DEF exchange
  <2>3. TypeOK'
    BY <1>4, <2>1, <2>2, SMTT(30) DEF exchange, TypeOK
  <2>4. OneRunner' /\ HoldersArePlaces' /\ ToldWhenBothAreDone'
    BY <1>4 DEF exchange, OneRunner, finishing, HoldersArePlaces, ToldWhenBothAreDone
  <2>5. AwaitersInOrder'
    BY <1>4, ExchangeInOrder
  <2>6. PermitsSuffice'
    BY <1>4, PermitsFrame DEF exchange
  <2> QED BY <2>3, <2>4, <2>5, <2>6
<1>5. CASE resume_awaiter
  <2>1. AwaitersInOrder' /\ thread[Head(list)] = "suspended"
    BY <1>5, ResumeInOrder
  <2>2. /\ Head(list) \in Threads /\ Tail(list) \in Seq(Threads)
        /\ Append(resumed, Head(list)) \in Seq(Threads)
    BY <1>5, ListFacts, AppendFacts, SMTT(30) DEF resume_awaiter, TypeOK
  <2>3. TypeOK'
    BY <1>5, <2>2 DEF resume_awaiter, TypeOK
  <2>4. OneRunner' /\ ToldWhenBothAreDone'
    BY <1>5 DEF resume_awaiter, OneRunner, finishing, ToldWhenBothAreDone
  <2>5. \A t \in Threads :
           /\ thread'[t] = "gone" <=> thread[t] = "gone"
           /\ thread'[t] = "acquire" => thread[t] = "acquire"
           /\ thread[t] = "ready" => thread'[t] = "ready"
    BY <1>5, <2>1, <2>2 DEF resume_awaiter, TypeOK
  <2>6. HoldersArePlaces'
    BY <1>5, <2>5 DEF resume_awaiter, HoldersArePlaces
  <2>7. PermitsSuffice'
    BY <1>5, <2>5, PermitsFrame, SMTT(30) DEF resume_awaiter
  <2> QED BY <2>1, <2>3, <2>4, <2>6, <2>7, SMTT(30)
<1>6. CASE on_result_finished_returns
  <2> USE DEF on_result_finished_returns, release_reference, constructed
  <2>1. runner \in {Producer, Constructor} /\ m_pc_state = "producer_done"
    BY <1>6 DEF OneRunner, TypeOK
  <2>2. TypeOK'
    BY <1>6 DEF TypeOK
  <2>3. OneRunner'
    BY <1>6, <2>1, SMTT(30) DEF OneRunner, finishing, TypeOK, Producer, Constructor
  <2>4. HoldersArePlaces'
    BY <1>6, <2>1, ThreadsAssumption, SMTT(30)
    DEF HoldersArePlaces, OneRunner, finishing, Producer, Constructor
  <2>5. AwaitersInOrder'
    BY <1>6, AwaitersFrame
  <2>6. PermitsSuffice'
    BY <1>6, PermitsFrame
  <2>7. ToldWhenBothAreDone'
    BY <1>6 DEF ToldWhenBothAreDone
  <2> QED BY <2>2, <2>3, <2>4, <2>5, <2>6, <2>7, SMTT(30)
<1> QED BY <1>1, <1>2, <1>3, <1>4, <1>5, <1>6, SMTT(30) DEF on_result_finished

\* Where a consumer is when it can be in the middle of a call.
Calling == {"ready", "wait", "blocked", "wait_until", "acquire", "load", "cas"}

\* A consumer that moves about inside its calls disturbs nothing, as long as it
\* does not start to wait for a permit after the release.
LEMMA ConsumerFrame ==
  ASSUME Inv, NEW t \in Threads, NEW where \in Calling, thread[t] \in Calling,
         constructor = "done", goto(t, where), UNCHANGED <<otherVars, m_awaiters, pushed>>,
         expected' \in [Threads -> Seq(Threads)],
         where = "acquire" => m_status = "idle"
  PROVE  Inv'
<1> USE DEF Inv, otherVars, finishVars
<1>1. \A u \in Threads :
         /\ thread'[u] = "gone" <=> thread[u] = "gone"
         /\ thread'[u] = "suspended" <=> thread[u] = "suspended"
         /\ thread'[u] = "acquire" => thread[u] = "acquire" \/ m_status = "idle"
  BY DEF goto, TypeOK, Calling
<1>2. TypeOK'
  <2>1. thread' \in [Threads -> Calling \cup {"suspended", "gone"}]
    BY DEF goto, TypeOK, Calling
  <2>2. ready' \in BOOLEAN /\ m_semaphore' \in Nat /\ holders' \subseteq Threads \cup {Producer, Constructor}
    BY Zenon DEF TypeOK
  <2> QED BY <2>1, <2>2 DEF TypeOK, Calling
<1>3. OneRunner' /\ ToldWhenBothAreDone'
  BY DEF OneRunner, finishing, ToldWhenBothAreDone
<1>4. HoldersArePlaces'
  BY <1>1, SMTT(30) DEF HoldersArePlaces
<1>5. AwaitersInOrder'
  BY <1>1, AwaitersFrame DEF AwaitersInOrder
<1>6. finish \notin {"idle", "store"} => m_status # "idle"
  BY SMTT(30) DEF PermitsSuffice
<1>7. PermitsSuffice'
  BY <1>1, <1>6, PermitsFrame, SMTT(30)
<1> QED BY <1>2, <1>3, <1>4, <1>5, <1>7, SMTT(30)

\* A consumer that suspends becomes the last in the order.
LEMMA PushInOrder ==
  ASSUME TypeOK, AwaitersInOrder, NEW t \in Threads, thread[t] = "cas", ~ready,
         m_awaiters' = <<t>> \o m_awaiters, pushed' = Append(pushed, t),
         goto(t, "suspended"), UNCHANGED <<list, resumed, ready, finish>>
  PROVE  AwaitersInOrder'
<1> DEFINE n == Len(pushed)
<1>1. /\ pushed \in Seq(Threads) /\ m_awaiters \in Seq(Threads)
      /\ n \in Nat /\ Len(m_awaiters) \in Nat /\ DOMAIN thread = Threads
      /\ \A k \in 1..n : pushed[k] \in Threads
  BY DEF TypeOK
<1>2. list = <<>> /\ resumed = <<>> /\ n = Len(m_awaiters)
  BY <1>1 DEF AwaitersInOrder
<1>3. /\ Len(pushed') = n + 1 /\ pushed'[n + 1] = t
      /\ \A k \in 1..n : pushed'[k] = pushed[k]
  BY <1>1, AppendFacts
<1>4. /\ Len(m_awaiters') = Len(m_awaiters) + 1 /\ m_awaiters'[1] = t
      /\ \A k \in 2..Len(m_awaiters) + 1 : m_awaiters'[k] = m_awaiters[k - 1]
  BY <1>1, PushFacts
<1>5. thread' = [thread EXCEPT ![t] = "suspended"]
  BY DEF goto
<1>6. \A k \in 1..n : pushed[k] # t /\ thread[pushed[k]] = "suspended"
  BY <1>1, <1>2 DEF AwaitersInOrder
<1>7. \A k \in 1..n + 1 : m_awaiters'[k] = pushed'[(n + 1) + 1 - k]
  <2> SUFFICES ASSUME NEW k \in 1..n + 1
               PROVE  m_awaiters'[k] = pushed'[(n + 1) + 1 - k]
    BY ZenonT(30)
  <2>1. CASE k = 1
    <3>1. (n + 1) + 1 - k = n + 1
      BY <2>1, <1>1
    <3> QED BY <2>1, <3>1, <1>3, <1>4
  <2>2. CASE k # 1
    <3>1. /\ k \in 2..Len(m_awaiters) + 1 /\ k - 1 \in 1..Len(m_awaiters)
          /\ n + 1 - (k - 1) \in 1..n /\ (n + 1) + 1 - k = n + 1 - (k - 1)
      BY <2>2, <1>1, <1>2
    <3>2. m_awaiters'[k] = m_awaiters[k - 1]
      BY <3>1, <1>4
    <3>3. m_awaiters[k - 1] = pushed[n + 1 - (k - 1)]
      BY <3>1 DEF AwaitersInOrder
    <3> QED BY <3>1, <3>2, <3>3, <1>3, SMTT(30)
  <2> QED BY <2>1, <2>2, Zenon
<1>8. \A j, k \in 1..n + 1 : pushed'[j] = pushed'[k] => j = k
  <2> SUFFICES ASSUME NEW j \in 1..n + 1, NEW k \in 1..n + 1, pushed'[j] = pushed'[k]
               PROVE  j = k
    OBVIOUS
  <2>1. CASE j \in 1..n /\ k \in 1..n
    BY <2>1, <1>3 DEF AwaitersInOrder
  <2>2. CASE j = n + 1 /\ k \in 1..n
    BY <2>2, <1>3, <1>6
  <2>3. CASE j \in 1..n /\ k = n + 1
    BY <2>3, <1>3, <1>6
  <2> QED BY <2>1, <2>2, <2>3, <1>1, SMTT(30)
<1>9. \A k \in 1..n + 1 : thread'[pushed'[k]] = "suspended"
  <2> SUFFICES ASSUME NEW k \in 1..n + 1 PROVE thread'[pushed'[k]] = "suspended"
    OBVIOUS
  <2>1. CASE k = n + 1
    BY <2>1, <1>1, <1>3, <1>5, SMTT(30)
  <2>2. CASE k \in 1..n
    BY <2>2, <1>1, <1>3, <1>5, <1>6, SMTT(30)
  <2> QED BY <2>1, <2>2, <1>1
<1>10. ASSUME NEW u \in Threads, thread'[u] = "suspended"
       PROVE  \E k \in 1..n + 1 : pushed'[k] = u
  <2>1. CASE u = t
    BY <2>1, <1>1, <1>3
  <2>2. CASE u # t
    <3>1. thread[u] = "suspended"
      BY <2>2, <1>1, <1>5, <1>10, SMTT(30)
    <3>2. PICK k \in 1..n : pushed[k] = u
      BY <3>1, <1>1, <1>2 DEF AwaitersInOrder
    <3>3. k \in 1..n + 1 /\ pushed'[k] = u
      BY <3>2, <1>1, <1>3
    <3> QED BY <3>3
  <2> QED BY <2>1, <2>2
<1>11. /\ list' = <<>> /\ resumed' = <<>> /\ ready' = ready /\ finish' = finish
       /\ Len(pushed') = Len(resumed') + Len(list') + Len(m_awaiters')
  BY <1>1, <1>2, <1>3, <1>4
<1>12. /\ Len(pushed') = n + 1 /\ Len(m_awaiters') = n + 1 /\ Len(resumed') + 1 = 1
       /\ Len(resumed') = 0 /\ Len(list') = 0
  BY <1>1, <1>2, <1>3, <1>4, <1>11, SMTT(30)
<1>13. ready' <=> finish' \in {"resume", "done"}
  BY <1>11 DEF AwaitersInOrder
<1> QED BY <1>7, <1>8, <1>9, <1>10, <1>11, <1>12, <1>13, SMTT(30) DEF AwaitersInOrder

\* The steps of a consumer preserve Inv.
LEMMA ConsumerInv ==
  ASSUME Inv, NEW t \in Threads, step(t) \/ await_cas(t) \/ call(t)
  PROVE  Inv'
<1> USE DEF Inv
<1>1. ASSUME thread[t] \in Calling, thread[t] # "ready" \/ constructor = "done"
      PROVE  constructor = "done"
  BY <1>1 DEF HoldersArePlaces
<1>2. expected \in [Threads -> Seq(Threads)] /\ m_awaiters \in Seq(Threads)
  BY DEF TypeOK
<1>3. CASE wait(t)
  BY <1>2, <1>3, ConsumerFrame DEF wait, idle, Calling
<1>4. CASE wait_on_status(t)
  <2> DEFINE where == IF m_status = "idle" THEN "blocked" ELSE "ready"
  <2>1. where \in Calling /\ where # "acquire"
    BY DEF Calling
  <2>2. goto(t, where) /\ thread[t] = "wait" /\ UNCHANGED <<otherVars, m_awaiters, expected, pushed>>
    BY <1>4 DEF wait_on_status
  <2>3. constructor = "done"
    BY <2>2 DEF HoldersArePlaces
  <2> HIDE DEF where
  <2> QED BY <1>2, <2>1, <2>2, <2>3, ConsumerFrame DEF Calling
<1>5. CASE wait_until_load(t)
  <2>1. /\ thread[t] \in {"ready", "wait_until"} /\ constructor = "done"
        /\ UNCHANGED <<otherVars, m_awaiters, expected, pushed>>
        /\ (goto(t, "acquire") /\ m_status = "idle") \/ goto(t, "ready")
    BY <1>5 DEF wait_until_load, idle, HoldersArePlaces
  <2> QED BY <1>2, <2>1, ConsumerFrame DEF Calling
<1>6. CASE try_acquire_timeout(t)
  <2>1. thread[t] = "acquire" /\ constructor = "done"
    BY <1>6 DEF try_acquire_timeout, HoldersArePlaces
  <2> QED BY <1>2, <1>6, <2>1, ConsumerFrame DEF try_acquire_timeout, Calling
<1>7. CASE await_load(t)
  <2>1. /\ thread[t] \in {"ready", "load"} /\ constructor = "done"
        /\ UNCHANGED <<otherVars, m_awaiters, pushed>>
        /\ expected' \in [Threads -> Seq(Threads)]
        /\ goto(t, "ready") \/ goto(t, "cas")
    BY <1>2, <1>7, SMTT(30) DEF await_load, idle, HoldersArePlaces
  <2> QED BY <2>1, ConsumerFrame DEF Calling
<1>8. CASE await_cas(t)
  <2>1. /\ thread[t] = "cas" /\ constructor = "done"
        /\ UNCHANGED <<otherVars, expected>>
    BY <1>8 DEF await_cas, HoldersArePlaces
  <2>2. CASE goto(t, "load") /\ UNCHANGED <<m_awaiters, pushed>>
    BY <1>2, <2>1, <2>2, ConsumerFrame DEF Calling
  <2>3. CASE /\ ~ready /\ m_awaiters' = <<t>> \o m_awaiters
             /\ pushed' = Append(pushed, t) /\ goto(t, "suspended")
    <3> USE DEF otherVars, finishVars
    <3>1. AwaitersInOrder'
      BY <2>1, <2>3, PushInOrder
    <3>2. \A u \in Threads :
             /\ thread'[u] = "gone" <=> thread[u] = "gone"
             /\ thread'[u] = "acquire" => thread[u] = "acquire"
      BY <2>1, <2>3 DEF goto, TypeOK
    <3>3. m_awaiters' \in Seq(Threads) /\ pushed' \in Seq(Threads)
      BY <2>3, PushFacts, AppendFacts, SMTT(30) DEF TypeOK
    <3>4. TypeOK'
      BY <2>1, <2>3, <3>3, SMTT(30) DEF goto, TypeOK
    <3>5. OneRunner' /\ ToldWhenBothAreDone'
      BY <2>1, SMTT(30) DEF OneRunner, finishing, ToldWhenBothAreDone
    <3>6. HoldersArePlaces'
      BY <2>1, <3>2, SMTT(30) DEF HoldersArePlaces
    <3>7. PermitsSuffice'
      BY <2>1, <3>2, PermitsFrame
    <3> QED BY <3>1, <3>4, <3>5, <3>6, <3>7
  <2> QED BY <1>8, <2>2, <2>3, SMTT(30) DEF await_cas
<1>9. CASE try_acquire_until(t)
  <2> USE DEF try_acquire_until
  <2>1. constructor = "done" /\ thread[t] = "acquire"
    BY <1>9 DEF HoldersArePlaces
  <2>2. \A u \in Threads :
           /\ thread'[u] = "gone" <=> thread[u] = "gone"
           /\ thread'[u] = "suspended" <=> thread[u] = "suspended"
    BY <1>9 DEF goto, TypeOK
  <2>3. TypeOK'
    BY <1>9 DEF goto, TypeOK
  <2>4. OneRunner' /\ ToldWhenBothAreDone'
    BY <1>9, SMTT(30) DEF OneRunner, finishing, ToldWhenBothAreDone
  <2>5. HoldersArePlaces'
    BY <1>9, <2>1, <2>2, SMTT(30) DEF HoldersArePlaces
  <2>6. AwaitersInOrder'
    BY <1>9, <2>2, AwaitersFrame, ZenonT(30) DEF AwaitersInOrder
  <2>7. PermitsSuffice'
    <3>1. waiting' = waiting \ {t} /\ t \in waiting
      BY <1>9 DEF goto, TypeOK, waiting
    <3>2. IsFiniteSet(waiting)
      BY ThreadsAssumption, FS_Subset DEF waiting
    <3>3. Cardinality(waiting') = Cardinality(waiting) - 1 /\ Cardinality(waiting) \in Nat
      BY <3>1, <3>2, FS_RemoveElement, FS_CardinalityType, SMTT(30)
    <3>4. /\ m_semaphore' = m_semaphore - 1 /\ m_semaphore \in Nat
          /\ finish' = finish /\ m_status' = m_status
      BY <1>9 DEF TypeOK
    <3>5. finish \in {"exchange", "resume", "done"} => Cardinality(waiting') <= m_semaphore'
      BY <3>3, <3>4 DEF PermitsSuffice, waiting
    <3> QED BY <3>4, <3>5 DEF PermitsSuffice, waiting
  <2> QED BY <2>3, <2>4, <2>5, <2>6, <2>7
<1>10. CASE drop(t)
  <2> USE DEF drop, release_reference, finishVars
  <2>1. constructor = "done" /\ thread[t] = "ready" /\ t \in holders
    BY <1>10 DEF idle, HoldersArePlaces
  <2>2. \A u \in Threads :
           /\ thread'[u] = "gone" <=> thread[u] = "gone" \/ u = t
           /\ thread'[u] = "suspended" <=> thread[u] = "suspended"
           /\ thread'[u] = "acquire" => thread[u] = "acquire"
    BY <1>10, <2>1 DEF goto, TypeOK
  <2>3. TypeOK'
    BY <1>10 DEF goto, TypeOK
  <2>4. OneRunner'
    BY <1>10, <2>1, SMTT(30) DEF OneRunner, finishing
  <2>5. HoldersArePlaces'
    <3>1. holders' = holders \ {t} /\ UNCHANGED <<producer, constructor>>
      BY <1>10
    <3>2. Constructor # t /\ Producer # t
      BY ThreadsAssumption
    <3>3. /\ (Constructor \in holders <=> constructor # "done")'
          /\ (Producer \in holders <=> producer = "finishing")'
      BY <3>1, <3>2 DEF HoldersArePlaces
    <3>4. ASSUME NEW u \in Threads
          PROVE  (u \in holders <=> constructor = "done" /\ thread[u] # "gone")'
      BY <2>1, <2>2, <3>1 DEF HoldersArePlaces
    <3> QED BY <2>1, <3>1, <3>3, <3>4 DEF HoldersArePlaces
  <2>6. AwaitersInOrder'
    BY <1>10, <2>2, AwaitersFrame, ZenonT(30) DEF AwaitersInOrder
  <2>7. PermitsSuffice'
    BY <1>10, <2>2, PermitsFrame
  <2>8. ToldWhenBothAreDone'
    BY <1>10 DEF ToldWhenBothAreDone
  <2> QED BY <2>3, <2>4, <2>5, <2>6, <2>7, <2>8, SMTT(30)
<1> QED BY <1>3, <1>4, <1>5, <1>6, <1>7, <1>8, <1>9, <1>10, SMTT(30) DEF step, call

\* Inv is an invariant of the shared state, whoever takes a step.
THEOREM Invariance == Spec => []Inv
<1>1. Inv /\ [Next]_vars => Inv'
  <2> SUFFICES ASSUME Inv, [Next]_vars PROVE Inv'
    OBVIOUS
  <2>1. CASE share
    BY <2>1, ShareInv
  <2>2. CASE produce
    BY <2>2, ProduceInv, SMTT(30)
  <2>3. CASE on_result_finished
    BY <2>3, FinishInv
  <2>4. CASE \E t \in Threads : step(t) \/ await_cas(t) \/ call(t)
    BY <2>4, ConsumerInv
  <2>5. CASE UNCHANGED vars
    <3>1. TypeOK'
      <4>1. ready' \in BOOLEAN
        BY <2>5, Zenon DEF vars, Inv, TypeOK
      <4> QED BY <2>5, <4>1 DEF vars, Inv, TypeOK
    <3>2. OneRunner' /\ ToldWhenBothAreDone'
      BY <2>5, Zenon DEF vars, Inv, OneRunner, finishing, ToldWhenBothAreDone
    <3>3. HoldersArePlaces' /\ PermitsSuffice'
      BY <2>5, Zenon DEF vars, Inv, HoldersArePlaces, PermitsSuffice
    <3>4. AwaitersInOrder'
      BY <2>5, Zenon DEF vars, Inv, AwaitersInOrder
    <3> QED BY <3>1, <3>2, <3>3, <3>4, SMTT(30) DEF Inv
  <2> QED BY <2>1, <2>2, <2>3, <2>4, <2>5, SMTT(30) DEF Next, terminated
<1> QED BY <1>1, InitInv, PTL DEF Spec

\* Whoever runs on_result_finished holds a reference, so that dropping the last
\* copy of the shared_result cannot destroy the state under it.
THEOREM OutlivesFinish == Spec => []AliveWhileFinishing
<1>1. Inv => AliveWhileFinishing
  BY DEF Inv, AliveWhileFinishing, OneRunner, finishing, HoldersArePlaces, TypeOK
<1> QED BY <1>1, Invariance, PTL

\* The race of complete_producer and share always leaves one of the two to call
\* on_result_finished.
THEOREM AlwaysTold == Spec => []ToldWhenBothAreDone
<1>1. Inv => ToldWhenBothAreDone
  BY DEF Inv
<1> QED BY <1>1, Invariance, PTL

\* on_result_finished resumes the awaiters in the order in which they suspended.
THEOREM ResumesInOrder == Spec => []ResumedInOrder
<1>1. Inv => ResumedInOrder
  <2> SUFFICES ASSUME Inv PROVE ResumedInOrder
    OBVIOUS
  <2>1. /\ resumed \in Seq(Threads) /\ pushed \in Seq(Threads)
        /\ Len(resumed) \in Nat /\ Len(pushed) \in Nat
        /\ Len(list) \in Nat /\ Len(m_awaiters) \in Nat
    BY DEF Inv, TypeOK
  <2>2. Len(resumed) <= Len(pushed) /\ \A k \in 1..Len(resumed) : resumed[k] = pushed[k]
    BY <2>1 DEF Inv, AwaitersInOrder
  <2>3. resumed = SubSeq(pushed, 1, Len(resumed))
    BY <2>1, <2>2, SMTT(30)
  <2> QED BY <2>2, <2>3 DEF ResumedInOrder
<1> QED BY <1>1, Invariance, PTL

\* No awaiter is dropped or kept twice by the stack and the list, and there is a
\* permit for every thread that waits for one after the release.
THEOREM NobodyLost == Spec => []NoConsumerLost
<1>1. Inv => NoConsumerLost
  <2> SUFFICES ASSUME TypeOK, AwaitersInOrder, PermitsSuffice PROVE NoConsumerLost
    BY DEF Inv
  <2> DEFINE both == m_awaiters \o list
             from == Len(resumed)
  <2>1. /\ m_awaiters \in Seq(Threads) /\ list \in Seq(Threads) /\ both \in Seq(Threads)
        /\ Len(m_awaiters) \in Nat /\ Len(list) \in Nat /\ from \in Nat
        /\ Len(both) = Len(m_awaiters) + Len(list) /\ Len(pushed) = from + Len(both)
    <3>1. /\ m_awaiters \in Seq(Threads) /\ list \in Seq(Threads) /\ resumed \in Seq(Threads)
          /\ Len(m_awaiters) \in Nat /\ Len(list) \in Nat /\ from \in Nat
      BY DEF TypeOK
    <3>2. both \in Seq(Threads) /\ Len(both) = Len(m_awaiters) + Len(list)
      BY <3>1
    <3>3. Len(pushed) = from + Len(list) + Len(m_awaiters)
      BY DEF AwaitersInOrder
    <3> HIDE DEF both, from
    <3> QED BY <3>1, <3>2, <3>3, SMTT(30)
  <2>2. /\ ready => m_awaiters = <<>>
        /\ ~ready => list = <<>>
    BY DEF AwaitersInOrder
  \* The element at k of both lists is the one that came at place(k).
  <2> DEFINE place(k) == IF ready THEN from + k ELSE Len(pushed) + 1 - k
  <2>3. \A k \in 1..Len(both) : both[k] = pushed[place(k)]
    <3>1. CASE ready
      <4>1. both = list /\ Len(both) = Len(list)
        BY <3>1, <2>1, <2>2, SMTT(30)
      <4> QED BY <3>1, <4>1 DEF AwaitersInOrder
    <3>2. CASE ~ready
      <4>1. both = m_awaiters /\ Len(both) = Len(m_awaiters)
        BY <3>2, <2>1, <2>2, SMTT(30)
      <4> QED BY <3>2, <4>1 DEF AwaitersInOrder
    <3> QED BY <3>1, <3>2, SMTT(30)
  <2>4. from + 1 = 1 \/ ready
    BY DEF AwaitersInOrder
  <2>5. \A k \in 1..Len(both) : place(k) \in from + 1..Len(pushed)
    BY <2>1, <2>4
  <2>6. \A j \in from + 1..Len(pushed) : \E k \in 1..Len(both) : place(k) = j
    <3> SUFFICES ASSUME NEW j \in from + 1..Len(pushed)
                 PROVE  \E k \in 1..Len(both) : place(k) = j
      OBVIOUS
    <3>1. CASE ready
      <4>1. j - from \in 1..Len(both) /\ from + (j - from) = j
        BY <2>1
      <4> QED BY <3>1, <4>1, Zenon
    <3>2. CASE ~ready
      <4>1. /\ Len(pushed) + 1 - j \in 1..Len(both)
            /\ Len(pushed) + 1 - (Len(pushed) + 1 - j) = j
        BY <2>1, <2>4, <3>2
      <4> QED BY <3>2, <4>1, Zenon
    <3> QED BY <3>1, <3>2
  <2>7. \A j, k \in 1..Len(both) : both[j] = both[k] => j = k
    <3> SUFFICES ASSUME NEW j \in 1..Len(both), NEW k \in 1..Len(both), both[j] = both[k]
                 PROVE  j = k
      OBVIOUS
    <3>1. /\ place(j) \in 1..Len(pushed) /\ place(k) \in 1..Len(pushed)
          /\ pushed[place(j)] = pushed[place(k)]
      BY <2>1, <2>3, <2>5, SMTT(30)
    <3>2. place(j) = place(k)
      BY <3>1, Zenon DEF AwaitersInOrder
    <3> QED BY <3>2, <2>1
  <2> HIDE DEF place
  <2>8. \A k \in 1..Len(both) : both[k] \in Threads /\ thread[both[k]] = "suspended"
    <3> SUFFICES ASSUME NEW k \in 1..Len(both)
                 PROVE  both[k] \in Threads /\ thread[both[k]] = "suspended"
      OBVIOUS
    <3>1. both[k] \in Threads
      BY <2>1
    <3> QED BY <3>1, <2>3, <2>5 DEF AwaitersInOrder
  <2>9. ASSUME NEW t \in Threads, thread[t] = "suspended"
        PROVE  \E k \in 1..Len(both) : both[k] = t
    <3>1. PICK j \in from + 1..Len(pushed) : pushed[j] = t
      BY <2>9 DEF AwaitersInOrder
    <3>2. PICK k \in 1..Len(both) : place(k) = j
      BY <2>6
    <3> QED BY <3>1, <3>2, <2>3, SMTT(30)
  <2>10. {t \in Threads : thread[t] = "suspended"} = elements(both)
    BY <2>8, <2>9 DEF elements
  <2>11. Cardinality(elements(both)) = Len(both)
    <3> HIDE DEF both
    <3>1. both \in [1..Len(both) -> elements(both)]
      BY <2>1 DEF elements
    <3>2. both \in Injection(1..Len(both), elements(both))
      BY <3>1, <2>7, Fun_IsInj
    <3>3. \A e \in elements(both) : \E k \in 1..Len(both) : both[k] = e
      BY DEF elements
    <3>4. both \in Surjection(1..Len(both), elements(both))
      BY <3>1, <3>3, Fun_IsSurj, SMTT(30)
    <3>5. ExistsBijection(1..Len(both), elements(both))
      BY <3>2, <3>4 DEF ExistsBijection, Bijection
    <3> QED BY <3>5, <2>1, FS_CountingElements
  <2> QED BY <2>1, <2>2, <2>10, <2>11, SMTT(30) DEF NoConsumerLost, PermitsSuffice
<1> QED BY <1>1, Invariance, PTL
=============================================================================

--------------------- MODULE WorkerThreadExecutorProofs ---------------------
(***************************************************************************)
(* worker_thread_executor for any number of clients and tasks.             *)
(*                                                                         *)
(* Everything follows from Inv, which is inductive.  NoLostWakeup needs    *)
(* ShutdownIsOrdered, which ties the three abort flags to the place of the *)
(* one thread that is past the exchange; StartedInOrder needs QueuedInOrder*)
(* across the swap of the queues; the contract needs StatusIsPlace, by     *)
(* which a queued task is in a queue and the running one is the worker's.  *)
(***************************************************************************)
EXTENDS WorkerThreadExecutor, SequenceTheorems, TLAPS

\* What the front of a queue and the rest of it are.
LEMMA TailFacts ==
  ASSUME NEW s \in Seq(Tasks), s # <<>>
  PROVE  /\ Len(s) \in Nat \ {0} /\ Head(s) = s[1] /\ Head(s) \in Tasks
         /\ Tail(s) \in Seq(Tasks) /\ Len(Tail(s)) = Len(s) - 1
         /\ \A i \in 1..Len(s) - 1 : Tail(s)[i] = s[i + 1]
  OBVIOUS

\* What a queue is after n new tasks were put at its end.
LEMMA EnqueueFacts ==
  ASSUME NEW s \in Seq(Tasks), NEW n \in Nat \ {0}, handed(n), created \in 0..MaxTasks
  PROVE  /\ s \o sequence(n) \in Seq(Tasks)
         /\ Len(s) \in Nat /\ Len(s \o sequence(n)) = Len(s) + n
         /\ \A i \in 1..Len(s) : (s \o sequence(n))[i] = s[i]
         /\ \A i \in Len(s) + 1..Len(s) + n :
               (s \o sequence(n))[i] = created + (i - Len(s))
         /\ \A t \in fresh(n) : \E i \in Len(s) + 1..Len(s) + n :
               t = created + (i - Len(s))
         /\ fresh(n) \subseteq Tasks
         /\ s \o sequence(n) # <<>>
<1>1. MaxTasks \in Nat
  BY WorkerThreadAssumption
<1>2. sequence(n) \in Seq(Tasks) /\ Len(sequence(n)) = n
  BY <1>1 DEF sequence, handed, Tasks
<1>3. \A i \in 1..n : sequence(n)[i] = created + i
  BY DEF sequence
<1>4. fresh(n) \subseteq Tasks
  BY <1>1 DEF fresh, handed, Tasks
<1>5. \A i \in Len(s) + 1..Len(s) + n : (s \o sequence(n))[i] = created + (i - Len(s))
  BY <1>2, <1>3
<1>6. \A t \in fresh(n) : \E i \in Len(s) + 1..Len(s) + n : t = created + (i - Len(s))
  <2> SUFFICES ASSUME NEW t \in fresh(n)
               PROVE  \E i \in Len(s) + 1..Len(s) + n : t = created + (i - Len(s))
    OBVIOUS
  <2>1. (t - created) + Len(s) \in Len(s) + 1..Len(s) + n
    BY <1>1 DEF fresh
  <2>2. t = created + (((t - created) + Len(s)) - Len(s))
    BY <1>1 DEF fresh
  <2> QED BY <2>1, <2>2
<1>7. /\ s \o sequence(n) \in Seq(Tasks)
      /\ Len(s) \in Nat /\ Len(s \o sequence(n)) = Len(s) + n
      /\ \A i \in 1..Len(s) : (s \o sequence(n))[i] = s[i]
  BY <1>2
<1>8. s \o sequence(n) # <<>>
  BY <1>7
<1> QED BY <1>4, <1>5, <1>6, <1>7, <1>8

\* Inv holds when the executor is constructed.
LEMMA InitInv == Init => Inv
<1> SUFFICES ASSUME Init PROVE Inv
  OBVIOUS
<1>1. TypeOK
  <2>1. m_private_atomic_abort \in BOOLEAN /\ m_atomic_abort \in BOOLEAN /\ m_abort \in BOOLEAN
    BY Zenon DEF Init
  <2>2. current \in 0..MaxTasks /\ created \in 0..MaxTasks /\ m_semaphore \in Nat
    BY WorkerThreadAssumption DEF Init
  <2>3. m_private_queue \in Seq(Tasks) /\ m_public_queue \in Seq(Tasks)
    BY DEF Init
  <2> QED BY <2>1, <2>2, <2>3 DEF Init, TypeOK
<1>2. NoLostWakeup /\ QueuedInOrder
  BY DEF Init, NoLostWakeup, QueuedInOrder
<1>3. StatusIsPlace
  BY <1>1 DEF Init, StatusIsPlace
<1>4. ShutdownIsOrdered
  BY DEF Init, ShutdownIsOrdered
<1> QED BY <1>1, <1>2, <1>3, <1>4 DEF Inv

\* The steps of the work loop preserve Inv.
LEMMA WorkLoopInv == Inv /\ work_loop => Inv'
<1> SUFFICES ASSUME Inv, work_loop PROVE Inv'
  OBVIOUS
<1> USE DEF Inv, abortVars, goto
<1>0. MaxTasks \in Nat /\ Worker \notin Clients
  BY WorkerThreadAssumption
<1>1. CASE drain_queue
  <2>1. CASE m_abort \/ m_public_queue = <<>>
    <3>1. /\ worker = "lock" /\ worker' \in {"exited", "acquire"}
          /\ worker' = "acquire" => ~m_abort /\ m_public_queue = <<>>
          /\ UNCHANGED <<m_private_queue, m_public_queue, abortVars, m_semaphore, pc,
                         current, created, foreign, status>>
      BY <1>1, <2>1 DEF drain_queue
    <3>2. TypeOK' /\ NoLostWakeup' /\ QueuedInOrder'
      BY <3>1 DEF TypeOK, NoLostWakeup, QueuedInOrder
    <3>3. StatusIsPlace' /\ ShutdownIsOrdered'
      BY <3>1 DEF StatusIsPlace, ShutdownIsOrdered
    <3> QED BY <3>2, <3>3
  <2>2. CASE ~m_abort /\ m_public_queue # <<>>
    <3>1. /\ worker = "lock" /\ worker' = "drain" /\ m_private_queue = <<>>
          /\ m_private_queue' = m_public_queue /\ m_public_queue' = <<>>
          /\ UNCHANGED <<abortVars, m_semaphore, pc, current, created, foreign, status>>
      BY <1>1, <2>2 DEF drain_queue, StatusIsPlace
    <3>2. TypeOK' /\ NoLostWakeup' /\ QueuedInOrder' /\ ShutdownIsOrdered'
      BY <3>1, <2>2 DEF TypeOK, NoLostWakeup, QueuedInOrder, ShutdownIsOrdered
    <3>3. StatusIsPlace'
      BY <3>1 DEF TypeOK, StatusIsPlace
    <3> QED BY <3>2, <3>3
  <2> QED BY <2>1, <2>2
<1>2. CASE acquire
  BY <1>2, <1>0
  DEF acquire, TypeOK, NoLostWakeup, QueuedInOrder, StatusIsPlace, ShutdownIsOrdered
<1>3. CASE drain_queue_impl
  <2>1. CASE m_private_queue = <<>>
    BY <1>3, <2>1, <1>0
    DEF drain_queue_impl, TypeOK, NoLostWakeup, QueuedInOrder, StatusIsPlace, ShutdownIsOrdered
  <2>2. CASE m_private_queue # <<>>
    <3> DEFINE h == Head(m_private_queue)
    <3>1. /\ Len(m_private_queue) \in Nat \ {0} /\ h = m_private_queue[1] /\ h \in Tasks
          /\ Tail(m_private_queue) \in Seq(Tasks)
          /\ Len(Tail(m_private_queue)) = Len(m_private_queue) - 1
          /\ \A i \in 1..Len(m_private_queue) - 1 :
                Tail(m_private_queue)[i] = m_private_queue[i + 1]
      BY <2>2, TailFacts DEF TypeOK
    <3>2. PICK w \in {"exited", "task"}, what \in {"destroyed", "running"} :
             /\ worker = "drain" /\ worker' = w
             /\ w = "task" <=> what = "running"
             /\ w = "task" => current' = h
             /\ w = "exited" => current' = current
             /\ m_private_queue' = Tail(m_private_queue)
             /\ status' = [t \in Tasks |-> IF t \in {h} THEN what ELSE status[t]]
             /\ UNCHANGED <<m_public_queue, abortVars, m_semaphore, pc, created, foreign>>
      BY <1>3, <2>2 DEF drain_queue_impl, become
    <3> HIDE DEF h
    <3>3. TypeOK'
      BY <3>1, <3>2, <1>0 DEF TypeOK, Tasks
    <3>4. NoLostWakeup'
      BY <3>2 DEF NoLostWakeup
    <3>5. QueuedInOrder'
      BY <3>1, <3>2, SMTT(30) DEF TypeOK, QueuedInOrder
    <3>6. StatusIsPlace'
      <4>1. /\ \A i \in 1..Len(m_private_queue) - 1 : Tail(m_private_queue)[i] # h
            /\ \A i \in 1..Len(m_public_queue) : m_public_queue[i] # h
        BY <3>1, <1>0 DEF QueuedInOrder, TypeOK, Tasks
      <4>2. ASSUME NEW t \in Tasks, status'[t] = "queued"
            PROVE  \/ \E i \in 1..Len(m_private_queue') : m_private_queue'[i] = t
                   \/ \E i \in 1..Len(m_public_queue') : m_public_queue'[i] = t
        <5>1. t # h /\ status[t] = "queued"
          BY <4>2, <3>2
        <5>2. CASE \E i \in 1..Len(m_public_queue) : m_public_queue[i] = t
          BY <5>2, <3>2
        <5>3. CASE \E i \in 1..Len(m_private_queue) : m_private_queue[i] = t
          <6>1. PICK i \in 1..Len(m_private_queue) : m_private_queue[i] = t
            BY <5>3
          <6>2. i - 1 \in 1..Len(m_private_queue) - 1 /\ (i - 1) + 1 = i
            BY <6>1, <5>1, <3>1
          <6> QED BY <6>1, <6>2, <3>1, <3>2, Zenon
        <5> QED BY <5>1, <5>2, <5>3 DEF StatusIsPlace
      <4>3. \A t \in Tasks : /\ status'[t] = "running" <=> worker' = "task" /\ t = current'
                             /\ t > created' => status'[t] = "new" /\ t \notin foreign'
        BY <3>1, <3>2 DEF StatusIsPlace, TypeOK
      <4>4. /\ \A i \in 1..Len(m_private_queue') : status'[m_private_queue'[i]] = "queued"
            /\ \A i \in 1..Len(m_public_queue') : status'[m_public_queue'[i]] = "queued"
        BY <3>1, <3>2, <4>1 DEF StatusIsPlace, TypeOK
      <4> QED BY <4>2, <4>3, <4>4, <3>1, <3>2 DEF StatusIsPlace
    <3>7. ShutdownIsOrdered'
      BY <3>1, <3>2 DEF ShutdownIsOrdered
    <3> QED BY <3>3, <3>4, <3>5, <3>6, <3>7
  <2> QED BY <2>1, <2>2
<1>4. CASE task_returns
  <2>1. /\ worker = "task" /\ worker' = "drain" /\ current' = 0 /\ current \in Tasks
        /\ pc[Worker] \in {"idle", "threw"}
        /\ status' = [t \in Tasks |-> IF t \in {current} THEN "done" ELSE status[t]]
        /\ UNCHANGED <<m_private_queue, m_public_queue, abortVars, m_semaphore, pc, created, foreign>>
    BY <1>4 DEF task_returns, become, resting, StatusIsPlace, ShutdownIsOrdered
  <2>2. TypeOK' /\ NoLostWakeup' /\ QueuedInOrder'
    BY <2>1, <1>0 DEF TypeOK, NoLostWakeup, QueuedInOrder
  <2>3. StatusIsPlace'
    BY <2>1 DEF TypeOK, StatusIsPlace
  <2>4. ShutdownIsOrdered'
    BY <2>1 DEF ShutdownIsOrdered
  <2> QED BY <2>2, <2>3, <2>4
<1> QED BY <1>1, <1>2, <1>3, <1>4 DEF work_loop

\* A task that the worker runs enqueues: Inv is preserved.
LEMMA EnqueueLocalInv ==
  ASSUME Inv, NEW n \in Bulk, enqueue_local(n)
  PROVE  Inv'
<1> USE DEF Inv, abortVars
<1>0. MaxTasks \in Nat /\ Worker \notin Clients /\ n \in Nat \ {0}
  BY WorkerThreadAssumption DEF Bulk
<1>1. /\ m_private_queue \in Seq(Tasks) /\ created \in 0..MaxTasks /\ handed(n)
      /\ worker = "task"
      /\ UNCHANGED <<m_public_queue, abortVars, m_semaphore, worker, pc, current, foreign>>
  BY DEF TypeOK, enqueue_local
<1>2. created' = created + n /\ created' \in 0..MaxTasks
  BY <1>0, <1>1 DEF handed
<1>3. \A t \in Tasks : t \in fresh(n) <=> t > created /\ t <= created + n
  BY <1>0, <1>1 DEF fresh, Tasks
<1>4. CASE m_private_atomic_abort
  <2>1. /\ status' = [t \in Tasks |-> IF t \in fresh(n) THEN "refused" ELSE status[t]]
        /\ m_private_queue' = m_private_queue
    BY <1>4 DEF enqueue_local, become
  <2>2. TypeOK'
    BY <1>1, <1>2, <2>1 DEF TypeOK
  <2>3. NoLostWakeup' /\ ShutdownIsOrdered'
    BY <1>1, <2>1 DEF NoLostWakeup, ShutdownIsOrdered
  <2>4. QueuedInOrder'
    BY <1>1, <2>1 DEF QueuedInOrder
  <2>5. StatusIsPlace'
    <3>1. \A t \in fresh(n) : status[t] = "new" /\ t \in Tasks
      BY <1>0, <1>1, <1>3, EnqueueFacts, ZenonT(30) DEF StatusIsPlace
    <3>2. \A t \in Tasks : /\ status'[t] = "queued" <=> status[t] = "queued"
                           /\ status'[t] = "running" <=> status[t] = "running"
      BY <2>1, <3>1
    <3>3. \A t \in Tasks : t > created' => status'[t] = "new" /\ t \notin foreign'
      BY <1>0, <1>1, <1>2, <1>3, <2>1 DEF StatusIsPlace, Tasks
    <3>4. /\ \A i \in 1..Len(m_private_queue) : status'[m_private_queue[i]] = "queued"
          /\ \A i \in 1..Len(m_public_queue) : status'[m_public_queue[i]] = "queued"
      BY <3>2 DEF StatusIsPlace, TypeOK
    <3> QED BY <3>2, <3>3, <3>4, <1>1, <2>1 DEF StatusIsPlace
  <2> QED BY <2>2, <2>3, <2>4, <2>5
<1>5. CASE ~m_private_atomic_abort
  <2> DEFINE q == m_private_queue \o sequence(n)
  <2>1. /\ status' = [t \in Tasks |-> IF t \in fresh(n) THEN "queued" ELSE status[t]]
        /\ m_private_queue' = q
    BY <1>5 DEF enqueue_local, become
  <2>2. /\ q \in Seq(Tasks) /\ Len(m_private_queue) \in Nat /\ Len(q) = Len(m_private_queue) + n
        /\ \A i \in 1..Len(m_private_queue) : q[i] = m_private_queue[i]
        /\ \A i \in Len(m_private_queue) + 1..Len(m_private_queue) + n :
              q[i] = created + (i - Len(m_private_queue))
        /\ \A t \in fresh(n) :
              \E i \in Len(m_private_queue) + 1..Len(m_private_queue) + n :
                 t = created + (i - Len(m_private_queue))
    BY <1>0, <1>1, EnqueueFacts
  <2> HIDE DEF q
  <2>3. \A i \in 1..Len(q) : \/ i \in 1..Len(m_private_queue)
                             \/ i \in Len(m_private_queue) + 1..Len(m_private_queue) + n
    BY <2>2, <1>0
  <2>4. \A i \in Len(m_private_queue) + 1..Len(m_private_queue) + n :
           i \in 1..Len(q) /\ q[i] \in Tasks /\ q[i] > created /\ q[i] \notin foreign /\ q[i] \in fresh(n)
    <3> SUFFICES ASSUME NEW i \in Len(m_private_queue) + 1..Len(m_private_queue) + n
                 PROVE  i \in 1..Len(q) /\ q[i] \in Tasks /\ q[i] > created
                        /\ q[i] \notin foreign /\ q[i] \in fresh(n)
      OBVIOUS
    <3>1. i \in 1..Len(q) /\ q[i] \in Tasks
      BY <2>2, <1>0
    <3>2. q[i] > created /\ q[i] <= created + n
      BY <2>2, <1>0, <1>1
    <3> QED BY <3>1, <3>2, <1>3 DEF StatusIsPlace
  <2>5. \A i \in 1..Len(m_private_queue) :
           m_private_queue[i] \in Tasks /\ m_private_queue[i] <= created
    BY <1>0, <1>1 DEF StatusIsPlace, Tasks
  <2>6. TypeOK'
    BY <1>1, <1>2, <2>1, <2>2 DEF TypeOK
  <2>7. NoLostWakeup' /\ ShutdownIsOrdered'
    BY <1>1 DEF NoLostWakeup, ShutdownIsOrdered
  <2>8. QueuedInOrder'
    <3>1. ASSUME NEW i \in 1..Len(q), NEW j \in 1..Len(q), i < j,
                 q[i] \in foreign <=> q[j] \in foreign
          PROVE  q[i] < q[j]
      <4>1. CASE j \in 1..Len(m_private_queue)
        <5>1. i \in 1..Len(m_private_queue)
          BY <4>1, <3>1, <2>2
        <5> QED BY <5>1, <4>1, <3>1, <2>2 DEF QueuedInOrder
      <4>2. CASE j \notin 1..Len(m_private_queue) /\ i \in 1..Len(m_private_queue)
        <5>1. q[j] > created /\ q[j] \in Tasks
          BY <4>2, <2>3, <2>4
        <5>2. q[i] <= created /\ q[i] \in Tasks
          BY <4>2, <2>2, <2>5
        <5> QED BY <5>1, <5>2, <1>0, <1>1 DEF Tasks
      <4>3. CASE j \notin 1..Len(m_private_queue) /\ i \notin 1..Len(m_private_queue)
        BY <4>3, <3>1, <2>2, <2>3, <1>0, <1>1
      <4> QED BY <4>1, <4>2, <4>3
    <3>2. \A i \in 1..Len(q), j \in 1..Len(m_public_queue) :
             q[i] \in foreign => q[i] < m_public_queue[j]
      BY <2>2, <2>3, <2>4 DEF QueuedInOrder
    <3> QED BY <3>1, <3>2, <2>1, <1>1 DEF QueuedInOrder
  <2>9. StatusIsPlace'
    <3>1. ASSUME NEW t \in Tasks, status'[t] = "queued"
          PROVE  \/ \E i \in 1..Len(q) : q[i] = t
                 \/ \E i \in 1..Len(m_public_queue) : m_public_queue[i] = t
      <4>1. CASE t \in fresh(n)
        BY <4>1, <2>2, <2>4
      <4>2. CASE t \notin fresh(n)
        <5>1. status[t] = "queued"
          BY <4>2, <3>1, <2>1
        <5>2. \A i \in 1..Len(m_private_queue) : i \in 1..Len(q)
          BY <2>2, <1>0
        <5> QED BY <5>1, <5>2, <2>2 DEF StatusIsPlace
      <4> QED BY <4>1, <4>2
    <3>2. \A t \in Tasks : /\ status'[t] = "running" <=> worker' = "task" /\ t = current'
                           /\ t > created' => status'[t] = "new" /\ t \notin foreign'
      BY <2>1, <1>0, <1>1, <1>2, <1>3 DEF StatusIsPlace, Tasks, TypeOK
    <3>3. \A i \in 1..Len(q) : status'[q[i]] = "queued"
      BY <2>1, <2>2, <2>3, <2>4, <2>5, <1>1 DEF StatusIsPlace
    <3>4. \A i \in 1..Len(m_public_queue) : status'[m_public_queue[i]] = "queued"
      BY <2>1, <1>1 DEF StatusIsPlace, TypeOK
    <3> QED BY <3>1, <3>2, <3>3, <3>4, <2>1, <1>1 DEF StatusIsPlace
  <2> QED BY <2>6, <2>7, <2>8, <2>9
<1> QED BY <1>4, <1>5

\* Another thread enqueues: Inv is preserved.
LEMMA EnqueueForeignInv ==
  ASSUME Inv, NEW n \in Bulk, NEW c \in Clients, enqueue_foreign(c, n)
  PROVE  Inv'
<1> USE DEF Inv, abortVars
<1>0. MaxTasks \in Nat /\ Worker \notin Clients /\ n \in Nat \ {0}
  BY WorkerThreadAssumption DEF Bulk
<1>1. /\ m_public_queue \in Seq(Tasks) /\ created \in 0..MaxTasks /\ handed(n)
      /\ pc[c] \in resting
      /\ foreign' = foreign \cup fresh(n)
      /\ UNCHANGED <<m_private_queue, abortVars, m_semaphore, current>>
  BY DEF TypeOK, enqueue_foreign
<1>2. created' = created + n /\ created' \in 0..MaxTasks
  BY <1>0, <1>1 DEF handed
<1>3. \A t \in Tasks : t \in fresh(n) <=> t > created /\ t <= created + n
  BY <1>0, <1>1 DEF fresh, Tasks
<1>4. \A t \in fresh(n) : status[t] = "new" /\ t \in Tasks
  BY <1>0, <1>1, <1>3, EnqueueFacts, ZenonT(30) DEF StatusIsPlace
<1>5. /\ \A i \in 1..Len(m_private_queue) :
            m_private_queue[i] \in Tasks /\ m_private_queue[i] \notin fresh(n)
      /\ \A i \in 1..Len(m_public_queue) :
            m_public_queue[i] \in Tasks /\ m_public_queue[i] \notin fresh(n)
  BY <1>4 DEF StatusIsPlace, TypeOK
<1>6. CASE m_abort
  <2>1. /\ status' = [t \in Tasks |-> IF t \in fresh(n) THEN "refused" ELSE status[t]]
        /\ UNCHANGED <<m_public_queue, worker, pc>>
    BY <1>6 DEF enqueue_foreign, become
  <2>2. TypeOK'
    BY <1>1, <1>2, <1>4, <2>1 DEF TypeOK
  <2>3. NoLostWakeup' /\ ShutdownIsOrdered'
    BY <1>1, <2>1 DEF NoLostWakeup, ShutdownIsOrdered
  <2>4. QueuedInOrder'
    BY <1>1, <1>5, <2>1 DEF QueuedInOrder
  <2>5. StatusIsPlace'
    <3>1. \A t \in Tasks : /\ status'[t] = "queued" <=> status[t] = "queued"
                           /\ status'[t] = "running" <=> status[t] = "running"
      BY <2>1, <1>4
    <3>2. \A t \in Tasks : t > created' => status'[t] = "new" /\ t \notin foreign'
      BY <1>0, <1>1, <1>2, <1>3, <2>1 DEF StatusIsPlace, Tasks
    <3>3. /\ \A i \in 1..Len(m_private_queue) : status'[m_private_queue[i]] = "queued"
          /\ \A i \in 1..Len(m_public_queue) : status'[m_public_queue[i]] = "queued"
      BY <3>1, <1>5 DEF StatusIsPlace
    <3> QED BY <3>1, <3>2, <3>3, <1>1, <2>1 DEF StatusIsPlace
  <2> QED BY <2>2, <2>3, <2>4, <2>5
<1>7. CASE ~m_abort
  <2> DEFINE s == m_public_queue
             q == s \o sequence(n)
  <2>1. /\ status' = [t \in Tasks |-> IF t \in fresh(n) THEN "queued" ELSE status[t]]
        /\ m_public_queue' = q
    BY <1>7 DEF enqueue_foreign, become
  <2>2. /\ q \in Seq(Tasks) /\ Len(s) \in Nat /\ Len(q) = Len(s) + n
        /\ \A i \in 1..Len(s) : q[i] = s[i]
        /\ \A i \in Len(s) + 1..Len(s) + n : q[i] = created + (i - Len(s))
        /\ \A t \in fresh(n) :
              \E i \in Len(s) + 1..Len(s) + n : t = created + (i - Len(s))
    BY <1>0, <1>1, EnqueueFacts, Zenon
  <2>3. PICK w \in {worker, "lock"}, p \in {pc[c], "release"} :
           /\ worker' = w /\ pc' = [pc EXCEPT ![c] = p]
           /\ w # worker => worker = "none"
           /\ s = <<>> /\ worker # "none" => p = "release"
    <3>1. CASE worker = "none" /\ worker' = "lock" /\ UNCHANGED pc
      <4>1. pc' = [pc EXCEPT ![c] = pc[c]]
        BY <3>1 DEF TypeOK
      <4> QED BY <3>1, <4>1, Zenon
    <3>2. CASE worker # "none" /\ UNCHANGED worker
               /\ goto(c, IF m_public_queue = <<>> THEN "release" ELSE pc[c])
      BY <3>2, Zenon DEF goto
    <3> QED BY <3>1, <3>2, <1>7 DEF enqueue_foreign
  <2> HIDE DEF q
  <2>4. \A i \in 1..Len(q) : i \in 1..Len(s) \/ i \in Len(s) + 1..Len(s) + n
    BY <2>2, <1>0
  <2>5. \A i \in Len(s) + 1..Len(s) + n :
           i \in 1..Len(q) /\ q[i] \in Tasks /\ q[i] > created /\ q[i] \in fresh(n)
    <3> SUFFICES ASSUME NEW i \in Len(s) + 1..Len(s) + n
                 PROVE  i \in 1..Len(q) /\ q[i] \in Tasks /\ q[i] > created /\ q[i] \in fresh(n)
      OBVIOUS
    <3>1. i \in 1..Len(q) /\ q[i] \in Tasks
      BY <2>2, <1>0
    <3>2. q[i] > created /\ q[i] <= created + n
      BY <2>2, <1>0, <1>1
    <3> QED BY <3>1, <3>2, <1>3
  <2>6. /\ \A i \in 1..Len(s) : s[i] \in Tasks /\ s[i] <= created
        /\ \A i \in 1..Len(m_private_queue) : m_private_queue[i] \in Tasks /\ m_private_queue[i] <= created
    <3>1. \A t \in Tasks : status[t] = "queued" => t <= created
      BY <1>0, <1>1 DEF StatusIsPlace, Tasks
    <3> QED BY <3>1, <1>5 DEF StatusIsPlace
  <2>7. TypeOK'
    <3>1. pc' \in [Clients \cup {Worker} ->
                     {"idle", "release", "abort", "private_abort", "sd_release",
                      "join", "clear", "returned", "threw"}]
      BY <2>3 DEF TypeOK
    <3>2. status' \in [Tasks -> {"new", "queued", "running", "done", "destroyed", "refused"}]
      BY <2>1 DEF TypeOK
    <3> QED BY <3>1, <3>2, <1>1, <1>2, <1>4, <2>1, <2>2, <2>3 DEF TypeOK
  <2>8. NoLostWakeup'
    <3> SUFFICES ASSUME worker' = "acquire", m_semaphore' = 0
                 PROVE  \E d \in Clients \cup {Worker} :
                           pc'[d] \in {"release", "private_abort", "sd_release"}
      BY DEF NoLostWakeup
    <3>1. worker = "acquire" /\ m_semaphore = 0
      BY <2>3, <1>1
    <3>2. CASE s = <<>>
      BY <3>1, <3>2, <2>3 DEF TypeOK
    <3>3. CASE s # <<>>
      BY <3>1, <3>3, <2>3, <1>1 DEF NoLostWakeup, TypeOK, resting
    <3> QED BY <3>2, <3>3
  <2>9. QueuedInOrder'
    <3>1. ASSUME NEW i \in 1..Len(q), NEW j \in 1..Len(q), i < j
          PROVE  q[i] < q[j]
      <4>1. CASE j \in 1..Len(s)
        <5>1. i \in 1..Len(s)
          BY <4>1, <3>1, <2>2
        <5> QED BY <5>1, <4>1, <3>1, <2>2 DEF QueuedInOrder
      <4>2. CASE j \notin 1..Len(s) /\ i \in 1..Len(s)
        <5>1. q[j] > created /\ q[j] \in Tasks
          BY <4>2, <2>4, <2>5
        <5>2. q[i] <= created /\ q[i] \in Tasks
          BY <4>2, <2>2, <2>6
        <5> QED BY <5>1, <5>2, <1>0, <1>1 DEF Tasks
      <4>3. CASE j \notin 1..Len(s) /\ i \notin 1..Len(s)
        BY <4>3, <3>1, <2>2, <2>4, <1>0, <1>1
      <4> QED BY <4>1, <4>2, <4>3
    <3>2. ASSUME NEW i \in 1..Len(m_private_queue), NEW j \in 1..Len(q),
                 m_private_queue[i] \in foreign'
          PROVE  m_private_queue[i] < q[j]
      <4>1. m_private_queue[i] \in foreign
        BY <3>2, <1>1, <1>5
      <4>2. CASE j \in 1..Len(s)
        BY <4>1, <4>2, <2>2 DEF QueuedInOrder
      <4>3. CASE j \notin 1..Len(s)
        <5>1. q[j] > created /\ q[j] \in Tasks
          BY <4>3, <2>4, <2>5
        <5>2. m_private_queue[i] <= created /\ m_private_queue[i] \in Tasks
          BY <2>6
        <5> QED BY <5>1, <5>2, <1>0, <1>1 DEF Tasks
      <4> QED BY <4>2, <4>3
    <3>3. \A j \in 1..Len(q) : q[j] \in foreign'
      BY <2>2, <2>4, <2>5, <1>1, SMTT(30) DEF QueuedInOrder
    <3>4. \A i, j \in 1..Len(m_private_queue) :
             i < j /\ (m_private_queue[i] \in foreign' <=> m_private_queue[j] \in foreign')
               => m_private_queue[i] < m_private_queue[j]
      BY <1>1, <1>5 DEF QueuedInOrder
    <3> QED BY <3>1, <3>2, <3>3, <3>4, <2>1, <1>1 DEF QueuedInOrder
  <2>10. StatusIsPlace'
    <3>1. ASSUME NEW t \in Tasks, status'[t] = "queued"
          PROVE  \/ \E i \in 1..Len(m_private_queue) : m_private_queue[i] = t
                 \/ \E i \in 1..Len(q) : q[i] = t
      <4>1. CASE t \in fresh(n)
        BY <4>1, <2>2, <2>5
      <4>2. CASE t \notin fresh(n)
        <5>1. status[t] = "queued"
          BY <4>2, <3>1, <2>1
        <5>2. \A i \in 1..Len(s) : i \in 1..Len(q)
          BY <2>2, <1>0
        <5> QED BY <5>1, <5>2, <2>2 DEF StatusIsPlace
      <4> QED BY <4>1, <4>2
    <3>2. \A t \in Tasks : /\ status'[t] = "running" <=> worker' = "task" /\ t = current'
                           /\ t > created' => status'[t] = "new" /\ t \notin foreign'
      <4>1. \A t \in Tasks : status'[t] = "running" <=> status[t] = "running"
        BY <2>1, <1>4
      <4>2. worker' = "task" <=> worker = "task"
        BY <2>3
      <4>3. \A t \in Tasks : t > created' => status'[t] = "new" /\ t \notin foreign'
        BY <2>1, <1>0, <1>1, <1>2, <1>3 DEF StatusIsPlace, Tasks
      <4> QED BY <4>1, <4>2, <4>3, <1>1 DEF StatusIsPlace
    <3>3. \A i \in 1..Len(q) : status'[q[i]] = "queued"
      BY <2>1, <2>2, <2>4, <2>5, <2>6, <1>1 DEF StatusIsPlace
    <3>4. \A i \in 1..Len(m_private_queue) : status'[m_private_queue[i]] = "queued"
      BY <2>1, <1>1, <1>5, SMTT(30) DEF StatusIsPlace
    <3> QED BY <3>1, <3>2, <3>3, <3>4, <2>1, <2>3, <1>1 DEF StatusIsPlace
  <2>11. ShutdownIsOrdered'
    <3>1. \A d \in Clients \cup {Worker} : pc'[d] = pc[d] \/ (d = c /\ pc'[d] = "release")
      BY <2>3 DEF TypeOK
    <3>2. \A d \in Clients \cup {Worker} :
             pc[d] \notin {"private_abort", "sd_release", "join", "clear", "returned"}
      BY <1>7 DEF ShutdownIsOrdered
    <3>3. pc'[Worker] = pc[Worker]
      BY <3>1, <1>0, SMTT(30)
    <3>4. \A d \in Clients \cup {Worker} :
             /\ pc'[d] \notin {"idle", "release"} => m_atomic_abort'
             /\ pc'[d] \notin {"private_abort", "sd_release", "join", "clear", "returned"}
      BY <3>1, <3>2, <1>1 DEF ShutdownIsOrdered
    <3>5. worker = "task" => worker' = "task"
      BY <2>3
    <3> QED BY <3>3, <3>4, <3>5, <1>1 DEF ShutdownIsOrdered
  <2> QED BY <2>7, <2>8, <2>9, <2>10, <2>11
<1> QED BY <1>6, <1>7

\* The releases of the semaphore and the steps of shutdown up to the join
\* preserve Inv: they move one thread and touch no task.
LEMMA ShutdownInv ==
  ASSUME Inv, NEW c \in Clients \cup {Worker},
         \/ c \in Clients /\ release(c)
         \/ shutdown(c) \/ set_abort(c) \/ set_private_abort(c)
         \/ release_for_shutdown(c) \/ join(c)
  PROVE  Inv'
<1> USE DEF Inv, abortVars, goto
<1>0. MaxTasks \in Nat /\ Worker \notin Clients
  BY WorkerThreadAssumption
<1>1. UNCHANGED <<m_private_queue, m_public_queue, current, created, foreign, status>>
  BY DEF release, shutdown, set_abort, set_private_abort, release_for_shutdown, join
<1>2. QueuedInOrder'
  BY <1>1 DEF QueuedInOrder
<1>3. worker' = worker \/ (worker = "exited" /\ worker' = "joined")
  BY DEF release, shutdown, set_abort, set_private_abort, release_for_shutdown, join
<1>4. StatusIsPlace'
  BY <1>1, <1>3 DEF StatusIsPlace
<1>5. \A k \in permits : k \in Nat \ {0}
  BY DEF permits, TypeOK
<1>6. CASE c \in Clients /\ release(c)
  <2>1. TypeOK'
    BY <1>5, <1>6 DEF release, TypeOK
  <2>2. NoLostWakeup'
    BY <1>5, <1>6 DEF release, NoLostWakeup
  <2>3. ShutdownIsOrdered'
    BY <1>0, <1>6 DEF release, ShutdownIsOrdered, TypeOK
  <2> QED BY <2>1, <2>2, <2>3, <1>2, <1>4
<1>7. CASE shutdown(c)
  <2>1. m_private_atomic_abort = FALSE /\ m_abort = FALSE
    BY <1>7 DEF shutdown, ShutdownIsOrdered, TypeOK
  <2>2. TypeOK'
    BY <1>7 DEF shutdown, TypeOK
  <2>3. NoLostWakeup'
    BY <1>7 DEF shutdown, NoLostWakeup, TypeOK
  <2>4. ShutdownIsOrdered'
    BY <1>0, <1>7 DEF shutdown, ShutdownIsOrdered, TypeOK
  <2> QED BY <2>2, <2>3, <2>4, <1>2, <1>4
<1>8. CASE set_abort(c)
  <2>1. m_atomic_abort
    BY <1>8 DEF set_abort, ShutdownIsOrdered
  <2>2. TypeOK'
    BY <1>8 DEF set_abort, TypeOK
  <2>3. NoLostWakeup'
    BY <1>8 DEF set_abort, NoLostWakeup, TypeOK
  <2>4. ShutdownIsOrdered'
    BY <1>0, <1>8, <2>1 DEF set_abort, ShutdownIsOrdered, TypeOK
  <2> QED BY <2>2, <2>3, <2>4, <1>2, <1>4
<1>9. CASE set_private_abort(c)
  <2>1. m_abort /\ m_atomic_abort
    BY <1>9 DEF set_private_abort, ShutdownIsOrdered
  <2>2. TypeOK'
    BY <1>9 DEF set_private_abort, TypeOK
  <2>3. NoLostWakeup'
    BY <1>9 DEF set_private_abort, NoLostWakeup, TypeOK
  <2>4. ShutdownIsOrdered'
    BY <1>0, <1>9, <2>1 DEF set_private_abort, ShutdownIsOrdered, TypeOK
  <2> QED BY <2>2, <2>3, <2>4, <1>2, <1>4
<1>10. CASE release_for_shutdown(c)
  <2>1. TypeOK'
    BY <1>5, <1>10 DEF release_for_shutdown, TypeOK
  <2>2. NoLostWakeup'
    BY <1>5, <1>10 DEF release_for_shutdown, NoLostWakeup
  <2>3. ShutdownIsOrdered'
    BY <1>0, <1>10 DEF release_for_shutdown, ShutdownIsOrdered, TypeOK
  <2> QED BY <2>1, <2>2, <2>3, <1>2, <1>4
<1>11. CASE join(c)
  <2>1. PICK p \in {"clear", "threw"} :
           /\ pc[c] = "join" /\ pc' = [pc EXCEPT ![c] = p]
           /\ p = "clear" => worker' \in {"none", "joined"}
           /\ p = "threw" => c = Worker
           /\ UNCHANGED <<abortVars, m_semaphore>>
    BY <1>11 DEF join
  <2>2. TypeOK'
    BY <1>1, <1>3, <2>1 DEF TypeOK
  <2>3. NoLostWakeup'
    BY <1>1, <1>3, <2>1, SMTT(30) DEF NoLostWakeup, TypeOK
  <2>4. ShutdownIsOrdered'
    <3>1. \A d \in Clients \cup {Worker} : pc'[d] = pc[d] \/ (d = c /\ pc'[d] = p)
      BY <2>1 DEF TypeOK
    <3>2. worker \in {"none", "joined"} => worker' \in {"none", "joined"}
      BY <1>3, SMTT(30)
    <3>3. pc'[Worker] \notin {"idle", "threw"} => worker' = "task"
      BY <3>1, <2>1, <1>3, <1>0 DEF ShutdownIsOrdered
    <3> QED BY <1>1, <2>1, <3>1, <3>2, <3>3 DEF ShutdownIsOrdered
  <2> QED BY <2>2, <2>3, <2>4, <1>2, <1>4
<1> QED BY <1>6, <1>7, <1>8, <1>9, <1>10, <1>11

\* The queues together hold exactly the queued tasks.
LEMMA QueuedElements ==
  ASSUME Inv
  PROVE  /\ \A t \in Tasks : t \in elements(m_private_queue \o m_public_queue) <=> status[t] = "queued"
         /\ \A t \in elements(m_private_queue \o m_public_queue) : status[t] = "queued"
<1> USE DEF Inv
<1> DEFINE a == m_private_queue
           b == m_public_queue
<1>0. /\ a \in Seq(Tasks) /\ b \in Seq(Tasks) /\ Len(a) \in Nat /\ Len(b) \in Nat
      /\ Len(a \o b) = Len(a) + Len(b)
      /\ \A i \in 1..Len(a) : (a \o b)[i] = a[i]
      /\ \A i \in 1..Len(a) + Len(b) : i \notin 1..Len(a) => (a \o b)[i] = b[i - Len(a)]
  BY DEF TypeOK
<1>1. ASSUME NEW t \in Tasks, status[t] = "queued"
      PROVE  \E k \in 1..Len(a \o b) : (a \o b)[k] = t
  <2>1. CASE \E i \in 1..Len(a) : a[i] = t
    <3>1. PICK i \in 1..Len(a) : a[i] = t
      BY <2>1
    <3>2. i \in 1..Len(a \o b)
      BY <1>0
    <3> QED BY <3>1, <3>2, <1>0
  <2>2. CASE \E i \in 1..Len(b) : b[i] = t
    <3>1. PICK i \in 1..Len(b) : b[i] = t
      BY <2>2
    <3>2. i + Len(a) \in 1..Len(a \o b) /\ i + Len(a) \notin 1..Len(a)
          /\ i + Len(a) \in 1..Len(a) + Len(b) /\ (i + Len(a)) - Len(a) = i
      BY <1>0
    <3> QED BY <3>1, <3>2, <1>0
  <2> QED BY <1>1, <2>1, <2>2 DEF StatusIsPlace
<1>2. ASSUME NEW k \in 1..Len(a \o b)
      PROVE  status[(a \o b)[k]] = "queued"
  <2>1. CASE k \in 1..Len(a)
    BY <2>1, <1>0 DEF StatusIsPlace
  <2>2. CASE k \notin 1..Len(a)
    <3>1. k - Len(a) \in 1..Len(b) /\ k \in 1..Len(a) + Len(b)
      BY <2>2, <1>0
    <3> QED BY <3>1, <2>2, <1>0 DEF StatusIsPlace
  <2> QED BY <2>1, <2>2
<1> QED BY <1>1, <1>2 DEF elements

\* clear empties both queues, and no thread is there to mind: Inv is preserved.
LEMMA ClearInv ==
  ASSUME Inv, NEW c \in Clients \cup {Worker}, clear(c)
  PROVE  Inv'
<1> USE DEF Inv, abortVars, goto
<1>0. MaxTasks \in Nat /\ Worker \notin Clients
  BY WorkerThreadAssumption
<1> DEFINE S == elements(m_private_queue \o m_public_queue)
<1>1. /\ pc[c] = "clear" /\ pc' = [pc EXCEPT ![c] = "returned"]
      /\ m_private_queue' = <<>> /\ m_public_queue' = <<>>
      /\ status' = [t \in Tasks |-> IF t \in S THEN "destroyed" ELSE status[t]]
      /\ UNCHANGED <<abortVars, m_semaphore, worker, current, created, foreign>>
  BY DEF clear, become
<1>2. worker \in {"none", "joined"} /\ m_abort
  BY <1>1 DEF ShutdownIsOrdered
<1>3. \A t \in Tasks : t \in S <=> status[t] = "queued"
  BY QueuedElements
<1> HIDE DEF S
<1>4. TypeOK'
  BY <1>1 DEF TypeOK
<1>5. NoLostWakeup' /\ QueuedInOrder'
  BY <1>1, <1>2 DEF NoLostWakeup, QueuedInOrder
<1>6. StatusIsPlace'
  BY <1>1, <1>2, <1>3 DEF StatusIsPlace, TypeOK
<1>7. ShutdownIsOrdered'
  <2>1. \A d \in Clients \cup {Worker} : pc'[d] = pc[d] \/ (d = c /\ pc'[d] = "returned")
    BY <1>1 DEF TypeOK
  <2>2. pc'[Worker] \notin {"idle", "threw"} => worker = "task"
    BY <2>1, <1>1 DEF ShutdownIsOrdered
  <2> QED BY <2>1, <2>2, <1>1, <1>2 DEF ShutdownIsOrdered
<1> QED BY <1>4, <1>5, <1>6, <1>7

\* A step that changes nothing preserves Inv.
LEMMA StutterInv == Inv /\ UNCHANGED vars => Inv'
<1> SUFFICES ASSUME Inv, UNCHANGED vars PROVE Inv'
  OBVIOUS
<1> USE DEF Inv, vars
<1>1. TypeOK' /\ NoLostWakeup'
  BY DEF TypeOK, NoLostWakeup
<1>2. QueuedInOrder'
  BY DEF QueuedInOrder
<1>3. StatusIsPlace'
  BY DEF StatusIsPlace
<1>4. ShutdownIsOrdered'
  BY DEF ShutdownIsOrdered
<1> QED BY <1>1, <1>2, <1>3, <1>4

\* Inv is inductive.
THEOREM Invariance == Spec => []Inv
<1>1. Inv /\ [Next]_vars => Inv'
  <2> SUFFICES ASSUME Inv, [Next]_vars PROVE Inv'
    OBVIOUS
  <2>1. CASE work_loop
    BY <2>1, WorkLoopInv
  <2>2. CASE \E n \in Bulk : enqueue_local(n)
    BY <2>2, EnqueueLocalInv
  <2>3. CASE \E n \in Bulk : \E c \in Clients : enqueue_foreign(c, n)
    BY <2>3, EnqueueForeignInv
  <2>4. CASE \E c \in Clients : release(c)
    BY <2>4, ShutdownInv
  <2>5. CASE \E c \in Clients \cup {Worker} : shutdown(c) \/ shutdown_step(c)
    BY <2>5, ShutdownInv, ClearInv DEF shutdown_step
  <2>6. CASE UNCHANGED vars
    BY <2>6, StutterInv
  <2> QED BY <2>1, <2>2, <2>3, <2>4, <2>5, <2>6 DEF Next
<1> QED BY InitInv, <1>1, PTL DEF Spec

-----------------------------------------------------------------------------
\* Every variable stays in its type, for any number of clients and tasks.
THEOREM TypeCorrect == Spec => []TypeOK
<1>1. Inv => TypeOK
  BY DEF Inv
<1> QED BY Invariance, <1>1, PTL

\* The work loop never sleeps on the semaphore beside a task or an abort unless
\* somebody is on the way to releasing it.
THEOREM WakeupIsNotLost == Spec => []NoLostWakeup
<1>1. Inv => NoLostWakeup
  BY DEF Inv
<1> QED BY Invariance, <1>1, PTL

\* When shutdown has returned to a client the thread is joined, or never was,
\* and no task is queued or running.
THEOREM ShutdownQuiets == Spec => []QuietAfterShutdown
<1>1. Inv => QuietAfterShutdown
  <2> SUFFICES ASSUME Inv, NEW c \in Clients, pc[c] = "returned"
               PROVE  /\ worker \in {"none", "joined"}
                      /\ \A t \in Tasks : status[t] \notin {"queued", "running"}
    BY DEF QuietAfterShutdown
  <2>1. worker \in {"none", "joined"} /\ m_private_queue = <<>> /\ m_public_queue = <<>>
    BY SMTT(30) DEF Inv, ShutdownIsOrdered
  <2> QED BY <2>1 DEF Inv, StatusIsPlace
<1> QED BY Invariance, <1>1, PTL

\* What each step does to the tasks, as far as the contract tells: only one
\* round of the work loop starts a task, and it is the front of the private queue.
LEMMA TaskMoves ==
  ASSUME Inv, [Next]_vars
  PROVE  \/ UNCHANGED status
         \/ /\ UNCHANGED abortVars /\ status' \in [Tasks -> Contract!Statuses]
            /\ \A t \in Tasks : status'[t] # status[t] => status[t] = "new" /\ status'[t] = "queued"
            /\ ~m_private_atomic_abort
         \/ /\ UNCHANGED abortVars /\ status' \in [Tasks -> Contract!Statuses]
            /\ \A t \in Tasks : status'[t] # status[t] => status[t] = "new" /\ status'[t] = "refused"
            /\ m_atomic_abort
         \/ /\ UNCHANGED abortVars /\ ~m_private_atomic_abort /\ m_private_queue # <<>>
            /\ status' = [status EXCEPT ![Head(m_private_queue)] = "running"]
         \/ /\ UNCHANGED abortVars /\ current \in Tasks /\ status[current] = "running"
            /\ status' = [status EXCEPT ![current] = "done"]
         \/ /\ UNCHANGED abortVars /\ m_atomic_abort /\ status' \in [Tasks -> Contract!Statuses]
            /\ \A t \in Tasks : status'[t] # status[t] => status[t] = "queued" /\ status'[t] = "destroyed"
<1> USE DEF Inv, become
<1>0. MaxTasks \in Nat
  BY WorkerThreadAssumption
<1>1. status \in [Tasks -> Contract!Statuses] /\ (m_private_atomic_abort => m_abort) /\ (m_abort => m_atomic_abort)
  BY DEF TypeOK, Contract!Statuses, ShutdownIsOrdered
<1>2. \A n \in Bulk : handed(n) => \A t \in fresh(n) : status[t] = "new"
  <2> SUFFICES ASSUME NEW n \in Bulk, handed(n), NEW t \in fresh(n)
               PROVE  status[t] = "new"
    OBVIOUS
  <2>1. n \in Nat \ {0} /\ created \in 0..MaxTasks /\ created \in Nat
    BY <1>0 DEF Bulk, TypeOK
  <2>2. t \in Tasks /\ t > created
    BY <1>0, <2>1 DEF fresh, handed, Tasks
  <2> QED BY <2>2 DEF StatusIsPlace
<1>3. CASE drain_queue \/ acquire
  BY <1>3, SMTT(30) DEF drain_queue, acquire
<1>4. CASE drain_queue_impl
  <2>1. CASE m_private_queue = <<>>
    BY <1>4, <2>1 DEF drain_queue_impl
  <2>2. CASE m_private_queue # <<>>
    <3> DEFINE h == Head(m_private_queue)
    <3>1. h \in Tasks /\ status[h] = "queued"
      BY <2>2, TailFacts DEF TypeOK, StatusIsPlace
    <3>2. CASE m_private_atomic_abort
      BY <1>1, <1>4, <2>2, <3>1, <3>2 DEF drain_queue_impl, Contract!Statuses
    <3>3. CASE ~m_private_atomic_abort
      <4>1. status' = [t \in Tasks |-> IF t \in {h} THEN "running" ELSE status[t]]
        BY <1>4, <2>2, <3>3 DEF drain_queue_impl
      <4>2. UNCHANGED abortVars
        BY <1>4 DEF drain_queue_impl
      <4>3. status' = [status EXCEPT ![h] = "running"]
        BY <4>1, <1>1, Zenon
      <4> QED BY <4>2, <4>3, <2>2, <3>3
    <3> QED BY <3>2, <3>3
  <2> QED BY <2>1, <2>2
<1>5. CASE task_returns
  <2>1. current \in Tasks /\ status[current] = "running"
    BY <1>5 DEF task_returns, StatusIsPlace
  <2>2. status' = [t \in Tasks |-> IF t \in {current} THEN "done" ELSE status[t]]
    BY <1>5 DEF task_returns
  <2>3. status' = [status EXCEPT ![current] = "done"]
    BY <2>2, <1>1, Zenon
  <2>4. UNCHANGED abortVars
    BY <1>5 DEF task_returns
  <2> QED BY <2>1, <2>3, <2>4
<1>6. CASE \E n \in Bulk : enqueue_local(n)
  <2>1. PICK n \in Bulk : enqueue_local(n)
    BY <1>6
  <2>2. UNCHANGED abortVars /\ \A t \in fresh(n) : status[t] = "new"
    BY <2>1, <1>2, Zenon DEF enqueue_local
  <2>3. CASE m_private_atomic_abort
    <3>1. status' = [t \in Tasks |-> IF t \in fresh(n) THEN "refused" ELSE status[t]]
      BY <2>1, <2>3 DEF enqueue_local
    <3> QED BY <3>1, <2>2, <2>3, <1>1 DEF Contract!Statuses
  <2>4. CASE ~m_private_atomic_abort
    <3>1. status' = [t \in Tasks |-> IF t \in fresh(n) THEN "queued" ELSE status[t]]
      BY <2>1, <2>4, SMTT(30) DEF enqueue_local
    <3> QED BY <3>1, <2>2, <2>4, <1>1 DEF Contract!Statuses
  <2> QED BY <2>3, <2>4
<1>7. CASE \E n \in Bulk : \E c \in Clients : enqueue_foreign(c, n)
  <2>1. PICK n \in Bulk, c \in Clients : enqueue_foreign(c, n)
    BY <1>7, SMTT(30)
  <2>2. UNCHANGED abortVars /\ \A t \in fresh(n) : status[t] = "new"
    BY <2>1, <1>2 DEF enqueue_foreign
  <2>3. CASE m_abort
    <3>1. status' = [t \in Tasks |-> IF t \in fresh(n) THEN "refused" ELSE status[t]]
      BY <2>1, <2>3 DEF enqueue_foreign
    <3> QED BY <3>1, <2>2, <2>3, <1>1 DEF Contract!Statuses
  <2>4. CASE ~m_abort
    <3>1. status' = [t \in Tasks |-> IF t \in fresh(n) THEN "queued" ELSE status[t]]
      BY <2>1, <2>4, SMTT(30) DEF enqueue_foreign
    <3> QED BY <3>1, <2>2, <2>4, <1>1 DEF Contract!Statuses
  <2> QED BY <2>3, <2>4
<1>8. CASE \E c \in Clients \cup {Worker} :
              release(c) \/ shutdown(c) \/ set_abort(c) \/ set_private_abort(c)
              \/ release_for_shutdown(c) \/ join(c)
  BY <1>8 DEF release, shutdown, set_abort, set_private_abort, release_for_shutdown, join
<1>9. CASE \E c \in Clients \cup {Worker} : clear(c)
  <2>1. PICK c \in Clients \cup {Worker} : clear(c)
    BY <1>9
  <2>2. m_atomic_abort /\ UNCHANGED abortVars
    BY <2>1, <1>1 DEF clear, ShutdownIsOrdered
  <2>3. status' = [t \in Tasks |-> IF t \in elements(m_private_queue \o m_public_queue)
                                     THEN "destroyed" ELSE status[t]]
    BY <2>1 DEF clear
  <2>4. \A t \in elements(m_private_queue \o m_public_queue) : status[t] = "queued"
    BY QueuedElements
  <2> QED BY <2>2, <2>3, <2>4, <1>1 DEF Contract!Statuses
<1>10. CASE UNCHANGED vars
  BY <1>10 DEF vars
<1> QED BY <1>3, <1>4, <1>5, <1>6, <1>7, <1>8, <1>9, <1>10, ZenonT(30)
        DEF Next, work_loop, shutdown_step

\* Tasks from outside, and tasks of tasks, start in the order they came in.
THEOREM StartsInOrder == Spec => StartedInOrder
<1> DEFINE Step == \A t, u \in Tasks :
                      status[t] = "queued" /\ status'[t] = "running" /\ u < t
                          /\ (t \in foreign <=> u \in foreign) => status[u] # "queued"
<1>1. Inv /\ [Next]_vars => Step
  <2> SUFFICES ASSUME Inv, [Next]_vars, NEW t \in Tasks, NEW u \in Tasks,
                      status[t] = "queued", status'[t] = "running", u < t,
                      t \in foreign <=> u \in foreign, status[u] = "queued"
               PROVE  FALSE
    OBVIOUS
  <2>1. m_private_queue # <<>> /\ status' = [status EXCEPT ![Head(m_private_queue)] = "running"]
    <3>1. status \in [Tasks -> Contract!Statuses]
      BY DEF Inv, TypeOK, Contract!Statuses
    <3> QED BY <3>1, TaskMoves
  <2>2. /\ Len(m_private_queue) \in Nat \ {0} /\ t = m_private_queue[1]
        /\ MaxTasks \in Nat
    BY <2>1, TailFacts, WorkerThreadAssumption DEF Inv, TypeOK
  <2>3. CASE \E i \in 1..Len(m_private_queue) : m_private_queue[i] = u
    <3>1. PICK i \in 1..Len(m_private_queue) : m_private_queue[i] = u
      BY <2>3
    <3>2. i # 1
      BY <3>1, <2>2 DEF Tasks
    <3>3. 1 \in 1..Len(m_private_queue) /\ 1 < i
      BY <3>2, <2>2
    <3>4. t < u
      BY <3>1, <3>3, <2>2 DEF Inv, QueuedInOrder
    <3> QED BY <3>4, <2>2 DEF Tasks
  <2>4. CASE \E j \in 1..Len(m_public_queue) : m_public_queue[j] = u
    <3>1. 1 \in 1..Len(m_private_queue)
      BY <2>2
    <3>2. u \in foreign /\ t \in foreign
      BY <2>4 DEF Inv, QueuedInOrder
    <3>3. t < u
      BY <3>1, <3>2, <2>2, <2>4, SMTT(30) DEF Inv, QueuedInOrder
    <3> QED BY <3>3, <2>2 DEF Tasks
  <2> QED BY <2>3, <2>4 DEF Inv, StatusIsPlace
<1> QED BY Invariance, <1>1, PTL DEF StartedInOrder, Spec

\* The abort flags are only raised, the contract's closing before its closed,
\* and a step that raises one touches no task.
LEMMA FlagMoves ==
  ASSUME Inv, [Next]_vars
  PROVE  \/ UNCHANGED <<m_atomic_abort, m_private_atomic_abort>>
         \/ /\ m_atomic_abort' /\ (m_private_atomic_abort => m_private_atomic_abort')
            /\ m_private_atomic_abort' \in BOOLEAN
            /\ UNCHANGED status
<1>1. CASE \E c \in Clients \cup {Worker} : shutdown(c)
  <2>1. m_private_atomic_abort \in BOOLEAN
    BY DEF Inv, TypeOK
  <2>2. m_atomic_abort' = TRUE /\ UNCHANGED <<m_private_atomic_abort, status>>
    BY <1>1 DEF shutdown
  <2> QED BY <2>1, <2>2, Zenon
<1>2. CASE \E c \in Clients \cup {Worker} : set_private_abort(c)
  <2>1. m_atomic_abort
    BY <1>2 DEF set_private_abort, Inv, ShutdownIsOrdered
  <2>2. m_private_atomic_abort' = TRUE /\ UNCHANGED <<m_atomic_abort, status>>
    BY <1>2 DEF set_private_abort
  <2> QED BY <2>1, <2>2, Zenon
<1> QED BY <1>1, <1>2
        DEF Next, work_loop, shutdown_step, vars, abortVars, drain_queue, acquire,
            drain_queue_impl, task_returns, enqueue_local, enqueue_foreign, release,
            set_abort, release_for_shutdown, join, clear

\* The executor implements the contract of module Executor: what its status,
\* m_atomic_abort and m_private_atomic_abort do is a behaviour of the contract.
THEOREM KeepsContract == Spec => ImplementsExecutor
<1>1. Init => Contract!Init
  BY SMTT(30) DEF Init, Contract!Init
<1>2. Inv /\ [Next]_vars
        => [Contract!Next]_<<status, m_atomic_abort, m_private_atomic_abort>>
  <2> SUFFICES ASSUME Inv, [Next]_vars
               PROVE  [Contract!Next]_<<status, m_atomic_abort, m_private_atomic_abort>>
    OBVIOUS
  <2> USE DEF Contract!Next
  <2>1. CASE UNCHANGED status
    BY <2>1, FlagMoves DEF Contract!Shutdown
  <2>2. CASE /\ UNCHANGED abortVars /\ status' \in [Tasks -> Contract!Statuses]
             /\ \A t \in Tasks : status'[t] # status[t] => status[t] = "new" /\ status'[t] = "queued"
             /\ ~m_private_atomic_abort
    BY <2>2 DEF Contract!Accept, Contract!Move, abortVars
  <2>3. CASE /\ UNCHANGED abortVars /\ status' \in [Tasks -> Contract!Statuses]
             /\ \A t \in Tasks : status'[t] # status[t] => status[t] = "new" /\ status'[t] = "refused"
             /\ m_atomic_abort
    BY <2>3 DEF Contract!Refuse, Contract!Move, abortVars
  <2>4. CASE /\ UNCHANGED abortVars /\ ~m_private_atomic_abort /\ m_private_queue # <<>>
             /\ status' = [status EXCEPT ![Head(m_private_queue)] = "running"]
    <3>1. Head(m_private_queue) \in Tasks /\ status[Head(m_private_queue)] = "queued"
      BY <2>4, TailFacts DEF Inv, TypeOK, StatusIsPlace
    <3> QED BY <2>4, <3>1, Zenon DEF Contract!Start, Contract!MoveOne, abortVars
  <2>5. CASE /\ UNCHANGED abortVars /\ current \in Tasks /\ status[current] = "running"
             /\ status' = [status EXCEPT ![current] = "done"]
    BY <2>5, Zenon DEF Contract!Finish, Contract!MoveOne, abortVars
  <2>6. CASE /\ UNCHANGED abortVars /\ m_atomic_abort /\ status' \in [Tasks -> Contract!Statuses]
             /\ \A t \in Tasks : status'[t] # status[t] => status[t] = "queued" /\ status'[t] = "destroyed"
    BY <2>6 DEF Contract!Destroy, Contract!Move, abortVars
  <2> QED BY <2>1, <2>2, <2>3, <2>4, <2>5, <2>6, TaskMoves
<1> QED BY Invariance, <1>1, <1>2, PTL DEF Spec, ImplementsExecutor, Contract!Spec
=============================================================================

-------------------- MODULE AsyncConditionVariableProofs --------------------
(***************************************************************************)
(* Proofs about AsyncConditionVariable for every set of tasks and every    *)
(* choice of executors.  Inv joins the two properties with QueuesInOrder:  *)
(* that a task is queued once needs to know that whoever is popped from    *)
(* the queue of the lock was suspended there, and not by the condition     *)
(* variable, and that a task that begins to resume has no list left.       *)
(*                                                                         *)
(* Steps that move one task and leave the queues alone share MoveInv, the  *)
(* places that give the lock back share ReleaseInv.                        *)
(***************************************************************************)
EXTENDS AsyncConditionVariable, SequenceTheorems, TLAPS

\* Where a task is in a queue, or holds the mutex.
Queued == {"suspended", "cv_suspended", "cv_push"}

LEMMA EmptyFacts == elements(<<>>) = {} /\ once(<<>>)
  BY DEF elements, once

LEMMA SingleFacts ==
  ASSUME NEW t \in Tasks
  PROVE  <<t>> \in Seq(Tasks) /\ elements(<<t>>) = {t} /\ once(<<t>>)
  BY DEF elements, once

LEMMA AppendFacts ==
  ASSUME NEW s \in Seq(Tasks), NEW t \in Tasks
  PROVE  /\ Append(s, t) \in Seq(Tasks)
         /\ elements(Append(s, t)) = elements(s) \cup {t}
         /\ once(s) /\ t \notin elements(s) => once(Append(s, t))
<1> DEFINE a == Append(s, t)
<1>1. /\ a \in Seq(Tasks) /\ Len(s) \in Nat /\ Len(a) = Len(s) + 1 /\ a[Len(s) + 1] = t
      /\ \A k \in 1..Len(s) : a[k] = s[k]
  OBVIOUS
<1> HIDE DEF a
<1>2. elements(a) = elements(s) \cup {t}
  <2>1. \A k \in 1..Len(a) : k \in 1..Len(s) \/ k = Len(s) + 1
    BY <1>1
  <2>2. \A k \in 1..Len(s) : k \in 1..Len(a)
    BY <1>1
  <2>3. Len(s) + 1 \in 1..Len(a)
    BY <1>1
  <2> QED BY <1>1, <2>1, <2>2, <2>3 DEF elements
<1>3. once(s) /\ t \notin elements(s) => once(a)
  BY <1>1 DEF once, elements
<1> QED BY <1>1, <1>2, <1>3 DEF a

LEMMA PopFacts ==
  ASSUME NEW s \in Seq(Tasks), s # <<>>
  PROVE  /\ Head(s) \in Tasks /\ Head(s) \in elements(s) /\ Tail(s) \in Seq(Tasks)
         /\ once(s) => once(Tail(s)) /\ elements(Tail(s)) = elements(s) \ {Head(s)}
<1> DEFINE h == Head(s) r == Tail(s)
<1>1. /\ h \in Tasks /\ h = s[1] /\ Len(s) \in Nat \ {0} /\ r \in Seq(Tasks)
      /\ Len(r) = Len(s) - 1 /\ \A k \in 1..Len(s) - 1 : r[k] = s[k + 1]
  OBVIOUS
<1> HIDE DEF h, r
<1>2. h \in elements(s)
  <2>1. 1 \in 1..Len(s)
    BY <1>1
  <2> QED BY <1>1, <2>1 DEF elements
<1>3. ASSUME once(s) PROVE once(r) /\ elements(r) = elements(s) \ {h}
  <2>1. once(r)
    BY <1>1, <1>3 DEF once
  <2>2. ASSUME NEW k \in 1..Len(r) PROVE r[k] \in elements(s) /\ r[k] # h
    <3>1. k + 1 \in 1..Len(s) /\ k + 1 # 1 /\ 1 \in 1..Len(s) /\ r[k] = s[k + 1]
      BY <1>1
    <3> QED BY <1>1, <1>3, <3>1 DEF elements, once
  <2>3. ASSUME NEW k \in 1..Len(s), s[k] # h PROVE s[k] \in elements(r)
    <3>1. k - 1 \in 1..Len(r) /\ r[k - 1] = s[(k - 1) + 1] /\ (k - 1) + 1 = k
      BY <1>1, <2>3
    <3> QED BY <3>1 DEF elements
  <2> QED BY <2>1, <2>2, <2>3 DEF elements
<1> QED BY <1>1, <1>2, <1>3 DEF h, r

\* One task moves, and acquires the lock, releases it or neither.
LEMMA ExclusionKept ==
  ASSUME AwaitKeepsExclusion, NEW t \in Tasks,
         \A u \in Tasks : u # t => (holds(u)' <=> holds(u)),
         \/ m_locked' = m_locked /\ (holds(t)' <=> holds(t))
         \/ ~m_locked /\ m_locked' = TRUE /\ holds(t)'
         \/ holds(t) /\ m_locked' = FALSE /\ ~holds(t)'
  PROVE  AwaitKeepsExclusion'
  BY DEF AwaitKeepsExclusion

\* A task moves without entering or leaving a queue.
LEMMA MoveInv ==
  ASSUME Inv, NEW t \in Tasks, NEW p \in (Lock!LockPcs \cup CvPcs) \ Queued,
         pc[t] \notin Queued, pc' = [pc EXCEPT ![t] = p], list[t] = <<>>,
         UNCHANGED <<m_awaiters, m_lock, cv_awaiters, list>>,
         back' \in [Tasks -> {"outside", "critical"}],
         \A u \in Tasks : u # t => back'[u] = back[u],
         \/ m_locked' = m_locked /\ (holds(t)' <=> holds(t))
         \/ ~m_locked /\ m_locked' = TRUE /\ holds(t)'
  PROVE  Inv'
<1> USE DEF Inv
<1>1. pc'[t] = p /\ \A u \in Tasks : u # t => pc'[u] = pc[u]
  BY DEF TypeOK
<1>2. TypeOK'
  BY Zenon DEF TypeOK
<1>3. QueuesInOrder'
  BY <1>1 DEF QueuesInOrder, Queued
<1>4. SuspendedIsQueuedOnce'
  <2>1. \A u \in Tasks : /\ pc'[u] = "cv_push" <=> pc[u] = "cv_push"
                         /\ pc'[u] = "cv_suspended" <=> pc[u] = "cv_suspended"
    BY <1>1 DEF Queued
  <2> QED BY <2>1, ZenonT(30) DEF SuspendedIsQueuedOnce
<1>5. AwaitKeepsExclusion'
  <2>1. \A u \in Tasks : u # t => (holds(u)' <=> holds(u))
    BY <1>1 DEF holds
  <2> QED BY <2>1, ExclusionKept, Zenon
<1> QED BY <1>2, <1>3, <1>4, <1>5

\* The lock is given back by unlock, by the catch block or by await.
LEMMA ReleaseInv ==
  ASSUME Inv, NEW t \in Tasks, NEW p, pc[t] \in {"critical", "broken", "cv_await"},
         Lock!release(t, p), UNCHANGED <<cv_awaiters, list, back>>,
         \/ p = "outside" /\ m_lock' = m_lock
         \/ p = "cv_push" /\ m_lock = None /\ m_lock' = t
  PROVE  Inv'
<1> USE DEF Inv
<1>0. /\ p \in {"outside", "cv_push"} /\ p \in Lock!LockPcs \cup CvPcs
      /\ "try" \in Lock!LockPcs \cup CvPcs
  BY DEF Lock!LockPcs, CvPcs
\* h is the waiter that is resumed, or t itself if there is none.
<1> DEFINE h == IF m_awaiters = <<>> THEN t ELSE Head(m_awaiters)
<1>1. /\ h \in Tasks /\ m_awaiters' \in Seq(Tasks) /\ m_locked' = FALSE
      /\ h # t => pc[h] = "suspended"
      /\ pc' \in [Tasks -> Lock!LockPcs \cup CvPcs] /\ pc'[t] = p
      /\ h # t => pc'[h] = "try"
      /\ \A u \in Tasks : u \notin {t, h} => pc'[u] = pc[u]
      /\ once(m_awaiters')
      /\ elements(m_awaiters') = elements(m_awaiters) \ {h}
  <2>1. CASE m_awaiters = <<>>
    <3>1. h = t /\ m_awaiters' = m_awaiters /\ pc' = [pc EXCEPT ![t] = p] /\ m_locked' = FALSE
      BY <2>1 DEF Lock!release, Lock!goto
    <3> HIDE DEF h
    <3> QED BY <1>0, <2>1, <3>1, EmptyFacts DEF TypeOK, QueuesInOrder
  <2>2. CASE m_awaiters # <<>>
    <3>1. /\ h = Head(m_awaiters) /\ m_awaiters' = Tail(m_awaiters) /\ m_locked' = FALSE
          /\ pc' = [pc EXCEPT ![t] = p, ![h] = "try"]
      BY <2>2 DEF Lock!release
    <3> HIDE DEF h
    <3>2. h \in Tasks /\ pc[h] = "suspended" /\ h # t
      BY <2>2, <3>1, PopFacts DEF TypeOK, QueuesInOrder
    <3>3. /\ m_awaiters' \in Seq(Tasks) /\ once(m_awaiters')
          /\ elements(m_awaiters') = elements(m_awaiters) \ {h}
      BY <2>2, <3>1, PopFacts DEF TypeOK, QueuesInOrder
    <3>4. /\ pc' \in [Tasks -> Lock!LockPcs \cup CvPcs] /\ pc'[t] = p /\ pc'[h] = "try"
          /\ \A u \in Tasks : u \notin {t, h} => pc'[u] = pc[u]
      BY <1>0, <3>1, <3>2, Zenon DEF TypeOK
    <3> QED BY <3>1, <3>2, <3>3, <3>4
  <2> QED BY <2>1, <2>2, Zenon
<1> HIDE DEF h
<1>2. TypeOK'
  BY <1>1 DEF TypeOK
<1>3. QueuesInOrder'
  BY <1>0, <1>1 DEF QueuesInOrder
<1>4. SuspendedIsQueuedOnce'
  <2>1. \A u \in Tasks : pc'[u] = "cv_suspended" <=> pc[u] = "cv_suspended"
    BY <1>0, <1>1
  <2>2. \A u \in Tasks : (pc[u] = "cv_push" <=> m_lock = u)'
    BY <1>0, <1>1, CvTasksAssumption DEF SuspendedIsQueuedOnce
  <2> QED BY <2>1, <2>2 DEF SuspendedIsQueuedOnce
<1>5. AwaitKeepsExclusion'
  <2>1. \A u \in Tasks : u # t => (holds(u)' <=> holds(u))
    BY <1>1 DEF holds, Lock!Holding, Notifying
  <2>2. holds(t) /\ ~holds(t)'
    BY <1>0, <1>1 DEF holds, Lock!Holding, Notifying
  <2> QED BY <1>1, <2>1, <2>2, ExclusionKept, Zenon
<1> QED BY <1>2, <1>3, <1>4, <1>5

\* lock_impl queues up and suspends.
LEMMA SuspendInv ==
  ASSUME Inv, NEW t \in Tasks, pc[t] = "try", m_awaiters' = Append(m_awaiters, t),
         pc' = [pc EXCEPT ![t] = "suspended"], m_locked' = m_locked, UNCHANGED cvVars
  PROVE  Inv'
<1> USE DEF Inv, cvVars
<1>1. pc'[t] = "suspended" /\ \A u \in Tasks : u # t => pc'[u] = pc[u]
  BY DEF TypeOK
<1>2. /\ m_awaiters' \in Seq(Tasks) /\ once(m_awaiters')
      /\ elements(m_awaiters') = elements(m_awaiters) \cup {t}
  <2>1. t \notin elements(m_awaiters)
    BY DEF QueuesInOrder
  <2> QED BY <2>1, AppendFacts DEF TypeOK, QueuesInOrder
<1>3. TypeOK'
  BY <1>2 DEF TypeOK, Lock!LockPcs
<1>4. QueuesInOrder'
  BY <1>1, <1>2 DEF QueuesInOrder
<1>5. SuspendedIsQueuedOnce'
  <2>1. \A u \in Tasks : /\ pc'[u] = "cv_push" <=> pc[u] = "cv_push"
                         /\ pc'[u] = "cv_suspended" <=> pc[u] = "cv_suspended"
    BY <1>1
  <2> QED BY <2>1, Zenon DEF SuspendedIsQueuedOnce
<1>6. AwaitKeepsExclusion'
  <2>1. \A u \in Tasks : holds(u)' <=> holds(u)
    BY <1>1 DEF holds, Lock!Holding, Notifying
  <2> QED BY <2>1, ExclusionKept, Zenon
<1> QED BY <1>3, <1>4, <1>5, <1>6

\* The steps of the async_lock.
LEMMA LockInv ==
  ASSUME Inv, NEW t \in Tasks, Lock!step(t) \/ Lock!lock(t) \/ Lock!try_lock(t), UNCHANGED cvVars
  PROVE  Inv'
<1> USE DEF Lock!at, Lock!goto, cvVars
<1>a. back' \in [Tasks -> {"outside", "critical"}]
  BY DEF Inv, TypeOK
<1>b. pc[t] # "resuming" => list[t] = <<>>
  BY DEF Inv, QueuesInOrder
<1>c. \A p : pc' = [pc EXCEPT ![t] = p] => pc'[t] = p
  BY DEF Inv, TypeOK
<1>1. CASE Lock!lock(t)
  <2>1. pc[t] = "outside" /\ pc' = [pc EXCEPT ![t] = "try"] /\ UNCHANGED <<m_locked, m_awaiters>>
    BY <1>1 DEF Lock!lock
  <2>2. holds(t)' <=> holds(t)
    BY <1>c, <2>1 DEF holds, Lock!Holding, Notifying
  <2> QED BY <1>a, <1>b, <2>1, <2>2, MoveInv, Zenon DEF Queued, Lock!LockPcs
<1>2. CASE Lock!try_lock(t)
  <2>1. /\ pc[t] = "outside" /\ pc' = [pc EXCEPT ![t] = "critical"] /\ m_awaiters' = m_awaiters
        /\ ~m_locked /\ m_locked' = TRUE
    BY <1>2 DEF Lock!try_lock
  <2>2. holds(t)'
    BY <1>c, <2>1, Zenon DEF holds, Lock!Holding
  <2> QED BY <1>a, <1>b, <2>1, <2>2, MoveInv, Zenon DEF Queued, Lock!LockPcs, Lock!Holding
<1>3. CASE Lock!lock_or_suspend(t)
  <2>1. CASE ~m_locked
    <3>1. PICK p \in {"resume_on", "critical"} :
             /\ pc[t] = "try" /\ pc' = [pc EXCEPT ![t] = p]
             /\ m_locked' = TRUE /\ m_awaiters' = m_awaiters
      BY <1>3, <2>1 DEF Lock!lock_or_suspend
    <3>2. holds(t)'
      BY <1>c, <3>1, Zenon DEF holds, Lock!Holding
    <3> QED BY <1>a, <1>b, <2>1, <3>1, <3>2, MoveInv, Zenon DEF Queued, Lock!LockPcs, Lock!Holding
  <2>2. CASE m_locked
    BY <1>3, <2>2, SuspendInv DEF Lock!lock_or_suspend
  <2> QED BY <2>1, <2>2
<1>4. CASE Lock!resume_on(t) \/ Lock!run_posted(t)
  <2>1. PICK p \in {"posted", "critical", "broken"} :
           /\ pc[t] \in {"resume_on", "posted"} /\ pc' = [pc EXCEPT ![t] = p]
           /\ UNCHANGED <<m_locked, m_awaiters>>
    BY <1>4 DEF Lock!resume_on, Lock!run_posted
  <2>2. holds(t)' /\ holds(t)
    BY <1>c, <2>1 DEF holds, Lock!Holding
  <2> QED BY <1>a, <1>b, <2>1, <2>2, MoveInv, Zenon DEF Queued, Lock!LockPcs, Lock!Holding
<1>5. CASE Lock!catch(t) \/ Lock!unlock(t)
  BY <1>5, ReleaseInv DEF Lock!catch, Lock!unlock
<1>6. CASE Lock!yield(t)
  <2>1. pc[t] = "outside" /\ UNCHANGED <<pc, m_locked, m_awaiters>>
    BY <1>6 DEF Lock!yield
  <2>2. pc' = [pc EXCEPT ![t] = "outside"]
    BY <2>1 DEF Inv, TypeOK
  <2>3. holds(t)' <=> holds(t)
    BY <2>1 DEF holds
  <2> QED BY <1>a, <1>b, <2>1, <2>2, <2>3, MoveInv, Zenon DEF Queued, Lock!LockPcs
<1> QED BY <1>1, <1>2, <1>3, <1>4, <1>5, <1>6 DEF Lock!step

\* await queues the task and lets go of the mutex.
LEMMA PushInv ==
  ASSUME Inv, NEW t \in Tasks, push_back(t)
  PROVE  Inv'
<1> USE DEF Inv
<1>1. /\ pc[t] = "cv_push" /\ pc' = [pc EXCEPT ![t] = "cv_suspended"]
      /\ cv_awaiters' = Append(cv_awaiters, t) /\ m_lock' = None
      /\ UNCHANGED <<m_locked, m_awaiters, list, back>>
  BY DEF push_back, Lock!at, Lock!goto
<1>2. pc'[t] = "cv_suspended" /\ \A u \in Tasks : u # t => pc'[u] = pc[u]
  BY <1>1 DEF TypeOK
<1>3. t \notin elements(cv_awaiters) /\ \A u \in Tasks : t \notin elements(list[u])
  BY <1>1 DEF SuspendedIsQueuedOnce
<1>4. /\ cv_awaiters' \in Seq(Tasks) /\ once(cv_awaiters')
      /\ elements(cv_awaiters') = elements(cv_awaiters) \cup {t}
  BY <1>1, <1>3, AppendFacts DEF TypeOK, SuspendedIsQueuedOnce
<1>5. TypeOK'
  BY <1>1, <1>4 DEF TypeOK, CvPcs
<1>6. QueuesInOrder'
  BY <1>1, <1>2 DEF QueuesInOrder
<1>7. SuspendedIsQueuedOnce'
  <2>1. \A u \in Tasks : (pc[u] = "cv_push" <=> m_lock = u)'
    BY <1>1, <1>2, CvTasksAssumption DEF SuspendedIsQueuedOnce
  <2>2. ASSUME NEW v \in Tasks
        PROVE  (pc[v] = "cv_suspended" <=>
                  v \in elements(cv_awaiters) \/ \E u \in Tasks : v \in elements(list[u]))'
    BY <1>1, <1>2, <1>4 DEF SuspendedIsQueuedOnce
  <2>3. (\A u, v \in Tasks : /\ elements(list[u]) \cap elements(cv_awaiters) = {}
                             /\ u # v => elements(list[u]) \cap elements(list[v]) = {})'
    BY <1>1, <1>3, <1>4 DEF SuspendedIsQueuedOnce
  <2>4. (once(cv_awaiters) /\ \A u \in Tasks : once(list[u]))'
    BY <1>1, <1>4 DEF SuspendedIsQueuedOnce
  <2> QED BY <2>1, <2>2, <2>3, <2>4 DEF SuspendedIsQueuedOnce
<1>8. AwaitKeepsExclusion'
  <2>1. \A u \in Tasks : holds(u)' <=> holds(u)
    BY <1>1, <1>2 DEF holds, Lock!Holding, Notifying
  <2> QED BY <1>1, <2>1, ExclusionKept, Zenon
<1> QED BY <1>5, <1>6, <1>7, <1>8

\* notify_one and notify_all take awaiters off the queue.
LEMMA TakeInv ==
  ASSUME Inv, NEW t \in Tasks, pc[t] \in {"notify_one", "notify_all"},
         NEW taken \in Seq(Tasks), NEW left \in Seq(Tasks), take(t, taken, left),
         once(taken), once(left),
         elements(taken) \cap elements(left) = {},
         elements(taken) \cup elements(left) = elements(cv_awaiters)
  PROVE  Inv'
<1> USE DEF Inv
<1>1. /\ pc' = [pc EXCEPT ![t] = "resuming"] /\ list' = [list EXCEPT ![t] = taken]
      /\ cv_awaiters' = left /\ UNCHANGED <<m_locked, m_awaiters, m_lock, back>>
  BY DEF take, Lock!goto
<1>2. pc'[t] = "resuming" /\ \A u \in Tasks : u # t => pc'[u] = pc[u]
  BY <1>1 DEF TypeOK
<1>3. list'[t] = taken /\ \A u \in Tasks : u # t => list'[u] = list[u]
  BY <1>1 DEF TypeOK
<1>4. elements(list[t]) = {}
  BY EmptyFacts DEF QueuesInOrder
<1>5. TypeOK'
  BY <1>1 DEF TypeOK, CvPcs, Notifying
<1>6. QueuesInOrder'
  BY <1>1, <1>2, <1>3 DEF QueuesInOrder
<1>7. SuspendedIsQueuedOnce'
  <2>1. \A u \in Tasks : /\ pc'[u] = "cv_push" <=> pc[u] = "cv_push"
                         /\ pc'[u] = "cv_suspended" <=> pc[u] = "cv_suspended"
    BY <1>2
  <2>2. \A v \in Tasks : (v \in elements(cv_awaiters) \/ \E u \in Tasks : v \in elements(list[u]))'
           <=> (v \in elements(cv_awaiters) \/ \E u \in Tasks : v \in elements(list[u]))
    BY <1>1, <1>3, <1>4
  <2>3. (\A u, v \in Tasks : /\ elements(list[u]) \cap elements(cv_awaiters) = {}
                             /\ u # v => elements(list[u]) \cap elements(list[v]) = {})'
    <3>1. \A u \in Tasks : elements(list[u]) \cap elements(cv_awaiters) = {}
      BY Zenon DEF SuspendedIsQueuedOnce
    <3>2. elements(taken) \subseteq elements(cv_awaiters) /\ elements(left) \subseteq elements(cv_awaiters)
      OBVIOUS
    <3>3. \A u \in Tasks : elements(list'[u]) \cap elements(cv_awaiters') = {}
      BY <1>1, <1>3, <3>1, <3>2
    <3>4. ASSUME NEW u \in Tasks, NEW v \in Tasks, u # v
          PROVE  elements(list'[u]) \cap elements(list'[v]) = {}
      <4>1. CASE u = t \/ v = t
        BY <1>3, <3>1, <3>2, <3>4, <4>1
      <4>2. CASE u # t /\ v # t
        BY <1>3, <3>4, <4>2 DEF SuspendedIsQueuedOnce
      <4> QED BY <4>1, <4>2
    <3> QED BY <3>3, <3>4
  <2>4. (once(cv_awaiters) /\ \A u \in Tasks : once(list[u]))'
    BY <1>1, <1>3 DEF SuspendedIsQueuedOnce
  <2> QED BY <1>1, <2>1, <2>2, <2>3, <2>4, Zenon DEF SuspendedIsQueuedOnce
<1>8. AwaitKeepsExclusion'
  <2>1. \A u \in Tasks : holds(u)' <=> holds(u)
    BY <1>1, <1>2 DEF holds, Lock!Holding, Notifying
  <2> QED BY <1>1, <2>1, ExclusionKept, Zenon
<1> QED BY <1>5, <1>6, <1>7, <1>8

\* A notifying task resumes the first of its list.
LEMMA ResumeInv ==
  ASSUME Inv, NEW t \in Tasks, resume(t)
  PROVE  Inv'
<1> USE DEF Inv
<1> DEFINE h == Head(list[t])
<1>1. /\ pc[t] = "resuming" /\ list[t] # <<>> /\ list[t] \in Seq(Tasks)
      /\ list' = [list EXCEPT ![t] = Tail(list[t])]
      /\ pc' = [pc EXCEPT ![h] = "cv_resume_on"]
      /\ UNCHANGED <<m_locked, m_awaiters, m_lock, cv_awaiters, back>>
  BY DEF resume, Lock!at, Lock!goto, TypeOK
<1>2. /\ h \in Tasks /\ h \in elements(list[t]) /\ Tail(list[t]) \in Seq(Tasks)
      /\ once(Tail(list[t])) /\ elements(Tail(list[t])) = elements(list[t]) \ {h}
  BY <1>1, PopFacts DEF SuspendedIsQueuedOnce
<1> HIDE DEF h
<1>3. pc[h] = "cv_suspended" /\ h # t
  BY <1>1, <1>2 DEF SuspendedIsQueuedOnce
<1>4. pc'[h] = "cv_resume_on" /\ \A u \in Tasks : u # h => pc'[u] = pc[u]
  BY <1>1, <1>2 DEF TypeOK
<1>5. list'[t] = Tail(list[t]) /\ \A u \in Tasks : u # t => list'[u] = list[u]
  BY <1>1 DEF TypeOK
<1>6. TypeOK'
  BY <1>1, <1>2 DEF TypeOK, CvPcs
<1>7. QueuesInOrder'
  BY <1>1, <1>3, <1>4, <1>5 DEF QueuesInOrder
<1>8. SuspendedIsQueuedOnce'
  <2>1. \A u \in Tasks : (pc[u] = "cv_push" <=> m_lock = u)'
    BY <1>1, <1>3, <1>4 DEF SuspendedIsQueuedOnce
  <2>2. \A u \in Tasks : elements(list'[u]) = elements(list[u]) \ {h}
    BY <1>2, <1>5 DEF SuspendedIsQueuedOnce
  <2>3. h \notin elements(cv_awaiters)
    BY <1>2 DEF SuspendedIsQueuedOnce
  <2>4. ASSUME NEW v \in Tasks
        PROVE  (pc[v] = "cv_suspended" <=>
                  v \in elements(cv_awaiters) \/ \E u \in Tasks : v \in elements(list[u]))'
    BY <1>1, <1>4, <2>2, <2>3, SMTT(30) DEF SuspendedIsQueuedOnce
  <2>5. (\A u, v \in Tasks : /\ elements(list[u]) \cap elements(cv_awaiters) = {}
                             /\ u # v => elements(list[u]) \cap elements(list[v]) = {})'
    BY <1>1, <2>2, ZenonT(30) DEF SuspendedIsQueuedOnce
  <2>6. (once(cv_awaiters) /\ \A u \in Tasks : once(list[u]))'
    BY <1>1, <1>2, <1>5 DEF SuspendedIsQueuedOnce
  <2> QED BY <2>1, <2>4, <2>5, <2>6 DEF SuspendedIsQueuedOnce
<1>9. AwaitKeepsExclusion'
  <2>1. \A u \in Tasks : holds(u)' <=> holds(u)
    BY <1>1, <1>3, <1>4 DEF holds, Lock!Holding, Notifying
  <2> QED BY <1>1, <2>1, ExclusionKept, Zenon
<1> QED BY <1>6, <1>7, <1>8, <1>9

\* The steps of the condition variable.
LEMMA CvInv ==
  ASSUME Inv, NEW t \in Tasks,
         cv_step(t) \/ await(t) \/ notify(t, "notify_one") \/ notify(t, "notify_all")
  PROVE  Inv'
<1> USE DEF Lock!at, Lock!goto
<1>b. pc[t] # "resuming" => list[t] = <<>>
  BY DEF Inv, QueuesInOrder
<1>c. \A p : pc' = [pc EXCEPT ![t] = p] => pc'[t] = p
  BY DEF Inv, TypeOK
<1>d. back \in [Tasks -> {"outside", "critical"}]
  BY DEF Inv, TypeOK
<1>1. CASE await(t)
  <2>1. /\ pc[t] = "critical" /\ pc' = [pc EXCEPT ![t] = "cv_await"]
        /\ UNCHANGED <<m_locked, m_awaiters, m_lock, cv_awaiters, list, back>>
    BY <1>1 DEF await, cvVars
  <2>2. holds(t)' /\ holds(t)
    BY <1>c, <2>1 DEF holds, Lock!Holding
  <2> QED BY <1>b, <1>d, <2>1, <2>2, MoveInv, Zenon DEF Queued, CvPcs
<1>2. CASE notify(t, "notify_one") \/ notify(t, "notify_all")
  <2>1. PICK p \in {"notify_one", "notify_all"} :
           /\ pc[t] \in {"outside", "critical"} /\ pc' = [pc EXCEPT ![t] = p]
           /\ back' = [back EXCEPT ![t] = pc[t]]
           /\ UNCHANGED <<m_locked, m_awaiters, m_lock, cv_awaiters, list>>
    BY <1>2 DEF notify
  <2>2. /\ back'[t] = pc[t] /\ \A u \in Tasks : u # t => back'[u] = back[u]
        /\ back' \in [Tasks -> {"outside", "critical"}]
    BY <1>d, <2>1
  <2>3. holds(t)' <=> holds(t)
    BY <1>c, <2>1, <2>2 DEF holds, Lock!Holding, Notifying
  <2> QED BY <1>b, <2>1, <2>2, <2>3, MoveInv, Zenon DEF Queued, CvPcs, Notifying
<1>3. CASE await_suspend(t)
  BY <1>3, ReleaseInv DEF await_suspend
<1>4. CASE push_back(t)
  BY <1>4, PushInv
<1>5. CASE cv_resume_on(t) \/ cv_run_posted(t)
  <2>1. PICK p \in {"cv_posted", "try", "outside"} :
           /\ pc[t] \in {"cv_resume_on", "cv_posted"} /\ pc' = [pc EXCEPT ![t] = p]
           /\ UNCHANGED <<m_locked, m_awaiters, m_lock, cv_awaiters, list, back>>
    BY <1>5 DEF cv_resume_on, cv_run_posted, relock, cvVars
  <2>2. ~holds(t)' /\ ~holds(t)
    BY <1>c, <2>1 DEF holds, Lock!Holding, Notifying
  <2> QED BY <1>b, <1>d, <2>1, <2>2, MoveInv, Zenon DEF Queued, CvPcs, Lock!LockPcs
<1>6. CASE notify_one(t)
  <2>0. cv_awaiters \in Seq(Tasks) /\ once(cv_awaiters) /\ <<>> \in Seq(Tasks)
    BY DEF Inv, TypeOK, SuspendedIsQueuedOnce
  <2>1. CASE cv_awaiters = <<>>
    <3>1. take(t, <<>>, <<>>) /\ pc[t] = "notify_one"
      BY <1>6, <2>1 DEF notify_one
    <3> QED BY <2>0, <2>1, <3>1, EmptyFacts, TakeInv, Zenon
  <2>2. CASE cv_awaiters # <<>>
    <3>1. take(t, <<Head(cv_awaiters)>>, Tail(cv_awaiters)) /\ pc[t] = "notify_one"
      BY <1>6, <2>2 DEF notify_one
    <3>2. /\ Head(cv_awaiters) \in Tasks /\ Head(cv_awaiters) \in elements(cv_awaiters)
          /\ Tail(cv_awaiters) \in Seq(Tasks) /\ once(Tail(cv_awaiters))
          /\ elements(Tail(cv_awaiters)) = elements(cv_awaiters) \ {Head(cv_awaiters)}
      BY <2>0, <2>2, PopFacts
    <3>3. /\ <<Head(cv_awaiters)>> \in Seq(Tasks) /\ once(<<Head(cv_awaiters)>>)
          /\ elements(<<Head(cv_awaiters)>>) = {Head(cv_awaiters)}
      BY <3>2, SingleFacts
    <3> QED BY <3>1, <3>2, <3>3, TakeInv, Zenon
  <2> QED BY <2>1, <2>2
<1>7. CASE notify_all(t)
  <2>1. cv_awaiters \in Seq(Tasks) /\ once(cv_awaiters) /\ <<>> \in Seq(Tasks)
    BY DEF Inv, TypeOK, SuspendedIsQueuedOnce
  <2>2. take(t, cv_awaiters, <<>>) /\ pc[t] = "notify_all"
    BY <1>7 DEF notify_all
  <2> QED BY <2>1, <2>2, EmptyFacts, TakeInv, Zenon
<1>8. CASE resume(t)
  BY <1>8, ResumeInv
<1>9. CASE notified(t)
  <2>1. /\ pc[t] = "resuming" /\ list[t] = <<>> /\ pc' = [pc EXCEPT ![t] = back[t]]
        /\ back' = [back EXCEPT ![t] = "outside"] /\ back[t] \in {"outside", "critical"}
        /\ UNCHANGED <<m_locked, m_awaiters, m_lock, cv_awaiters, list>>
    BY <1>9, <1>d DEF notified
  <2>2. /\ back'[t] = "outside" /\ \A u \in Tasks : u # t => back'[u] = back[u]
        /\ back' \in [Tasks -> {"outside", "critical"}]
    BY <1>d, <2>1
  <2>3. holds(t)' <=> holds(t)
    BY <1>c, <2>1, <2>2, Zenon DEF holds, Lock!Holding, Notifying
  <2> QED BY <2>1, <2>2, <2>3, MoveInv, Zenon DEF Queued, Lock!LockPcs, Lock!Holding
<1> QED BY <1>1, <1>2, <1>3, <1>4, <1>5, <1>6, <1>7, <1>8, <1>9 DEF cv_step

\* Inv holds at the beginning.
LEMMA InitInv == Init => Inv
<1> SUFFICES ASSUME Init PROVE Inv
  OBVIOUS
<1> USE DEF Init, Lock!Init
<1>1. TypeOK
  BY DEF TypeOK, Lock!LockPcs
<1>2. QueuesInOrder /\ SuspendedIsQueuedOnce
  BY EmptyFacts, CvTasksAssumption DEF QueuesInOrder, SuspendedIsQueuedOnce
<1>3. AwaitKeepsExclusion
  BY DEF AwaitKeepsExclusion, holds, Lock!Holding, Notifying
<1> QED BY <1>1, <1>2, <1>3 DEF Inv

\* Inv is an invariant of the condition variable and its lock together.
THEOREM Invariance == Spec => []Inv
<1>1. Inv /\ [Next]_vars => Inv'
  <2> SUFFICES ASSUME Inv, [Next]_vars PROVE Inv'
    OBVIOUS
  <2>1. CASE shutdown \/ UNCHANGED vars
    <3>1. UNCHANGED <<m_locked, m_awaiters, pc, m_lock, cv_awaiters, list, back>>
      BY <2>1 DEF shutdown, Lock!shutdown, vars, lockVars, cvVars
    <3>2. TypeOK' /\ QueuesInOrder'
      BY <3>1 DEF Inv, TypeOK, QueuesInOrder
    <3>3. SuspendedIsQueuedOnce'
      BY <3>1 DEF Inv, SuspendedIsQueuedOnce
    <3>4. AwaitKeepsExclusion'
      BY <3>1 DEF Inv, AwaitKeepsExclusion, holds
    <3> QED BY <3>2, <3>3, <3>4 DEF Inv
  <2>2. ASSUME NEW t \in Tasks, lock_step(t) \/ cv_step(t) \/ call(t) PROVE Inv'
    BY <2>2, LockInv, CvInv DEF lock_step, call
  <2> QED BY <2>1, <2>2 DEF Next
<1> QED BY <1>1, InitInv, PTL DEF Spec

\* No notification falls between the unlock and the queueing of an await, and each
\* suspended task is resumed by exactly one notification.
THEOREM ResumedOnce == Spec => []SuspendedIsQueuedOnce
<1>1. Inv => SuspendedIsQueuedOnce
  BY DEF Inv
<1> QED BY <1>1, Invariance, PTL

\* await gives the lock back and returns with it: owners exclude one another, and
\* m_locked says whether there is one.
THEOREM Exclusion == Spec => []AwaitKeepsExclusion
<1>1. Inv => AwaitKeepsExclusion
  BY DEF Inv
<1> QED BY <1>1, Invariance, PTL
=============================================================================
